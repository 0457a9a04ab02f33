-------------------------- MODULE XlogPacketProofs -------------------------
(***************************************************************************)
(* Proofs about what the WAL queue holds, for any ring, processes and      *)
(* record sizes for which the kept share of the ring is large enough: a    *)
(* reference counts and finds the packets in the order of the WAL, a       *)
(* packet found ready is whole, the saver takes every record in order, and *)
(* a walsender leaves none out.                                            *)
(***************************************************************************)
EXTENDS XlogQueueProofs, FiniteSetTheorems

(***************************************************************************)
(* The inductive invariant.                                                *)
(***************************************************************************)

\* The writer has a record and has not finished its packet; it has not finished
\* the copy into the WAL buffers.
Pushing(w) == writer[w].pc \in {"reserved", "copy", "push", "flag"}
Copying(w) == writer[w].pc \in {"reserved", "copy"}

\* The slot is the one that keeps a share of the ring for late readers.
IsKeep(i) == saver.keep # NoRef /\ i = saver.keep.slot

\* Records follow each other, none is empty, and the least read position is at the
\* end of one.
WalOK ==
    /\ minVisit <= Len(wal)
    /\ \A n \in Records : EndOf(n) = StartOf(n) + wal[n].len
    /\ \A a, b \in 0 .. Len(wal) : a <= b => EndOf(a) + (b - a) <= EndOf(b)

\* A packet under construction has its own record, at its place in the ring, and is
\* not marked ready.
PushOK ==
    \A w \in Writers : Pushing(w) =>
        LET n == writer[w].n
        IN  /\ n \in Records /\ writer[w].len = wal[n].len
            /\ writer[w].idx = StartOf(n) % Size
            /\ \A v \in Writers : Pushing(v) /\ writer[v].n = n => v = w
            /\ ~cells[writer[w].idx].ready

\* Nobody but the keep reference has stepped over it.
PushAhead ==
    \A w \in Writers : Pushing(w) =>
        /\ minVisit < writer[w].n
        /\ \A i \in Occupied(slot) : ~IsKeep(i) => slot[i].visit < writer[w].n

\* Of the packets that are not given up, each has its length once set, and its
\* content once written.
PacketsOK ==
    \A n \in minVisit + 1 .. Len(wal) :
        /\ (\A w \in Writers : writer[w].pc = "reserved" => writer[w].n # n) =>
              cells[StartOf(n) % Size].len = wal[n].len
        /\ (\A w \in Writers : writer[w].pc \in {"reserved", "copy", "push"} => writer[w].n # n) =>
              \A u \in StartOf(n) .. EndOf(n) - 1 : cells[u % Size].lsn = EndOf(n)

\* The keep reference is never alone, and the saver has popped what its own one
\* has stepped over.
SaverOK ==
    /\ saver.keep # NoRef => saver.ref # NoRef /\ saver.ref.num # saver.keep.num
    /\ saver.pc = "keep" => saver.keep # NoRef
    /\ saver.count # 0 => saver.ref # NoRef /\ saver.saved = EndOf(slot[saver.ref.slot].visit)

\* WAL is written out only up to records that are copied; a record that is copied
\* fitted into the WAL buffers.
WrittenOK ==
    /\ \A p \in Waiters, w \in Writers :
         Copying(w) /\ w \in wait[p].seen => wait[p].upto <= StartOf(writer[w].n)
    /\ \A w \in Writers : Copying(w) => written <= StartOf(writer[w].n)
    /\ \A n \in Records : EndOf(n) > written + WalBuffers =>
         \E w \in Writers : Copying(w) /\ writer[w].n = n

PInv == /\ IInv /\ WalOK /\ VisitNamesPosition /\ PushOK /\ PushAhead /\ PacketsOK
        /\ SaverOK /\ WrittenOK

\* No record is longer than len.
NoLonger(len) == \A a, b \in 0 .. Len(wal) : a <= b => EndOf(b) - EndOf(a) <= (b - a) * len

\* The length of a packet is set before so much is reserved behind it that the
\* keep reference would step over it.
LengthsInTime ==
    \A w \in Writers : writer[w].pc = "reserved" => InsertLsn - StartOf(writer[w].n) <= KeepSize

(***************************************************************************)
(* Positions in the ring.                                                  *)
(***************************************************************************)

LEMMA Division ==
    ASSUME NEW a \in Nat
    PROVE  a = Size * (a \div Size) + (a % Size) /\ a % Size \in 0 .. Size - 1 /\ a \div Size \in Nat
  BY SizeAssumption

LEMMA Remainder ==
    ASSUME NEW q \in Nat, NEW r \in 0 .. Size - 1
    PROVE  (Size * q + r) % Size = r
  BY SizeAssumption

\* The position d units on, less than a lap.
LEMMA Ahead ==
    ASSUME NEW a \in Nat, NEW d \in 0 .. Size - 1
    PROVE  /\ (a % Size) + d < Size => (a + d) % Size = (a % Size) + d
           /\ (a % Size) + d >= Size => (a + d) % Size = (a % Size) + d - Size
  <1> DEFINE q == a \div Size
             r == a % Size
  <1>1. a = Size * q + r /\ r \in 0 .. Size - 1 /\ q \in Nat /\ Size \in Nat
    BY Division, SizeAssumption
  <1> HIDE DEF q, r
  <1>2. CASE r + d < Size
    <2>1. r + d \in 0 .. Size - 1
      BY <1>1, <1>2
    <2>2. (Size * q + (r + d)) % Size = r + d
      BY <1>1, <2>1, Remainder
    <2>3. a + d = Size * q + (r + d)
      BY <1>1
    <2> QED BY <1>1, <1>2, <2>2, <2>3 DEF r
  <1>3. CASE r + d >= Size
    <2>1. r + d - Size \in 0 .. Size - 1 /\ q + 1 \in Nat
      BY <1>1, <1>3
    <2>2. (Size * (q + 1) + (r + d - Size)) % Size = r + d - Size
      BY <2>1, Remainder
    <2>3. a + d = Size * (q + 1) + (r + d - Size)
      BY <1>1
    <2> QED BY <1>1, <1>3, <2>2, <2>3 DEF r
  <1> QED BY <1>1, <1>2, <1>3 DEF r

\* Stepping on in the ring is stepping on in the WAL.
LEMMA StepsOn ==
    ASSUME NEW a \in Nat, NEW d \in 0 .. Size - 1
    PROVE  ((a % Size) + d) % Size = (a + d) % Size
  <1> DEFINE r == a % Size
  <1>1. r \in 0 .. Size - 1 /\ Size \in Nat
    BY Division, SizeAssumption
  <1>2. r \in Nat /\ r % Size = r
    BY <1>1
  <1>3. /\ r + d < Size => (a + d) % Size = r + d
        /\ r + d >= Size => (a + d) % Size = r + d - Size
    BY Ahead
  <1> HIDE DEF r
  <1>4. /\ r + d < Size => (r + d) % Size = r + d
        /\ r + d >= Size => (r + d) % Size = r + d - Size
    BY <1>2, Ahead
  <1>5. ((r + d) % Size) = (a + d) % Size
    BY <1>1, <1>3, <1>4
  <1> QED BY <1>5 DEF r

\* The distance between two positions, seen from the one behind and from the one
\* ahead.
LEMMA Distance ==
    ASSUME NEW a \in Nat, NEW d \in 0 .. Size - 1
    PROVE  /\ (((a + d) % Size) - (a % Size)) % Size = d
           /\ d > 0 => ((a % Size) - ((a + d) % Size)) % Size = Size - d
  <1> DEFINE r == a % Size
             s == (a + d) % Size
  <1>1. r \in 0 .. Size - 1 /\ Size \in Nat /\ Size > 1 /\ a + d \in Nat /\ d \in 0 .. Size - 1
    BY Division, SizeAssumption
  <1>2. /\ r + d < Size => s = r + d
        /\ r + d >= Size => s = r + d - Size
    BY Ahead
  <1> HIDE DEF r, s
  <1>3. s - r \in {d, d - Size}
    BY <1>1, <1>2
  <1>4. d % Size = d /\ (d - Size) % Size = d
    BY <1>1
  <1>5. d > 0 => (Size - d) % Size = Size - d /\ (-d) % Size = Size - d
    BY <1>1
  <1>6. (s - r) % Size = d
    BY <1>3, <1>4
  <1>7. r - s \in {-d, Size - d}
    BY <1>1, <1>2
  <1>8. d > 0 => (r - s) % Size = Size - d
    BY <1>5, <1>7
  <1> QED BY <1>6, <1>8 DEF r, s

(***************************************************************************)
(* The records in the ring.                                                *)
(***************************************************************************)

LEMMA Basics ==
    ASSUME PInv
    PROVE  /\ Len(wal) \in Nat /\ InsertLsn \in Nat /\ minVisit \in Nat /\ minVisit <= Len(wal)
           /\ \A n \in 0 .. Len(wal) : EndOf(n) \in Nat /\ EndOf(n) <= InsertLsn
           /\ \A n \in Records : wal[n].len \in Lens /\ wal[n].len \in Nat /\ wal[n].len > 0
           /\ InsertLsn = EndOf(Len(wal)) /\ Size \in Nat /\ Size > 1
  <1>1. TypeOK /\ EndsOK
    BY DEF PInv, IInv
  <1>2. Len(wal) \in Nat /\ InsertLsn \in Nat /\ \A n \in 0 .. Len(wal) : EndOf(n) \in Nat /\ EndOf(n) <= InsertLsn
    BY <1>1, EndFacts
  <1>3. minVisit \in Nat
    BY <1>1 DEF TypeOK, RingTypeOK
  <1>4. \A n \in Records : wal[n].len \in Lens
    <2>1. wal \in Seq(WalRecords)
      BY <1>1 DEF TypeOK, WalRecords
    <2>2. \A x \in WalRecords : x.len \in Lens
      BY DEF WalRecords
    <2>3. \A n \in Records : wal[n] \in WalRecords
      BY <2>1 DEF Records
    <2> QED BY <2>2, <2>3
  <1>5. \A l \in Lens : l \in Nat /\ l > 0
    BY LensAssumption, QueueAssumption
  <1>6. minVisit <= Len(wal)
    BY DEF PInv, WalOK
  <1> QED BY <1>2, <1>3, <1>4, <1>5, <1>6, SizeAssumption DEF InsertLsn

\* A packet that is not given up: where its record begins and ends.
LEMMA LiveFacts ==
    ASSUME PInv, NEW n \in minVisit + 1 .. Len(wal)
    PROVE  /\ n \in Records /\ n - 1 \in 0 .. Len(wal) /\ n \in 0 .. Len(wal) /\ n \in Nat
           /\ StartOf(n) \in Nat /\ EndOf(n) \in Nat /\ EndOf(minVisit) \in Nat
           /\ wal[n].len \in Nat /\ wal[n].len > 0 /\ EndOf(n) = StartOf(n) + wal[n].len
           /\ EndOf(minVisit) <= StartOf(n) /\ EndOf(n) <= InsertLsn
           /\ EndOf(n) - EndOf(minVisit) < Size
  <1>1. n \in Records /\ n - 1 \in 0 .. Len(wal) /\ n \in 0 .. Len(wal) /\ minVisit \in 0 .. Len(wal)
        /\ minVisit <= n - 1 /\ n \in Nat
    BY Basics DEF Records
  <1>2. StartOf(n) \in Nat /\ EndOf(n) \in Nat /\ EndOf(minVisit) \in Nat /\ EndOf(n) <= InsertLsn
        /\ InsertLsn \in Nat /\ Size \in Nat
    BY <1>1, Basics DEF StartOf
  <1>3. wal[n].len \in Nat /\ wal[n].len > 0
    BY <1>1, Basics
  <1>4. EndOf(n) = StartOf(n) + wal[n].len
    BY <1>1 DEF PInv, WalOK
  <1>5. EndOf(minVisit) + (n - 1 - minVisit) <= EndOf(n - 1)
    BY <1>1 DEF PInv, WalOK
  <1>6. EndOf(minVisit) <= StartOf(n)
    <2>1. minVisit \in Nat
      BY Basics
    <2>2. EndOf(minVisit) + (n - 1 - minVisit) <= StartOf(n)
      BY <1>5 DEF StartOf
    <2> QED BY <1>1, <1>2, <2>1, <2>2
  <1>7. InsertLsn - EndOf(minVisit) < Size
    BY DEF PInv, VisitNamesPosition
  <1>8. EndOf(n) - EndOf(minVisit) < Size
    BY <1>2, <1>7
  <1> QED BY <1>1, <1>2, <1>3, <1>4, <1>6, <1>8

\* The later of two records begins after the end of the other.
LEMMA InOrder ==
    ASSUME PInv, NEW a \in 0 .. Len(wal), NEW b \in Records, a < b
    PROVE  EndOf(a) <= StartOf(b)
  <1>1. a \in Nat /\ b \in Nat /\ b - 1 \in 0 .. Len(wal) /\ a <= b - 1
    BY Basics DEF Records
  <1>2. EndOf(a) + (b - 1 - a) <= EndOf(b - 1)
    BY <1>1 DEF PInv, WalOK
  <1>3. EndOf(a) \in Nat /\ EndOf(b - 1) \in Nat
    BY <1>1, Basics
  <1> QED BY <1>1, <1>2, <1>3 DEF StartOf

\* The units of a packet: PktWrite covers the packet it writes ...
LEMMA Within ==
    ASSUME NEW a \in Nat, NEW len \in Nat, NEW x \in Nat, a <= x, x < a + len, len < Size
    PROVE  ((x % Size) - (a % Size)) % Size < len
  <1> DEFINE d == x - a
  <1>1. d \in 0 .. Size - 1 /\ x = a + d /\ d < len
    BY SizeAssumption
  <1> HIDE DEF d
  <1>2. (((a + d) % Size) - (a % Size)) % Size = d
    BY <1>1, Distance
  <1> QED BY <1>1, <1>2

\* ... and no unit of one behind or ahead of it.
LEMMA Without ==
    ASSUME NEW a \in Nat, NEW len \in Nat, NEW x \in Nat,
           (a + len <= x /\ x - a < Size) \/ (x < a /\ a + len - x <= Size), len > 0
    PROVE  ~ (((x % Size) - (a % Size)) % Size < len)
  <1>s. Size \in Nat
    BY SizeAssumption
  <1>1. CASE a + len <= x /\ x - a < Size
    <2> DEFINE d == x - a
    <2>1. d \in 0 .. Size - 1 /\ x = a + d /\ d >= len
      BY <1>s, <1>1
    <2> HIDE DEF d
    <2>2. (((a + d) % Size) - (a % Size)) % Size = d
      BY <2>1, Distance
    <2> QED BY <2>1, <2>2
  <1>2. CASE x < a /\ a + len - x <= Size
    <2> DEFINE d == a - x
    <2>1. d \in 0 .. Size - 1 /\ d > 0 /\ a = x + d /\ Size - d >= len
      BY <1>s, <1>2
    <2> HIDE DEF d
    <2>2. ((x % Size) - ((x + d) % Size)) % Size = Size - d
      BY <2>1, Distance
    <2> QED BY <1>s, <2>1, <2>2
  <1> QED BY <1>1, <1>2

LEMMA LessThanLap ==
    ASSUME NEW base \in Nat, NEW a \in Nat, NEW e \in Nat, base <= a, a <= e, e - base < Size
    PROVE  e - a \in 0 .. Size - 1 /\ e = a + (e - a)
  BY SizeAssumption

LEMMA Shorter ==
    ASSUME NEW base \in Nat, NEW a \in Nat, NEW len \in Nat, NEW e \in Nat, e = a + len, base <= a, e - base < Size
    PROVE  len < Size
  BY SizeAssumption

LEMMA OwnUnits ==
    ASSUME PInv, NEW n \in minVisit + 1 .. Len(wal), NEW x \in StartOf(n) .. EndOf(n) - 1
    PROVE  ((x % Size) - (StartOf(n) % Size)) % Size < wal[n].len
  <1>1. /\ StartOf(n) \in Nat /\ EndOf(n) \in Nat /\ EndOf(minVisit) \in Nat /\ wal[n].len \in Nat
        /\ EndOf(n) = StartOf(n) + wal[n].len /\ EndOf(minVisit) <= StartOf(n)
        /\ EndOf(n) - EndOf(minVisit) < Size /\ Size \in Nat
    BY LiveFacts, Basics
  <1>2. x \in Nat /\ StartOf(n) <= x /\ x < StartOf(n) + wal[n].len
    BY <1>1
  <1>3. wal[n].len < Size
    BY <1>1, Shorter
  <1> QED BY <1>1, <1>2, <1>3, Within

LEMMA Beside ==
    ASSUME NEW base \in Nat, NEW a \in Nat, NEW len \in Nat, NEW b \in Nat, NEW e \in Nat, NEW x \in Nat,
           base <= a, a + len - base < Size, base <= b, e - base < Size, b <= x, x < e,
           a + len <= b \/ e <= a
    PROVE  (a + len <= x /\ x - a < Size) \/ (x < a /\ a + len - x <= Size)
  BY SizeAssumption

LEMMA OtherUnits ==
    ASSUME PInv, NEW n \in minVisit + 1 .. Len(wal), NEW m \in minVisit + 1 .. Len(wal), n # m,
           NEW x \in StartOf(m) .. EndOf(m) - 1
    PROVE  ~ (((x % Size) - (StartOf(n) % Size)) % Size < wal[n].len)
  <1>1. /\ StartOf(n) \in Nat /\ EndOf(n) \in Nat /\ EndOf(minVisit) \in Nat /\ wal[n].len \in Nat
        /\ EndOf(n) = StartOf(n) + wal[n].len /\ EndOf(minVisit) <= StartOf(n)
        /\ EndOf(n) - EndOf(minVisit) < Size /\ Size \in Nat /\ wal[n].len > 0
    BY LiveFacts, Basics
  <1>2. /\ StartOf(m) \in Nat /\ EndOf(m) \in Nat /\ EndOf(minVisit) <= StartOf(m)
        /\ EndOf(m) - EndOf(minVisit) < Size
    BY LiveFacts
  <1>3. n \in Nat /\ m \in Nat /\ n \in Records /\ m \in Records /\ n \in 0 .. Len(wal) /\ m \in 0 .. Len(wal)
    BY LiveFacts
  <1>4. x \in Nat /\ StartOf(m) <= x /\ x < EndOf(m)
    BY <1>2
  <1>5. StartOf(n) + wal[n].len <= StartOf(m) \/ EndOf(m) <= StartOf(n)
    <2>1. n < m => EndOf(n) <= StartOf(m)
      BY <1>3, InOrder
    <2>2. m < n => EndOf(m) <= StartOf(n)
      BY <1>3, InOrder
    <2>3. n < m \/ m < n
      BY <1>3
    <2> QED BY <1>1, <2>1, <2>2, <2>3
  <1>6. StartOf(n) + wal[n].len - EndOf(minVisit) < Size
    BY <1>1
  <1>7. \/ StartOf(n) + wal[n].len <= x /\ x - StartOf(n) < Size
        \/ x < StartOf(n) /\ StartOf(n) + wal[n].len - x <= Size
    BY <1>1, <1>2, <1>4, <1>5, <1>6, Beside
  <1> QED BY <1>1, <1>4, <1>7, Without

LEMMA HeadsApart ==
    ASSUME PInv, NEW n \in minVisit + 1 .. Len(wal), NEW m \in minVisit + 1 .. Len(wal), n # m
    PROVE  StartOf(n) % Size # StartOf(m) % Size
  <1>0. StartOf(m) \in Nat /\ EndOf(m) \in Nat /\ wal[m].len \in Nat /\ wal[m].len > 0
        /\ EndOf(m) = StartOf(m) + wal[m].len
    BY LiveFacts
  <1>1. StartOf(m) \in StartOf(m) .. EndOf(m) - 1
    BY <1>0
  <1>2. ~ (((StartOf(m) % Size) - (StartOf(n) % Size)) % Size < wal[n].len)
    BY <1>1, OtherUnits
  <1> DEFINE r == StartOf(m) % Size
             s == StartOf(n) % Size
             l == wal[n].len
  <1>3. r \in Int /\ 0 % Size = 0 /\ l > 0 /\ l \in Nat
    <2>1. r \in Int
      BY <1>0, Division
    <2>2. l \in Nat /\ l > 0
      BY LiveFacts
    <2>3. 0 % Size = 0
      BY SizeAssumption
    <2> QED BY <2>1, <2>2, <2>3
  <1>4. ~ ((r - s) % Size < l)
    BY <1>2
  <1> HIDE DEF r, s, l
  <1>5. r # s
    BY <1>3, <1>4
  <1> QED BY <1>5 DEF r, s

(***************************************************************************)
(* Readers move, come and go.                                              *)
(***************************************************************************)

\* The visit count of every reference in use, but the one with this number, stays.
VisitsKeptBut(num) ==
    \A r \in Refs : Held(r) /\ r.num # num => slot'[r.slot].visit = slot[r.slot].visit

\* What a step of the readers leaves alone.
DataStays == UNCHANGED <<cells, pwrite, wal, written, wait, writer>>

LEMMA WalStays ==
    ASSUME DataStays
    PROVE  /\ InsertLsn' = InsertLsn /\ Records' = Records
           /\ \A n : EndOf(n)' = EndOf(n) /\ StartOf(n)' = StartOf(n)
           /\ \A w \in Writers : Pushing(w)' = Pushing(w) /\ Copying(w)' = Copying(w)
  BY DEF DataStays, InsertLsn, Records, EndOf, StartOf, Pushing, Copying

LEMMA Shrinks ==
    ASSUME NEW a \in Nat, NEW b \in Nat, NEW c \in Nat, a <= b
    PROVE  \A n \in b + 1 .. c : n \in a + 1 .. c
  OBVIOUS

LEMMA BeginsSooner ==
    ASSUME NEW a \in Nat, NEW c \in Nat, NEW n \in a + 1 .. c
    PROVE  n \in a .. c
  OBVIOUS

LEMMA ReadersStep ==
    ASSUME PInv, IInv', DataStays, minVisit <= minVisit', minVisit' <= Len(wal),
           VisitNamesPosition', PushAhead', SaverOK'
    PROVE  PInv'
  <1>u. UNCHANGED <<cells, pwrite, wal, written, wait, writer>>
    BY DEF DataStays
  <1>1. WalOK'
    BY <1>u, WalStays DEF PInv, WalOK
  <1>2. PushOK'
    BY <1>u, WalStays DEF PInv, PushOK
  <1>3. PacketsOK'
    <2>1. \A n \in (minVisit + 1 .. Len(wal))' : n \in minVisit + 1 .. Len(wal)
      <3>1. minVisit \in Nat /\ minVisit' \in Nat /\ Len(wal) \in Nat
        BY Basics DEF IInv, TypeOK, RingTypeOK
      <3>2. Len(wal') = Len(wal)
        BY <1>u
      <3>3. \A n \in minVisit' + 1 .. Len(wal) : n \in minVisit + 1 .. Len(wal)
        BY <3>1, Shrinks
      <3> QED BY <3>2, <3>3
    <2>2. \A n \in minVisit + 1 .. Len(wal) :
            /\ (\A w \in Writers : writer'[w].pc = "reserved" => writer'[w].n # n) =>
                  cells'[StartOf(n)' % Size].len = wal'[n].len
            /\ (\A w \in Writers : writer'[w].pc \in {"reserved", "copy", "push"} => writer'[w].n # n) =>
                  \A u \in StartOf(n)' .. EndOf(n)' - 1 : cells'[u % Size].lsn = EndOf(n)'
      <3>1. PacketsOK
        BY DEF PInv
      <3> QED BY <1>u, <3>1, WalStays DEF PacketsOK
    <2> QED BY <2>1, <2>2 DEF PacketsOK
  <1>4. WrittenOK'
    BY <1>u DEF PInv, WrittenOK, Copying, StartOf, EndOf, Records
  <1> QED BY <1>1, <1>2, <1>3, <1>4 DEF PInv

\* Facts about an occupied slot.
LEMMA SlotFacts ==
    ASSUME PInv, NEW i \in Occupied(slot)
    PROVE  /\ i \in Slots /\ slot[i].visit \in Nat /\ slot[i].visit \in minVisit .. Len(wal)
           /\ slot[i].pread = EndOf(slot[i].visit) % Size
           /\ EndOf(slot[i].visit) \in Nat /\ slot[i].visit \in 0 .. Len(wal)
  <1>1. i \in Slots /\ slot \in [Slots -> SlotStates]
    BY DEF Occupied, PInv, IInv, TypeOK, RingTypeOK, SlotStates
  <1>2. slot[i].visit \in Nat
    BY <1>1 DEF SlotStates
  <1>3. slot[i].visit \in minVisit .. Len(wal) /\ slot[i].pread = EndOf(slot[i].visit) % Size
    BY DEF PInv, VisitNamesPosition
  <1>4. slot[i].visit \in 0 .. Len(wal)
    BY <1>2, <1>3, Basics
  <1> QED BY <1>1, <1>2, <1>3, <1>4, Basics

LEMMA HeldFacts ==
    ASSUME PInv, NEW ref \in Refs, Held(ref)
    PROVE  ref.slot \in Occupied(slot) /\ ref.slot \in Slots /\ slot[ref.slot].num = ref.num /\ ref.num # 0
  BY DEF Held, Match, Occupied

\* A new reference begins at the least read position.
LEMMA NewRefPlaces ==
    ASSUME PInv, NEW strong \in BOOLEAN, NEW i \in Slots, NEW ref, ref = [slot |-> i, num |-> refNum + 1],
           NewRef(strong, ref), UNCHANGED <<wal, writer>>,
           \A j \in Slots : IsKeep(j) => IsKeep(j)'
    PROVE  minVisit' = minVisit /\ VisitNamesPosition' /\ PushAhead' /\ VisitsKeptBut(0)
           /\ slot'[i].visit = minVisit
  <1> DEFINE new == [strong |-> strong, pread |-> pread, visit |-> minVisit, num |-> ref.num]
  <1>1. slot \in [Slots -> SlotStates] /\ refNum \in Nat
    BY DEF PInv, IInv, TypeOK, RingTypeOK, SlotStates
  <1>2. ref.slot = i /\ slot[i].num = 0 /\ UNCHANGED <<cells, pread, pwrite, minVisit>>
    BY DEF NewRef, Occupied
  <1>3. slot' = [slot EXCEPT ![i] = new]
    BY <1>2 DEF NewRef
  <1>4. /\ slot'[i].visit = minVisit /\ slot'[i].pread = pread
        /\ \A j \in Slots : j # i => slot'[j] = slot[j]
    BY <1>1, <1>3
  <1> HIDE DEF new
  <1>5. \A j \in Occupied(slot') : j = i \/ (j \in Occupied(slot) /\ slot'[j] = slot[j])
    BY <1>4 DEF Occupied
  <1>w. UNCHANGED <<InsertLsn, Len(wal)>> /\ \A n : EndOf(n)' = EndOf(n)
    BY DEF InsertLsn, EndOf
  <1>6. VisitNamesPosition'
    <2>1. pread' = EndOf(minVisit)' % Size /\ pwrite' = InsertLsn' % Size /\ InsertLsn' - EndOf(minVisit)' < Size
      BY <1>2, <1>w DEF PInv, VisitNamesPosition, EndOf
    <2>2. ASSUME NEW j \in Occupied(slot')
          PROVE  slot'[j].visit \in (minVisit' .. Len(wal')) /\ slot'[j].pread = EndOf(slot[j].visit)' % Size
      <3>1. CASE j = i
        <4>1. minVisit \in minVisit .. Len(wal)
          BY Basics
        <4>2. pread = EndOf(minVisit) % Size
          BY DEF PInv, VisitNamesPosition
        <4> QED BY <1>2, <1>4, <1>w, <3>1, <4>1, <4>2 DEF EndOf
      <3>2. CASE j \in Occupied(slot) /\ slot'[j] = slot[j]
        BY <1>2, <1>w, <3>2, SlotFacts DEF EndOf
      <3> QED BY <1>5, <3>1, <3>2
    <2> QED BY <2>1, <2>2 DEF VisitNamesPosition
  <1>7. PushAhead'
    <2> SUFFICES ASSUME NEW w \in Writers, Pushing(w)'
                 PROVE  /\ minVisit' < writer'[w].n
                        /\ \A j \in Occupied(slot') : ~IsKeep(j)' => slot'[j].visit < writer'[w].n
      BY DEF PushAhead
    <2>1. Pushing(w)
      BY DEF Pushing
    <2>2. minVisit < writer[w].n /\ \A j \in Occupied(slot) : ~IsKeep(j) => slot[j].visit < writer[w].n
      BY <2>1 DEF PInv, PushAhead
    <2>3. \A j \in Occupied(slot') : j \in Slots
      BY DEF Occupied
    <2> QED BY <1>2, <1>4, <1>5, <2>2, <2>3
  <1>8. VisitsKeptBut(0)
    <2> SUFFICES ASSUME NEW r \in Refs, Held(r)
                 PROVE  slot'[r.slot].visit = slot[r.slot].visit
      BY DEF VisitsKeptBut
    <2>1. r.slot \in Slots /\ r.slot # i
      BY <1>2 DEF Held, Match
    <2> QED BY <1>4, <2>1
  <1> QED BY <1>2, <1>4, <1>6, <1>7, <1>8

\* What polar_ringbuf_avail tells a reference is the WAL it has still to read.
LEMMA AvailFacts ==
    ASSUME PInv, NEW ref \in Refs, Held(ref)
    PROVE  /\ Avail(ref) = InsertLsn - EndOf(slot[ref.slot].visit)
           /\ Avail(ref) > 0 => slot[ref.slot].visit + 1 \in minVisit + 1 .. Len(wal)
  <1> DEFINE v == slot[ref.slot].visit
             e == EndOf(v)
             d == InsertLsn - e
  <1>1. /\ v \in Nat /\ v \in minVisit .. Len(wal) /\ slot[ref.slot].pread = e % Size
        /\ e \in Nat /\ v \in 0 .. Len(wal)
    BY HeldFacts, SlotFacts
  <1>2. /\ Len(wal) \in Nat /\ InsertLsn \in Nat /\ minVisit \in Nat /\ InsertLsn = EndOf(Len(wal))
        /\ e <= InsertLsn /\ EndOf(minVisit) \in Nat /\ Size \in Nat /\ Size > 1 /\ minVisit \in 0 .. Len(wal)
    BY <1>1, Basics
  <1>3. EndOf(minVisit) <= e
    <2>1. EndOf(minVisit) + (v - minVisit) <= e
      BY <1>1, <1>2 DEF PInv, WalOK
    <2> QED BY <1>1, <1>2, <2>1
  <1>4. InsertLsn - EndOf(minVisit) < Size /\ pwrite = InsertLsn % Size
    BY DEF PInv, VisitNamesPosition
  <1> HIDE DEF e
  <1>5. d \in 0 .. Size - 1 /\ InsertLsn = e + d
    BY <1>1, <1>2, <1>3, <1>4, LessThanLap
  <1> HIDE DEF d
  <1>6. ((InsertLsn % Size) - (e % Size)) % Size = d
    BY <1>1, <1>5, Distance
  <1>7. Avail(ref) = d
    BY <1>1, <1>4, <1>6 DEF Avail
  <1>8. d > 0 => v # Len(wal)
    <2>1. v = Len(wal) => e = InsertLsn
      BY <1>2 DEF e
    <2>2. e = InsertLsn => ~ (d > 0)
      BY <1>1, <1>5
    <2> QED BY <2>1, <2>2
  <1>9. v # Len(wal) => v + 1 \in minVisit + 1 .. Len(wal)
    <2> DEFINE l == Len(wal)
    <2>1. v \in Nat /\ v \in minVisit .. l /\ l \in Nat /\ minVisit \in Nat
      BY <1>1, <1>2
    <2> HIDE DEF v, l
    <2>2. v # l => v + 1 \in minVisit + 1 .. l
      BY <2>1
    <2> QED BY <2>2 DEF l
  <1> QED BY <1>7, <1>8, <1>9 DEF d, e

\* Stepping over a packet whose length is set.
LEMMA UpdateRefPlaces ==
    ASSUME PInv, NEW ref \in Refs, Held(ref), UpdateRef(ref), Avail(ref) > 0,
           UNCHANGED <<wal, writer>>, saver'.keep = saver.keep,
           \A w \in Writers : writer[w].pc = "reserved" => writer[w].n # slot[ref.slot].visit + 1,
           IsKeep(ref.slot) \/ \A w \in Writers : Pushing(w) => writer[w].n # slot[ref.slot].visit + 1
    PROVE  /\ minVisit' = minVisit /\ VisitNamesPosition' /\ PushAhead'
           /\ slot'[ref.slot].visit = slot[ref.slot].visit + 1 /\ VisitsKeptBut(ref.num)
  <1> DEFINE i == ref.slot
             v == slot[i].visit
             e == EndOf(v)
             len == wal[v + 1].len
  <1>1. /\ i \in Slots /\ i \in Occupied(slot) /\ v \in Nat /\ v \in minVisit .. Len(wal)
        /\ slot[i].pread = e % Size /\ e \in Nat /\ v \in 0 .. Len(wal)
    BY HeldFacts, SlotFacts
  <1>2. v + 1 \in minVisit + 1 .. Len(wal)
    BY AvailFacts
  <1>3. StartOf(v + 1) = e
    <2>1. (v + 1) - 1 = v
      BY <1>1
    <2> QED BY <2>1 DEF StartOf
  <1>4. NextCell(ref).len = len
    <2>1. cells[StartOf(v + 1) % Size].len = wal[v + 1].len
      BY <1>2 DEF PInv, PacketsOK
    <2> QED BY <1>1, <1>3, <2>1 DEF NextCell
  <1>5. len \in 0 .. Size - 1 /\ EndOf(v + 1) = e + len
    <2>1. /\ wal[v + 1].len \in Nat /\ EndOf(v + 1) = StartOf(v + 1) + wal[v + 1].len
          /\ EndOf(minVisit) <= StartOf(v + 1) /\ EndOf(v + 1) - EndOf(minVisit) < Size
          /\ EndOf(minVisit) \in Nat /\ EndOf(v + 1) \in Nat
      BY <1>2, LiveFacts
    <2> HIDE DEF e, len
    <2>2. len \in Nat /\ EndOf(v + 1) = e + len /\ EndOf(minVisit) <= e
      BY <1>3, <2>1 DEF len
    <2> QED BY <1>1, <2>1, <2>2, SizeAssumption
  <1> HIDE DEF len, e
  <1>6. ((e % Size) + len) % Size = EndOf(v + 1) % Size
    BY <1>1, <1>5, StepsOn
  <1>7. slot \in [Slots -> SlotStates]
    BY DEF PInv, IInv, TypeOK, RingTypeOK, SlotStates
  <1>8. /\ slot' = [slot EXCEPT ![i].pread = (@ + NextCell(ref).len) % Size, ![i].visit = @ + 1]
        /\ UNCHANGED <<cells, pread, pwrite, minVisit, refNum>>
    BY DEF UpdateRef
  <1>9. /\ slot'[i].visit = v + 1 /\ slot'[i].pread = ((e % Size) + len) % Size
        /\ slot'[i].num = slot[i].num
        /\ \A j \in Slots : j # i => slot'[j] = slot[j]
    <2>1. /\ slot'[i].visit = v + 1 /\ slot'[i].pread = (slot[i].pread + NextCell(ref).len) % Size
          /\ slot'[i].num = slot[i].num
      BY <1>1, <1>7, <1>8 DEF SlotStates
    <2>2. \A j \in Slots : j # i => slot'[j] = slot[j]
      BY <1>1, <1>7, <1>8
    <2> QED BY <1>1, <1>4, <2>1, <2>2
  <1>10. \A j \in Occupied(slot') : j = i \/ (j # i /\ j \in Occupied(slot) /\ slot'[j] = slot[j])
    BY <1>9 DEF Occupied
  <1>w. UNCHANGED <<InsertLsn, Len(wal)>> /\ \A n : EndOf(n)' = EndOf(n)
    BY DEF InsertLsn, EndOf
  <1>11. VisitNamesPosition'
    <2>1. pread' = EndOf(minVisit)' % Size /\ pwrite' = InsertLsn' % Size /\ InsertLsn' - EndOf(minVisit)' < Size
      BY <1>8, <1>w DEF PInv, VisitNamesPosition, EndOf
    <2>2. ASSUME NEW j \in Occupied(slot')
          PROVE  slot'[j].visit \in (minVisit' .. Len(wal')) /\ slot'[j].pread = EndOf(slot[j].visit)' % Size
      <3>1. CASE j = i
        <4>1. v + 1 \in minVisit .. Len(wal)
          BY <1>2, Basics, BeginsSooner
        <4>2. EndOf(slot[i].visit)' = EndOf(v + 1)
          BY <1>9 DEF EndOf
        <4> QED BY <1>6, <1>8, <1>9, <1>w, <3>1, <4>1, <4>2
      <3>2. CASE j \in Occupied(slot) /\ slot'[j] = slot[j]
        BY <1>8, <1>w, <3>2, SlotFacts DEF EndOf
      <3> QED BY <1>10, <3>1, <3>2
    <2> QED BY <2>1, <2>2 DEF VisitNamesPosition
  <1>12. PushAhead'
    <2> SUFFICES ASSUME NEW w \in Writers, Pushing(w)'
                 PROVE  /\ minVisit' < writer'[w].n
                        /\ \A j \in Occupied(slot') : ~IsKeep(j)' => slot'[j].visit < writer'[w].n
      BY DEF PushAhead
    <2>1. Pushing(w)
      BY DEF Pushing
    <2>2. /\ minVisit < writer[w].n /\ \A j \in Occupied(slot) : ~IsKeep(j) => slot[j].visit < writer[w].n
          /\ writer[w].n \in Nat
      BY <2>1, Basics DEF PInv, PushAhead, PushOK, Records
    <2>3. ASSUME NEW j \in Occupied(slot'), ~IsKeep(j)'
          PROVE  slot'[j].visit < writer[w].n
      <3>1. ~IsKeep(j)
        BY <2>3 DEF IsKeep
      <3>2. CASE j = i
        <4>1. v < writer[w].n /\ writer[w].n # v + 1
          BY <1>1, <2>1, <2>2, <3>1, <3>2
        <4>2. v + 1 < writer[w].n
          BY <1>1, <2>2, <4>1
        <4> QED BY <1>9, <3>2, <4>2
      <3>3. CASE j \in Occupied(slot) /\ slot'[j] = slot[j]
        BY <2>2, <3>1, <3>3
      <3> QED BY <1>10, <3>2, <3>3
    <2> QED BY <1>8, <2>2, <2>3
  <1>13. VisitsKeptBut(ref.num)
    <2> SUFFICES ASSUME NEW r \in Refs, Held(r), r.num # ref.num
                 PROVE  slot'[r.slot].visit = slot[r.slot].visit
      BY DEF VisitsKeptBut
    <2>1. r.slot \in Slots /\ r.slot # i
      BY SlotsApart DEF Held, Match
    <2> QED BY <1>9, <2>1
  <1> QED BY <1>8, <1>9, <1>11, <1>12, <1>13

\* Strong or weak, a reference stays where it is.
LEMMA SetStrongPlaces ==
    ASSUME PInv, NEW ref \in Refs, Match(ref), NEW b \in BOOLEAN, SetStrong(ref, b),
           UNCHANGED <<wal, writer>>, saver'.keep = saver.keep
    PROVE  minVisit' = minVisit /\ VisitNamesPosition' /\ PushAhead' /\ VisitsKeptBut(0)
  <1>1. slot \in [Slots -> SlotStates] /\ ref.slot \in Slots
    BY DEF PInv, IInv, TypeOK, RingTypeOK, SlotStates, Match
  <1>2. /\ slot' = [slot EXCEPT ![ref.slot].strong = b]
        /\ UNCHANGED <<cells, pread, pwrite, minVisit, refNum>>
    BY DEF SetStrong
  <1>3. \A j \in Slots : slot'[j].visit = slot[j].visit /\ slot'[j].pread = slot[j].pread /\ slot'[j].num = slot[j].num
    BY <1>1, <1>2 DEF SlotStates
  <1>4. Occupied(slot') = Occupied(slot) /\ Occupied(slot) \subseteq Slots
    BY <1>3 DEF Occupied
  <1>5. VisitNamesPosition'
    <2>1. VisitNamesPosition
      BY DEF PInv
    <2> QED BY <1>2, <1>3, <1>4, <2>1 DEF VisitNamesPosition, EndOf, InsertLsn
  <1>6. PushAhead'
    <2>1. PushAhead
      BY DEF PInv
    <2> QED BY <1>2, <1>3, <1>4, <2>1 DEF PushAhead, Pushing, IsKeep
  <1>7. VisitsKeptBut(0)
    BY <1>3 DEF VisitsKeptBut, Held, Match
  <1> QED BY <1>2, <1>5, <1>6, <1>7

\* Readers leave, and the least read position may follow the ones that stay: never
\* over a packet under construction, since the keep reference is not alone.
LEMMA LeavePlaces ==
    ASSUME PInv, IInv', \A i \in Occupied(slot') : i \in Occupied(slot) /\ slot'[i] = slot[i],
           UpdatePread(slot') \/ UNCHANGED <<pread, minVisit>>,
           UNCHANGED <<cells, pwrite, wal, writer>>, saver'.keep = saver.keep, saver'.ref = saver.ref
    PROVE  minVisit <= minVisit' /\ minVisit' <= Len(wal) /\ VisitNamesPosition' /\ PushAhead'
  <1> DEFINE O == Occupied(slot')
             m == LeastVisited(slot', O)
  <1>0. minVisit \in Nat /\ minVisit <= Len(wal) /\ Len(wal) \in Nat
    BY Basics
  <1>o. ASSUME NEW i \in O
        PROVE  /\ i \in Slots /\ i \in Occupied(slot) /\ slot'[i] = slot[i] /\ slot[i].visit \in Nat
               /\ slot[i].visit \in minVisit .. Len(wal) /\ slot[i].pread = EndOf(slot[i].visit) % Size
    BY SlotFacts
  <1>w. UNCHANGED <<InsertLsn, Len(wal)>> /\ \A n : EndOf(n)' = EndOf(n)
    BY DEF InsertLsn, EndOf
  <1>1. \/ UNCHANGED <<pread, minVisit>>
        \/ O # {} /\ minVisit' = slot'[m].visit /\ pread' = slot'[m].pread
    BY DEF UpdatePread, PreadMoves
  <1>2. O # {} => m \in O /\ \A j \in O : slot'[m].visit <= slot'[j].visit
    <2>1. \A i \in Slots : slot'[i].visit \in Nat
      BY DEF IInv, TypeOK, RingTypeOK
    <2>2. O \subseteq Slots
      BY DEF Occupied
    <2> QED BY <2>1, <2>2, LeastVisitedFacts
  <1> HIDE DEF m
  <1>3. CASE UNCHANGED <<pread, minVisit>>
    <2>1. VisitNamesPosition
      BY DEF PInv
    <2>2. VisitNamesPosition'
      <3>1. pread' = EndOf(minVisit)' % Size /\ pwrite' = InsertLsn' % Size /\ InsertLsn' - EndOf(minVisit)' < Size
        BY <1>3, <1>w, <2>1 DEF VisitNamesPosition, EndOf
      <3>2. ASSUME NEW i \in O
            PROVE  slot'[i].visit \in (minVisit' .. Len(wal')) /\ slot'[i].pread = EndOf(slot[i].visit)' % Size
        BY <1>3, <1>o, <1>w DEF EndOf
      <3> QED BY <3>1, <3>2 DEF VisitNamesPosition
    <2>3. PushAhead'
      <3>1. PushAhead
        BY DEF PInv
      <3> QED BY <1>3, <1>o, <3>1 DEF PushAhead, Pushing, IsKeep
    <2> QED BY <1>0, <1>3, <2>2, <2>3
  <1>4. CASE O # {} /\ minVisit' = slot'[m].visit /\ pread' = slot'[m].pread
    <2>0. m \in O /\ \A j \in O : slot'[m].visit <= slot'[j].visit
      BY <1>2, <1>4
    <2>1. /\ slot'[m] = slot[m] /\ slot[m].visit \in Nat /\ slot[m].visit \in minVisit .. Len(wal)
          /\ slot[m].pread = EndOf(slot[m].visit) % Size
      BY <1>o, <2>0
    <2>2. minVisit <= minVisit' /\ minVisit' <= Len(wal) /\ minVisit' \in Nat
      BY <1>0, <1>4, <2>1
    <2>3. VisitNamesPosition'
      <3>1. pread' = EndOf(minVisit)' % Size /\ pwrite' = InsertLsn' % Size
        <4>1. EndOf(minVisit)' = EndOf(slot[m].visit)
          BY <1>4, <2>1 DEF EndOf
        <4>2. pwrite = InsertLsn % Size
          BY DEF PInv, VisitNamesPosition
        <4> QED BY <1>4, <1>w, <2>1, <4>1, <4>2
      <3>2. InsertLsn' - EndOf(minVisit)' < Size
        <4>1. EndOf(minVisit)' = EndOf(minVisit')
          BY DEF EndOf
        <4>2. minVisit \in 0 .. Len(wal) /\ minVisit' \in 0 .. Len(wal)
          BY <1>0, <2>2
        <4>3. EndOf(minVisit) + (minVisit' - minVisit) <= EndOf(minVisit')
          BY <2>2, <4>2 DEF PInv, WalOK
        <4>4. EndOf(minVisit) \in Nat /\ EndOf(minVisit') \in Nat /\ InsertLsn \in Nat /\ Size \in Nat
          BY <4>2, Basics
        <4>5. InsertLsn - EndOf(minVisit) < Size
          BY DEF PInv, VisitNamesPosition
        <4>6. EndOf(minVisit) <= EndOf(minVisit')
          BY <1>0, <2>2, <4>3, <4>4
        <4>7. InsertLsn - EndOf(minVisit') < Size
          BY <4>4, <4>5, <4>6
        <4> QED BY <1>w, <4>1, <4>7
      <3>3. ASSUME NEW i \in O
            PROVE  slot'[i].visit \in (minVisit' .. Len(wal')) /\ slot'[i].pread = EndOf(slot[i].visit)' % Size
        <4>1. slot'[i] = slot[i] /\ slot[i].visit \in Nat /\ slot[i].visit \in minVisit .. Len(wal)
              /\ slot[i].pread = EndOf(slot[i].visit) % Size
          BY <1>o
        <4>2. minVisit' <= slot[i].visit
          BY <1>4, <2>0, <4>1
        <4>3. slot[i].visit <= Len(wal)
          BY <1>0, <4>1
        <4>4. slot[i].visit \in minVisit' .. Len(wal)
          BY <1>0, <2>2, <4>1, <4>2, <4>3
        <4>5. EndOf(slot[i].visit)' = EndOf(slot[i].visit)
          BY <4>1 DEF EndOf
        <4> QED BY <1>w, <4>1, <4>4, <4>5
      <3> QED BY <3>1, <3>2, <3>3 DEF VisitNamesPosition
    <2>4. \E i \in O : ~IsKeep(i)
      <3>1. CASE saver.keep = NoRef
        BY <1>4, <3>1 DEF IsKeep
      <3>2. CASE saver.keep # NoRef
        <4>1. saver.ref # NoRef /\ saver.ref.num # saver.keep.num
          BY <3>2 DEF PInv, SaverOK
        <4>2. Held(saver.ref)' /\ Held(saver.keep)'
          BY <3>2, <4>1 DEF IInv, RefsOK
        <4>3. saver.ref.slot \in O
          BY <4>2 DEF Held, Match, Occupied
        <4>4. saver.ref.slot # saver.keep.slot
          BY <4>1, <4>2 DEF Held, Match
        <4> QED BY <4>3, <4>4 DEF IsKeep
      <3> QED BY <3>1, <3>2
    <2>5. PushAhead'
      <3> SUFFICES ASSUME NEW w \in Writers, Pushing(w)'
                   PROVE  /\ minVisit' < writer'[w].n
                          /\ \A j \in O : ~IsKeep(j)' => slot'[j].visit < writer'[w].n
        BY DEF PushAhead
      <3>1. Pushing(w)
        BY DEF Pushing
      <3>2. /\ \A j \in Occupied(slot) : ~IsKeep(j) => slot[j].visit < writer[w].n
            /\ writer[w].n \in Nat
        BY <3>1, Basics DEF PInv, PushAhead, PushOK, Records
      <3>3. PICK i \in O : ~IsKeep(i)
        BY <2>4
      <3>4. slot[i].visit < writer[w].n /\ slot'[i] = slot[i] /\ slot[i].visit \in Nat
        BY <1>o, <3>2, <3>3
      <3>5. minVisit' <= slot[i].visit
        BY <1>4, <2>0, <3>4
      <3>6. minVisit' < writer[w].n
        BY <2>2, <3>2, <3>4, <3>5
      <3>7. \A j \in O : ~IsKeep(j)' => slot'[j].visit < writer[w].n
        BY <1>o, <3>2 DEF IsKeep
      <3> QED BY <3>6, <3>7
    <2> QED BY <2>2, <2>3, <2>5
  <1> QED BY <1>1, <1>3, <1>4

\* polar_ringbuf_next_ready_pkt: a packet found ready is nobody's any more, and
\* holds the record that follows the one read last.
LEMMA ReadyFacts ==
    ASSUME PInv, NEW ref \in Refs, Held(ref), NextReady(ref)
    PROVE  LET n == slot[ref.slot].visit + 1
           IN  /\ Avail(ref) > 0 /\ n \in minVisit + 1 .. Len(wal) /\ n - 1 = slot[ref.slot].visit
               /\ \A w \in Writers : Pushing(w) => writer[w].n # n
               /\ \A w \in Writers : writer[w].pc = "reserved" => writer[w].n # n
               /\ NextCell(ref).lsn = EndOf(n)
  <1> DEFINE v == slot[ref.slot].visit
  <1>1. Avail(ref) > 0 /\ cells[slot[ref.slot].pread].ready
    BY DEF NextReady, NextCell
  <1>2. v + 1 \in minVisit + 1 .. Len(wal)
    BY <1>1, AvailFacts
  <1>3. v \in Nat /\ slot[ref.slot].pread = EndOf(v) % Size
    BY HeldFacts, SlotFacts
  <1>4. (v + 1) - 1 = v
    BY <1>3
  <1>5. slot[ref.slot].pread = StartOf(v + 1) % Size
    BY <1>3, <1>4 DEF StartOf
  <1>6. ASSUME NEW w \in Writers, Pushing(w)
        PROVE  writer[w].n # v + 1
    <2>1. writer[w].idx = StartOf(writer[w].n) % Size /\ ~cells[writer[w].idx].ready
      BY <1>6 DEF PInv, PushOK
    <2> QED BY <1>1, <1>5, <2>1
  <1>7. \A w \in Writers : writer[w].pc \in {"reserved", "copy", "push"} => writer[w].n # v + 1
    BY <1>6 DEF Pushing
  <1>8. \A u \in StartOf(v + 1) .. EndOf(v + 1) - 1 : cells[u % Size].lsn = EndOf(v + 1)
    BY <1>2, <1>7 DEF PInv, PacketsOK
  <1>9. StartOf(v + 1) \in StartOf(v + 1) .. EndOf(v + 1) - 1
    <2>1. /\ StartOf(v + 1) \in Nat /\ EndOf(v + 1) \in Nat /\ wal[v + 1].len \in Nat /\ wal[v + 1].len > 0
          /\ EndOf(v + 1) = StartOf(v + 1) + wal[v + 1].len
      BY <1>2, LiveFacts
    <2> QED BY <2>1
  <1>10. NextCell(ref).lsn = EndOf(v + 1)
    BY <1>5, <1>8, <1>9 DEF NextCell
  <1> QED BY <1>1, <1>2, <1>4, <1>6, <1>7, <1>10

\* A step of a walsender or an inserter leaves the saver's place alone.
LEMMA SaverStays ==
    ASSUME PInv, saver' = saver, UNCHANGED wal, NEW num, VisitsKeptBut(num),
           saver.ref # NoRef => saver.ref.num # num
    PROVE  SaverOK'
  <1>1. SaverOK
    BY DEF PInv
  <1>2. saver.ref # NoRef => slot'[saver.ref.slot].visit = slot[saver.ref.slot].visit
    <2>1. saver.ref # NoRef => Held(saver.ref)
      BY DEF PInv, IInv, RefsOK
    <2>2. saver.ref \in Refs
      BY SaverFacts DEF PInv
    <2> QED BY <2>1, <2>2 DEF VisitsKeptBut
  <1>3. saver.ref # NoRef => EndOf(slot[saver.ref.slot].visit)' = EndOf(slot[saver.ref.slot].visit)
    BY <1>2 DEF EndOf
  <1> QED BY <1>1, <1>3 DEF SaverOK

LEMMA SenderMoves ==
    ASSUME PInv, IInv', DataStays, saver' = saver, minVisit <= minVisit', minVisit' <= Len(wal),
           VisitNamesPosition', PushAhead', NEW num, VisitsKeptBut(num),
           saver.ref # NoRef => saver.ref.num # num
    PROVE  PInv'
  <1>1. SaverOK'
    BY SaverStays DEF DataStays
  <1> QED BY <1>1, ReadersStep

\* No walsender has the saver's number.
LEMMA NotTheSaver ==
    ASSUME PInv, NEW s \in Senders, sender[s].pc # "gone"
    PROVE  saver.ref.num # sender[s].ref.num /\ sender[s].ref \in Refs
  BY SenderFacts DEF PInv, IInv, RefsOK

LEMMA SaverNumber ==
    ASSUME PInv
    PROVE  saver.ref # NoRef => saver.ref.num # 0
  BY DEF PInv, IInv, RefsOK, Held

\* The steps of a walsender by what they do to the ring.
LEMMA SenderStrong ==
    ASSUME PInv, IInv', NEW s \in Senders, Match(sender[s].ref), sender[s].pc # "gone",
           NEW b \in BOOLEAN, SetStrong(sender[s].ref, b), UNCHANGED <<walVars, writer, saver>>
    PROVE  PInv'
  <1>1. UNCHANGED <<wal, written, wait, writer, saver>> /\ sender[s].ref \in Refs
    BY NotTheSaver DEF walVars
  <1>2. minVisit' = minVisit /\ VisitNamesPosition' /\ PushAhead' /\ VisitsKeptBut(0)
    BY <1>1, SetStrongPlaces
  <1>3. DataStays
    BY <1>1 DEF DataStays, SetStrong
  <1>4. minVisit <= minVisit' /\ minVisit' <= Len(wal)
    BY <1>2, Basics
  <1> QED BY <1>1, <1>2, <1>3, <1>4, SaverNumber, SenderMoves

LEMMA SenderPasses ==
    ASSUME PInv, IInv', NEW s \in Senders, sender[s].pc \in Working, NextReady(sender[s].ref),
           UpdateRef(sender[s].ref), UNCHANGED <<walVars, writer, saver>>
    PROVE  PInv'
  <1>1. UNCHANGED <<wal, written, wait, writer, saver>> /\ sender[s].pc # "gone"
    BY DEF walVars, Working
  <1>2. sender[s].ref \in Refs /\ saver.ref.num # sender[s].ref.num /\ Held(sender[s].ref)
    BY <1>1, NotTheSaver, SenderFacts DEF PInv
  <1>3. minVisit' = minVisit /\ VisitNamesPosition' /\ PushAhead' /\ VisitsKeptBut(sender[s].ref.num)
    BY <1>1, <1>2, ReadyFacts, UpdateRefPlaces
  <1>4. DataStays
    BY <1>1 DEF DataStays, UpdateRef
  <1>5. minVisit <= minVisit' /\ minVisit' <= Len(wal)
    BY <1>3, Basics
  <1> QED BY <1>1, <1>2, <1>3, <1>4, <1>5, SenderMoves

LEMMA SenderAttaches ==
    ASSUME PInv, IInv', NEW i \in Slots, NEW ref, ref = [slot |-> i, num |-> refNum + 1], NewRef(FALSE, ref),
           UNCHANGED <<walVars, writer, saver>>
    PROVE  PInv'
  <1>1. UNCHANGED <<wal, written, wait, writer, saver>>
    BY DEF walVars
  <1>2. \A j \in Slots : IsKeep(j) => IsKeep(j)'
    BY <1>1 DEF IsKeep
  <1>3. minVisit' = minVisit /\ VisitNamesPosition' /\ PushAhead' /\ VisitsKeptBut(0)
    BY <1>1, <1>2, NewRefPlaces
  <1>4. DataStays
    BY <1>1 DEF DataStays, NewRef
  <1>5. minVisit <= minVisit' /\ minVisit' <= Len(wal)
    BY <1>3, Basics
  <1> QED BY <1>1, <1>3, <1>4, <1>5, SaverNumber, SenderMoves

LEMMA SenderLeaves ==
    ASSUME PInv, IInv', NEW s \in Senders, sender[s].pc # "gone", ReleaseRef(sender[s].ref),
           UNCHANGED <<walVars, writer, saver>>
    PROVE  PInv'
  <1> DEFINE ref == sender[s].ref
  <1>1. UNCHANGED <<wal, written, wait, writer, saver, cells, pwrite>>
    BY DEF walVars, ReleaseRef
  <1>2. ref \in Refs /\ saver.ref.num # ref.num
    BY NotTheSaver
  <1>3. slot \in [Slots -> SlotStates]
    BY DEF PInv, IInv, TypeOK, RingTypeOK, SlotStates
  <1>4. /\ \A i \in Occupied(slot') : i \in Occupied(slot) /\ slot'[i] = slot[i]
        /\ UpdatePread(slot') \/ UNCHANGED <<pread, minVisit>>
        /\ VisitsKeptBut(ref.num)
    <2>1. CASE Match(ref)
      <3>1. slot' = [slot EXCEPT ![ref.slot] = ZeroSlot] /\ UpdatePread(slot')
        BY <2>1 DEF ReleaseRef
      <3>2. ref.slot \in Slots /\ ZeroSlot.num = 0
        BY <2>1 DEF Match, ZeroSlot
      <3> HIDE DEF ref
      <3>3. slot'[ref.slot].num = 0 /\ \A j \in Slots : j # ref.slot => slot'[j] = slot[j]
        BY <1>3, <3>1, <3>2
      <3>4. \A i \in Occupied(slot') : i \in Occupied(slot) /\ slot'[i] = slot[i]
        BY <3>3 DEF Occupied
      <3>5. VisitsKeptBut(ref.num)
        <4> SUFFICES ASSUME NEW r \in Refs, Held(r), r.num # ref.num
                     PROVE  slot'[r.slot].visit = slot[r.slot].visit
          BY DEF VisitsKeptBut
        <4>1. r.slot \in Slots /\ r.slot # ref.slot
          BY <2>1, SlotsApart DEF Held, Match
        <4> QED BY <3>3, <4>1
      <3> QED BY <3>1, <3>4, <3>5
    <2>2. CASE ~Match(ref)
      <3>1. UNCHANGED <<slot, pread, minVisit>>
        BY <2>2 DEF ReleaseRef
      <3> QED BY <3>1 DEF VisitsKeptBut
    <2> QED BY <2>1, <2>2
  <1> HIDE DEF ref
  <1>5. minVisit <= minVisit' /\ minVisit' <= Len(wal) /\ VisitNamesPosition' /\ PushAhead'
    BY <1>1, <1>4, LeavePlaces
  <1>6. DataStays
    BY <1>1 DEF DataStays
  <1> QED BY <1>1, <1>2, <1>4, <1>5, <1>6, SenderMoves

LEMMA RingUntouched ==
    ASSUME PInv, IInv', UNCHANGED <<ringVars, wal, written, wait, writer, saver>>
    PROVE  PInv'
  <1>1. UNCHANGED <<cells, pread, pwrite, slot, minVisit, refNum>>
    BY DEF ringVars
  <1>2. VisitNamesPosition' /\ PushAhead' /\ SaverOK'
    BY <1>1 DEF PInv, VisitNamesPosition, PushAhead, SaverOK, EndOf, InsertLsn, Pushing, IsKeep
  <1>3. minVisit <= minVisit' /\ minVisit' <= Len(wal) /\ DataStays
    BY <1>1, Basics DEF DataStays
  <1> QED BY <1>2, <1>3, ReadersStep

LEMMA SenderPStep ==
    ASSUME PInv, IInv', NEW s \in Senders, SenderStep(s) \/ WalSndLoop(s) \/ WalSndExit(s)
    PROVE  PInv'
  <1>h. sender[s].pc \in Working => Match(sender[s].ref) /\ sender[s].pc # "gone"
    BY SenderFacts DEF PInv, Held, Working
  <1>1. CASE CheckBegin(s)
    <2>1. UNCHANGED <<walVars, writer, saver>> /\ sender[s].pc # "gone"
      BY <1>1 DEF CheckBegin
    <2>2. CASE Match(sender[s].ref)
      BY <1>1, <2>1, <2>2, SenderStrong DEF CheckBegin
    <2>3. CASE ~Match(sender[s].ref)
      BY <1>1, <2>1, <2>3, SenderAttaches DEF CheckBegin
    <2> QED BY <2>2, <2>3
  <1>2. CASE CheckSkip(s)
    BY <1>2, SenderPasses DEF CheckSkip, Working
  <1>3. CASE CheckEnd(s)
    BY <1>3, <1>h, SenderStrong DEF CheckEnd, Working
  <1>4. CASE QueueBegin(s)
    <2>1. UNCHANGED <<walVars, writer, saver>> /\ sender[s].pc # "gone"
      BY <1>4 DEF QueueBegin
    <2>2. CASE Match(sender[s].ref)
      BY <1>4, <2>1, <2>2, SenderStrong DEF QueueBegin
    <2>3. CASE ~Match(sender[s].ref)
      BY <1>4, <2>1, <2>3, RingUntouched DEF QueueBegin, walVars
    <2> QED BY <2>2, <2>3
  <1>5. CASE QueueNothing(s)
    BY <1>5, <1>h, SenderStrong DEF QueueNothing, Working
  <1>6. CASE QueuePop(s)
    BY <1>6, SenderPasses DEF QueuePop, SenderHasNext, Working
  <1>7. CASE QueueSend(s)
    BY <1>7, <1>h, SenderStrong DEF QueueSend, Working
  <1>8. CASE XLogSendPhysicalExt(s)
    BY <1>8, RingUntouched DEF XLogSendPhysicalExt, walVars
  <1>9. CASE WalSndLoop(s)
    BY <1>9, SenderAttaches DEF WalSndLoop
  <1>10. CASE WalSndExit(s)
    BY <1>10, SenderLeaves DEF WalSndExit
  <1> QED BY <1>1, <1>2, <1>3, <1>4, <1>5, <1>6, <1>7, <1>8, <1>9, <1>10 DEF SenderStep

(***************************************************************************)
(* The saver and writers that look for space.                              *)
(***************************************************************************)

LEMMA AttachPStep ==
    ASSUME PInv, IInv', SaverAttach
    PROVE  PInv'
  <1>1. PICK i \in Slots : LET ref == [slot |-> i, num |-> refNum + 1]
                           IN  NewRef(TRUE, ref) /\ saver' = [saver EXCEPT !.ref = ref]
    BY DEF SaverAttach
  <1> DEFINE ref == [slot |-> i, num |-> refNum + 1]
  <1>2. /\ NewRef(TRUE, ref) /\ saver' = [saver EXCEPT !.ref = ref] /\ saver.ref = NoRef
        /\ UNCHANGED <<wal, written, wait, writer>>
    BY <1>1 DEF SaverAttach, walVars
  <1> HIDE DEF ref
  <1>3. saver.keep = NoRef /\ saver.count = 0 /\ saver.pc = "pop"
    BY <1>2 DEF PInv, SaverOK, SaverAttach
  <1>4. saver'.keep = NoRef /\ saver'.count = 0 /\ saver'.pc = "pop"
    BY <1>2, <1>3, SaverFacts DEF SaverStates, PInv
  <1>5. \A j \in Slots : IsKeep(j) => IsKeep(j)'
    BY <1>3 DEF IsKeep
  <1>6. minVisit' = minVisit /\ VisitNamesPosition' /\ PushAhead'
    BY <1>2, <1>5, NewRefPlaces DEF ref
  <1>7. SaverOK'
    BY <1>4 DEF SaverOK
  <1>8. DataStays /\ minVisit <= minVisit' /\ minVisit' <= Len(wal)
    BY <1>2, <1>6, Basics DEF DataStays, NewRef
  <1> QED BY <1>6, <1>7, <1>8, ReadersStep

LEMMA PopPStep ==
    ASSUME PInv, IInv', SaverPop
    PROVE  PInv'
  <1> DEFINE v == slot[saver.ref.slot].visit
  <1>1. /\ saver.ref # NoRef /\ NextReady(saver.ref) /\ UpdateRef(saver.ref) /\ saver.pc = "pop"
        /\ saver' = [saver EXCEPT !.saved = NextCell(saver.ref).lsn, !.count = @ + 1]
        /\ UNCHANGED <<wal, written, wait, writer>>
    BY DEF SaverPop, SaverHasNext, walVars
  <1>2. saver.ref \in Refs /\ Held(saver.ref) /\ saver \in SaverStates
    BY <1>1, SaverFacts DEF PInv, IInv, RefsOK
  <1>3. /\ saver'.ref = saver.ref /\ saver'.keep = saver.keep /\ saver'.pc = "pop"
        /\ saver'.saved = NextCell(saver.ref).lsn
    BY <1>1, <1>2 DEF SaverStates
  <1>4. /\ Avail(saver.ref) > 0 /\ NextCell(saver.ref).lsn = EndOf(v + 1)
        /\ \A w \in Writers : Pushing(w) => writer[w].n # v + 1
        /\ \A w \in Writers : writer[w].pc = "reserved" => writer[w].n # v + 1
    BY <1>1, <1>2, ReadyFacts
  <1>5. minVisit' = minVisit /\ VisitNamesPosition' /\ PushAhead' /\ slot'[saver.ref.slot].visit = v + 1
    BY <1>1, <1>2, <1>3, <1>4, UpdateRefPlaces
  <1>6. SaverOK'
    <2>1. EndOf(slot[saver.ref.slot].visit)' = EndOf(v + 1)
      BY <1>1, <1>3, <1>5 DEF EndOf
    <2> QED BY <1>1, <1>3, <1>4, <2>1 DEF SaverOK, PInv
  <1>7. DataStays /\ minVisit <= minVisit' /\ minVisit' <= Len(wal)
    BY <1>1, <1>5, Basics DEF DataStays, UpdateRef
  <1> QED BY <1>5, <1>6, <1>7, ReadersStep

LEMMA KeepBeginPStep ==
    ASSUME PInv, IInv', SaverKeepBegin
    PROVE  PInv'
  <1>1. /\ saver.ref # NoRef /\ saver.pc = "pop" /\ UNCHANGED <<wal, written, wait, writer>>
    BY DEF SaverKeepBegin, walVars
  <1>2. saver.ref \in Refs /\ Held(saver.ref) /\ saver \in SaverStates /\ SaverOK
        /\ saver.ref.num <= refNum /\ refNum \in Nat
    BY <1>1, SaverFacts DEF PInv, IInv, RefsOK
  <1>3. CASE saver.keep = NoRef
    <2>1. PICK i \in Slots : LET ref == [slot |-> i, num |-> refNum + 1]
                             IN  NewRef(TRUE, ref) /\ saver' = [saver EXCEPT !.keep = ref]
      BY <1>3 DEF SaverKeepBegin
    <2> DEFINE ref == [slot |-> i, num |-> refNum + 1]
    <2>2. NewRef(TRUE, ref) /\ saver' = [saver EXCEPT !.keep = ref] /\ ref.num = refNum + 1
      BY <2>1
    <2> HIDE DEF ref
    <2>3. /\ saver'.keep = ref /\ saver'.ref = saver.ref /\ saver'.pc = "pop"
          /\ saver'.count = saver.count /\ saver'.saved = saver.saved
      BY <1>1, <1>2, <2>2 DEF SaverStates
    <2>4. \A j \in Slots : IsKeep(j) => IsKeep(j)'
      BY <1>3 DEF IsKeep
    <2>5. minVisit' = minVisit /\ VisitNamesPosition' /\ PushAhead' /\ VisitsKeptBut(0)
      BY <1>1, <2>2, <2>4, NewRefPlaces DEF ref
    <2>6. slot'[saver.ref.slot].visit = slot[saver.ref.slot].visit
      BY <1>2, <2>5 DEF VisitsKeptBut, Held
    <2>7. SaverOK'
      <3>1. EndOf(slot[saver.ref.slot].visit)' = EndOf(slot[saver.ref.slot].visit)
        BY <1>1, <2>3, <2>6 DEF EndOf
      <3>2. saver.ref.num # ref.num
        <4>1. saver.ref.num \in Nat
          BY <1>2 DEF Refs
        <4> QED BY <1>2, <2>2, <4>1
      <3> QED BY <1>1, <1>2, <2>3, <3>1, <3>2 DEF SaverOK
    <2>8. DataStays /\ minVisit <= minVisit' /\ minVisit' <= Len(wal)
      BY <1>1, <2>2, <2>5, Basics DEF DataStays, NewRef
    <2> QED BY <2>5, <2>7, <2>8, ReadersStep
  <1>4. CASE saver.keep # NoRef
    <2>1. saver' = [saver EXCEPT !.pc = "keep", !.moved = FALSE] /\ UNCHANGED ringVars
      BY <1>4 DEF SaverKeepBegin
    <2>2. /\ saver'.keep = saver.keep /\ saver'.ref = saver.ref
          /\ saver'.count = saver.count /\ saver'.saved = saver.saved
      BY <1>2, <2>1 DEF SaverStates
    <2>3. UNCHANGED <<cells, pread, pwrite, slot, minVisit, refNum>>
      BY <2>1 DEF ringVars
    <2>4. VisitNamesPosition' /\ PushAhead'
      BY <1>1, <2>2, <2>3 DEF PInv, VisitNamesPosition, PushAhead, EndOf, InsertLsn, Pushing, IsKeep
    <2>5. SaverOK'
      BY <1>1, <1>2, <1>4, <2>2, <2>3 DEF SaverOK, EndOf
    <2>6. DataStays /\ minVisit <= minVisit' /\ minVisit' <= Len(wal)
      BY <1>1, <2>3, Basics DEF DataStays
    <2> QED BY <2>4, <2>5, <2>6, ReadersStep
  <1> QED BY <1>3, <1>4

LEMMA KeepSizeNat == KeepSize \in Nat
  BY SizeAssumption DEF KeepSize

\* The keep reference does not ask whether the packet is ready; that its length is
\* set follows from the sizes.
LEMMA KeepStepPStep ==
    ASSUME PInv, IInv', LengthsInTime, SaverKeepStep
    PROVE  PInv'
  <1> DEFINE v == slot[saver.keep.slot].visit
  <1>1. /\ saver.pc = "keep" /\ Avail(saver.keep) > KeepSize /\ UpdateRef(saver.keep)
        /\ saver' = [saver EXCEPT !.moved = TRUE] /\ UNCHANGED <<wal, written, wait, writer>>
    BY DEF SaverKeepStep, walVars
  <1>2. /\ saver.keep # NoRef /\ saver.ref # NoRef /\ saver.ref.num # saver.keep.num
        /\ saver.keep \in Refs /\ saver.ref \in Refs
        /\ Held(saver.keep) /\ Held(saver.ref) /\ saver \in SaverStates /\ SaverOK
    BY <1>1, SaverFacts DEF PInv, SaverOK, IInv, RefsOK
  <1>3. /\ saver'.keep = saver.keep /\ saver'.ref = saver.ref /\ saver'.pc = "keep"
        /\ saver'.count = saver.count /\ saver'.saved = saver.saved
    BY <1>1, <1>2 DEF SaverStates
  <1>4. Avail(saver.keep) = InsertLsn - EndOf(v) /\ v \in Nat /\ EndOf(v) \in Nat /\ InsertLsn \in Nat
    BY <1>2, AvailFacts, HeldFacts, SlotFacts, Basics
  <1>5. Avail(saver.keep) > 0
    BY <1>1, <1>4, KeepSizeNat
  <1>6. ASSUME NEW w \in Writers, writer[w].pc = "reserved"
        PROVE  writer[w].n # v + 1
    <2>1. InsertLsn - StartOf(writer[w].n) <= KeepSize
      BY <1>6 DEF LengthsInTime
    <2>2. (v + 1) - 1 = v
      BY <1>4
    <2>3. StartOf(v + 1) = EndOf(v)
      BY <2>2 DEF StartOf
    <2>4. ~ (InsertLsn - EndOf(v) <= KeepSize)
      BY <1>1, <1>4, KeepSizeNat
    <2> QED BY <2>1, <2>3, <2>4
  <1>7. IsKeep(saver.keep.slot)
    BY <1>2 DEF IsKeep
  <1>8. minVisit' = minVisit /\ VisitNamesPosition' /\ PushAhead' /\ VisitsKeptBut(saver.keep.num)
    BY <1>1, <1>2, <1>3, <1>5, <1>6, <1>7, UpdateRefPlaces
  <1>9. SaverOK'
    <2>1. slot'[saver.ref.slot].visit = slot[saver.ref.slot].visit
      BY <1>2, <1>8 DEF VisitsKeptBut
    <2>2. EndOf(slot[saver.ref.slot].visit)' = EndOf(slot[saver.ref.slot].visit)
      BY <1>1, <1>3, <2>1 DEF EndOf
    <2> QED BY <1>2, <1>3, <2>2 DEF SaverOK
  <1>10. DataStays /\ minVisit <= minVisit' /\ minVisit' <= Len(wal)
    BY <1>1, <1>8, Basics DEF DataStays, UpdateRef
  <1> QED BY <1>8, <1>9, <1>10, ReadersStep

LEMMA KeepEndPStep ==
    ASSUME PInv, IInv', SaverKeepEnd
    PROVE  PInv'
  <1>1. /\ saver' = [saver EXCEPT !.pc = "pop", !.moved = FALSE]
        /\ UNCHANGED <<cells, pwrite, slot, refNum, wal, written, wait, writer>>
    BY DEF SaverKeepEnd, walVars
  <1>2. saver \in SaverStates /\ SaverOK
    BY SaverFacts DEF PInv
  <1>3. /\ saver'.keep = saver.keep /\ saver'.ref = saver.ref /\ saver'.pc = "pop"
        /\ saver'.count = saver.count /\ saver'.saved = saver.saved
    BY <1>1, <1>2 DEF SaverStates
  <1>4. UpdatePread(slot') \/ UNCHANGED <<pread, minVisit>>
    BY <1>1 DEF SaverKeepEnd, UpdatePread, PreadMoves, LeastVisited, Occupied
  <1>5. \A i \in Occupied(slot') : i \in Occupied(slot) /\ slot'[i] = slot[i]
    BY <1>1
  <1>6. minVisit <= minVisit' /\ minVisit' <= Len(wal) /\ VisitNamesPosition' /\ PushAhead'
    BY <1>1, <1>3, <1>4, <1>5, LeavePlaces
  <1>7. SaverOK'
    BY <1>1, <1>2, <1>3 DEF SaverOK, EndOf
  <1>8. DataStays
    BY <1>1 DEF DataStays
  <1> QED BY <1>6, <1>7, <1>8, ReadersStep

\* One round of polar_ringbuf_free_up.
LEMMA FreeUpRoundPStep ==
    ASSUME PInv, IInv', FreeUpRound, UNCHANGED <<walVars, writer, saver>>
    PROVE  PInv'
  <1>1. UNCHANGED <<cells, pwrite, refNum, wal, written, wait, writer, saver>>
    BY DEF FreeUpRound, walVars
  <1>2. slot \in [Slots -> SlotStates]
    BY DEF PInv, IInv, TypeOK, RingTypeOK, SlotStates
  <1>3. /\ \A i \in Occupied(slot') : i \in Occupied(slot) /\ slot'[i] = slot[i]
        /\ UpdatePread(slot') \/ UNCHANGED <<pread, minVisit>>
        /\ VisitsKeptBut(0)
    <2>1. CASE UpdatePread(slot) /\ UNCHANGED slot
      <3>1. UpdatePread(slot') \/ UNCHANGED <<pread, minVisit>>
        BY <2>1 DEF UpdatePread, PreadMoves, LeastVisited, Occupied
      <3> QED BY <2>1, <3>1 DEF VisitsKeptBut
    <2>2. ASSUME NEW m \in Evictable, slot' = [slot EXCEPT ![m] = ZeroSlot], UNCHANGED <<pread, minVisit>>
          PROVE  /\ \A i \in Occupied(slot') : i \in Occupied(slot) /\ slot'[i] = slot[i]
                 /\ VisitsKeptBut(0)
      <3> DEFINE weak == {i \in Occupied(slot) : ~slot[i].strong}
      <3>1. weak # {} /\ m = LeastVisited(slot, weak)
        BY DEF Evictable
      <3>2. weak \subseteq Slots /\ \A i \in Slots : slot[i].visit \in Nat
        BY <1>2 DEF Occupied, SlotStates
      <3>3. m \in weak
        BY <3>1, <3>2, LeastVisitedFacts
      <3>4. m \in Slots /\ ~slot[m].strong /\ ZeroSlot.num = 0
        BY <3>3 DEF Occupied, ZeroSlot
      <3>5. slot'[m].num = 0 /\ \A j \in Slots : j # m => slot'[j] = slot[j]
        BY <1>2, <2>2, <3>4
      <3>6. \A i \in Occupied(slot') : i \in Occupied(slot) /\ slot'[i] = slot[i]
        BY <3>5 DEF Occupied
      <3>7. VisitsKeptBut(0)
        BY <3>4, <3>5 DEF VisitsKeptBut, Held, Match
      <3> QED BY <3>6, <3>7
    <2> QED BY <2>1, <2>2 DEF FreeUpRound
  <1>4. minVisit <= minVisit' /\ minVisit' <= Len(wal) /\ VisitNamesPosition' /\ PushAhead'
    BY <1>1, <1>3, LeavePlaces
  <1>5. DataStays
    BY <1>1 DEF DataStays
  <1> QED BY <1>1, <1>3, <1>4, <1>5, SaverNumber, SenderMoves

(***************************************************************************)
(* The steps of the inserters.                                             *)
(***************************************************************************)

\* What other writers do when one of them steps.
LEMMA OneWriter ==
    ASSUME PInv, NEW w \in Writers, NEW rec, writer' = [writer EXCEPT ![w] = rec]
    PROVE  /\ writer'[w] = rec
           /\ \A v \in Writers : v # w => writer'[v] = writer[v] /\ Pushing(v)' = Pushing(v)
                                          /\ Copying(v)' = Copying(v)
  <1>1. writer \in [Writers -> WriterStates]
    BY TypeParts DEF PInv, IInv
  <1>2. writer'[w] = rec /\ \A v \in Writers : v # w => writer'[v] = writer[v]
    BY <1>1
  <1> QED BY <1>2 DEF Pushing, Copying

\* A writer without a record.
LEMMA WithoutRecord ==
    ASSUME PInv, IInv', NEW w \in Writers, NEW rec, writer' = [writer EXCEPT ![w] = rec],
           ~Pushing(w), rec.pc \in {"idle", "reserve", "freeup"},
           UNCHANGED <<ringVars, wal, written, wait, saver>>
    PROVE  PInv'
  <1>1. UNCHANGED <<cells, pread, pwrite, slot, minVisit, refNum>>
    BY DEF ringVars
  <1>2. /\ InsertLsn' = InsertLsn /\ Records' = Records
        /\ \A n : EndOf(n)' = EndOf(n) /\ StartOf(n)' = StartOf(n)
        /\ \A i : IsKeep(i)' = IsKeep(i)
    BY DEF InsertLsn, Records, EndOf, StartOf, IsKeep
  <1>3. ~Pushing(w)' /\ ~Copying(w)' /\ ~Copying(w)
    BY OneWriter DEF Pushing, Copying
  <1>4. \A v \in Writers : Pushing(v)' => Pushing(v) /\ writer'[v] = writer[v]
    BY <1>3, OneWriter
  <1>5. \A v \in Writers : (Copying(v)' => Copying(v) /\ writer'[v] = writer[v])
                           /\ (Copying(v) => Copying(v)' /\ writer'[v] = writer[v])
    BY <1>3, OneWriter
  <1>6. WalOK'
    BY <1>1, <1>2 DEF PInv, WalOK
  <1>7. VisitNamesPosition' /\ SaverOK'
    BY <1>1, <1>2 DEF PInv, VisitNamesPosition, SaverOK, EndOf
  <1>8. PushOK'
    BY <1>1, <1>2, <1>4 DEF PInv, PushOK
  <1>9. PushAhead'
    BY <1>1, <1>2, <1>4 DEF PInv, PushAhead
  <1>10. PacketsOK'
    <2>2. PacketsOK
      BY DEF PInv
    <2>3. ASSUME NEW n \in minVisit + 1 .. Len(wal),
                 \A v \in Writers : writer'[v].pc = "reserved" => writer'[v].n # n
          PROVE  cells[StartOf(n) % Size].len = wal[n].len
      <3>1. \A v \in Writers : writer[v].pc = "reserved" => writer[v].n # n
        BY <1>3, <2>3, OneWriter DEF Pushing
      <3> QED BY <2>2, <3>1 DEF PacketsOK
    <2>4. ASSUME NEW n \in minVisit + 1 .. Len(wal),
                 \A v \in Writers : writer'[v].pc \in {"reserved", "copy", "push"} => writer'[v].n # n
          PROVE  \A u \in StartOf(n) .. EndOf(n) - 1 : cells[u % Size].lsn = EndOf(n)
      <3>1. \A v \in Writers : writer[v].pc \in {"reserved", "copy", "push"} => writer[v].n # n
        BY <1>3, <2>4, OneWriter DEF Pushing
      <3> QED BY <2>2, <3>1 DEF PacketsOK
    <2> QED BY <1>1, <1>2, <2>3, <2>4 DEF PacketsOK
  <1>11. WrittenOK'
    <2>1. WrittenOK
      BY DEF PInv
    <2>2. \A p \in Waiters, v \in Writers :
            Copying(v)' /\ v \in wait[p].seen => wait[p].upto <= StartOf(writer'[v].n)
      BY <1>5, <2>1 DEF WrittenOK
    <2>3. \A v \in Writers : Copying(v)' => written <= StartOf(writer'[v].n)
      BY <1>5, <2>1 DEF WrittenOK
    <2>4. \A n \in Records : EndOf(n) > written + WalBuffers =>
            \E v \in Writers : Copying(v)' /\ writer'[v].n = n
      BY <1>5, <2>1 DEF WrittenOK
    <2> QED BY <1>2, <2>2, <2>3, <2>4 DEF WrittenOK
  <1> QED BY <1>6, <1>7, <1>8, <1>9, <1>10, <1>11 DEF PInv

LEMMA BeginPStep ==
    ASSUME PInv, IInv', NEW w \in Writers, NEW len \in Lens, XLogInsertBegin(w, len)
    PROVE  PInv'
  <1> DEFINE rec == [Idle EXCEPT !.pc = "reserve", !.len = len]
  <1>1. writer' = [writer EXCEPT ![w] = rec] /\ UNCHANGED <<ringVars, wal, written, wait, saver>> /\ ~Pushing(w)
    BY DEF XLogInsertBegin, walVars, Pushing
  <1>2. rec.pc = "reserve"
    BY DEF Idle
  <1> HIDE DEF rec
  <1> QED BY <1>1, <1>2, WithoutRecord

LEMMA SpacePStep ==
    ASSUME PInv, IInv', NEW w \in Writers, QueueFull(w) \/ FreeUp(w)
    PROVE  PInv'
  <1>1. writer[w] \in WriterStates /\ ~Pushing(w) /\ UNCHANGED <<walVars, saver>>
    BY WriterFacts DEF PInv, QueueFull, FreeUp, Pushing
  <1>2. ASSUME NEW pc \in {"reserve", "freeup"}, writer' = [writer EXCEPT ![w].pc = pc], UNCHANGED ringVars
        PROVE  PInv'
    <2> DEFINE rec == [writer[w] EXCEPT !.pc = pc]
    <2>1. writer' = [writer EXCEPT ![w] = rec] /\ UNCHANGED <<wal, written, wait, saver>>
      BY <1>1, <1>2 DEF walVars
    <2>2. rec.pc = pc
      BY <1>1 DEF WriterStates
    <2> HIDE DEF rec
    <2> QED BY <1>1, <1>2, <2>1, <2>2, WithoutRecord
  <1>3. CASE QueueFull(w)
    BY <1>2, <1>3 DEF QueueFull
  <1>4. CASE FreeUp(w)
    BY <1>1, <1>2, <1>4, FreeUpRoundPStep DEF FreeUp
  <1> QED BY <1>3, <1>4

\* A packet under construction is not given up, and no other has its place.
LEMMA PushingFacts ==
    ASSUME PInv, NEW w \in Writers, Pushing(w)
    PROVE  /\ writer[w].n \in minVisit + 1 .. Len(wal) /\ writer[w].len = wal[writer[w].n].len
           /\ writer[w].idx = StartOf(writer[w].n) % Size /\ writer[w].idx \in Positions
           /\ ~cells[writer[w].idx].ready
           /\ \A v \in Writers : Pushing(v) /\ v # w =>
                 writer[v].n # writer[w].n /\ writer[v].idx # writer[w].idx
  <1>1. \A v \in Writers : Pushing(v) /\ v # w =>
          writer[v].n \in minVisit + 1 .. Len(wal) /\ writer[v].n # writer[w].n
          /\ writer[v].idx = StartOf(writer[v].n) % Size
    <2> SUFFICES ASSUME NEW v \in Writers, Pushing(v), v # w
                 PROVE  writer[v].n \in minVisit + 1 .. Len(wal) /\ writer[v].n # writer[w].n
                        /\ writer[v].idx = StartOf(writer[v].n) % Size
      OBVIOUS
    <2>1. writer[v].n \in Records /\ minVisit < writer[v].n
      BY DEF PInv, PushOK, PushAhead
    <2>2. writer[v].n \in minVisit + 1 .. Len(wal)
      BY <2>1, Basics DEF Records
    <2> QED BY <2>2 DEF PInv, PushOK
  <1>2. writer[w].n \in minVisit + 1 .. Len(wal)
    <2>1. writer[w].n \in Records /\ minVisit < writer[w].n
      BY DEF PInv, PushOK, PushAhead
    <2> QED BY <2>1, Basics DEF Records
  <1>3. /\ writer[w].len = wal[writer[w].n].len /\ writer[w].idx = StartOf(writer[w].n) % Size
        /\ ~cells[writer[w].idx].ready
    BY DEF PInv, PushOK
  <1>4. writer[w].idx \in Positions
    BY WriterFacts DEF PInv
  <1>5. \A v \in Writers : Pushing(v) /\ v # w => writer[v].idx # writer[w].idx
    BY <1>1, <1>2, <1>3, HeadsApart
  <1> QED BY <1>1, <1>2, <1>3, <1>4, <1>5

\* A writer goes on with its packet, or is done with it.
LEMMA PacketStep ==
    ASSUME PInv, IInv', NEW w \in Writers, NEW rec, writer' = [writer EXCEPT ![w] = rec], Pushing(w),
           rec.pc \in {"copy", "push", "flag", "idle"},
           rec.pc # "idle" => rec.n = writer[w].n /\ rec.len = writer[w].len /\ rec.idx = writer[w].idx,
           UNCHANGED <<pread, pwrite, slot, minVisit, refNum, saver>>,
           Len(wal') = Len(wal), \A n \in 0 .. Len(wal) : EndOf(n)' = EndOf(n),
           \A n \in Records : wal'[n].len = wal[n].len,
           \A v \in Writers : Pushing(v)' => ~cells'[writer[v].idx].ready,
           PacketsOK', WrittenOK'
    PROVE  PInv'
  <1>0. /\ Len(wal) \in Nat /\ Records' = Records /\ Len(wal) \in 0 .. Len(wal)
        /\ \A n \in Records : n - 1 \in 0 .. Len(wal) /\ n \in 0 .. Len(wal)
    BY Basics DEF Records
  <1>1. /\ InsertLsn' = InsertLsn /\ \A i : IsKeep(i)' = IsKeep(i)
        /\ \A n \in Records : StartOf(n)' = StartOf(n) /\ EndOf(n)' = EndOf(n)
    <2>1. InsertLsn' = InsertLsn
      <3>1. EndOf(Len(wal))' = EndOf(Len(wal))
        BY <1>0 DEF EndOf
      <3> QED BY <3>1 DEF InsertLsn
    <2> QED BY <1>0, <2>1 DEF StartOf, IsKeep
  <1>2. \A v \in Writers : Pushing(v)' => /\ Pushing(v) /\ writer'[v].n = writer[v].n
                                          /\ writer'[v].len = writer[v].len /\ writer'[v].idx = writer[v].idx
    BY OneWriter DEF Pushing
  <1>3. WalOK'
    <2>1. minVisit' <= Len(wal')
      BY Basics
    <2>2. \A n \in Records : EndOf(n)' = StartOf(n)' + wal'[n].len
      BY <1>1 DEF PInv, WalOK
    <2>3. \A a, b \in 0 .. Len(wal) : a <= b => EndOf(a)' + (b - a) <= EndOf(b)'
      BY DEF PInv, WalOK
    <2> QED BY <1>0, <2>1, <2>2, <2>3 DEF WalOK
  <1>4. VisitNamesPosition'
    <2>1. minVisit \in 0 .. Len(wal) /\ \A i \in Occupied(slot) : slot[i].visit \in 0 .. Len(wal)
      BY Basics, SlotFacts
    <2>2. EndOf(minVisit)' = EndOf(minVisit) /\ \A i \in Occupied(slot) : EndOf(slot[i].visit)' = EndOf(slot[i].visit)
      BY <2>1 DEF EndOf
    <2> QED BY <1>1, <2>2 DEF PInv, VisitNamesPosition
  <1>5. SaverOK'
    <2>1. SaverOK /\ saver.ref \in Refs /\ (saver.ref # NoRef => Held(saver.ref))
      BY SaverFacts DEF PInv, IInv, RefsOK
    <2>2. saver.ref # NoRef => slot[saver.ref.slot].visit \in 0 .. Len(wal)
      BY <2>1, HeldFacts, SlotFacts
    <2>3. saver.ref # NoRef => EndOf(slot[saver.ref.slot].visit)' = EndOf(slot[saver.ref.slot].visit)
      BY <2>2 DEF EndOf
    <2> QED BY <2>1, <2>3 DEF SaverOK
  <1>6. PushOK'
    <2> SUFFICES ASSUME NEW v \in Writers, Pushing(v)'
                 PROVE  /\ writer'[v].n \in Records' /\ writer'[v].len = wal'[writer'[v].n].len
                        /\ writer'[v].idx = StartOf(writer[v].n)' % Size
                        /\ \A x \in Writers : Pushing(x)' /\ writer'[x].n = writer'[v].n => x = v
                        /\ ~cells'[writer'[v].idx].ready
      BY DEF PushOK
    <2>1. /\ writer[v].n \in Records /\ writer[v].len = wal[writer[v].n].len
          /\ writer[v].idx = StartOf(writer[v].n) % Size
          /\ \A x \in Writers : Pushing(x) /\ writer[x].n = writer[v].n => x = v
      BY <1>2 DEF PInv, PushOK
    <2>2. writer'[v].idx = StartOf(writer[v].n)' % Size
      <3>1. writer'[v].n - 1 = writer[v].n - 1 /\ writer[v].n - 1 \in 0 .. Len(wal)
        BY <1>0, <1>2, <2>1
      <3>2. EndOf(writer[v].n - 1)' = EndOf(writer[v].n - 1)
        BY <3>1 DEF EndOf
      <3>3. StartOf(writer[v].n)' = StartOf(writer[v].n)
        BY <3>2 DEF StartOf
      <3> QED BY <1>2, <2>1, <3>3
    <2> QED BY <1>0, <1>2, <2>1, <2>2
  <1>7. PushAhead'
    BY <1>1, <1>2 DEF PInv, PushAhead
  <1> QED BY <1>3, <1>4, <1>5, <1>6, <1>7 DEF PInv

\* The insertion lock changes hands only at the end of the copy.
LEMMA LockStays ==
    ASSUME PInv, NEW w \in Writers, NEW rec, writer' = [writer EXCEPT ![w] = rec],
           Copying(w) => rec.pc = "copy" /\ rec.n = writer[w].n,
           ~Copying(w) => rec.pc \in {"push", "flag", "idle"},
           UNCHANGED <<wal, written, wait>>
    PROVE  WrittenOK'
  <1>1. WrittenOK /\ \A n : StartOf(n)' = StartOf(n) /\ EndOf(n)' = EndOf(n)
    BY DEF PInv, StartOf, EndOf
  <1>2. \A v \in Writers : /\ Copying(v)' => Copying(v) /\ writer'[v].n = writer[v].n
                           /\ Copying(v) => Copying(v)' /\ writer'[v].n = writer[v].n
    BY OneWriter DEF Copying
  <1>3. \A p \in Waiters, v \in Writers :
          Copying(v)' /\ v \in wait[p].seen => wait[p].upto <= StartOf(writer'[v].n)
    BY <1>1, <1>2 DEF WrittenOK
  <1>4. \A v \in Writers : Copying(v)' => written <= StartOf(writer'[v].n)
    BY <1>1, <1>2 DEF WrittenOK
  <1>5. \A n \in Records : EndOf(n) > written + WalBuffers =>
          \E v \in Writers : Copying(v)' /\ writer'[v].n = n
    BY <1>1, <1>2 DEF WrittenOK
  <1> QED BY <1>1, <1>3, <1>4, <1>5 DEF WrittenOK, Records

LEMMA HeadPosition ==
    ASSUME PInv, NEW n \in minVisit + 1 .. Len(wal)
    PROVE  StartOf(n) % Size \in Positions
  <1>1. StartOf(n) \in Nat
    BY LiveFacts
  <1> QED BY <1>1, Division DEF Positions

LEMMA SetLengthPStep ==
    ASSUME PInv, IInv', NEW w \in Writers, SetLength(w)
    PROVE  PInv'
  <1> DEFINE n == writer[w].n
             idx == writer[w].idx
             rec == [writer[w] EXCEPT !.pc = "copy"]
  <1>1. /\ writer[w].pc = "reserved" /\ writer' = [writer EXCEPT ![w] = rec]
        /\ cells' = [cells EXCEPT ![idx].len = writer[w].len]
        /\ UNCHANGED <<pread, pwrite, slot, minVisit, refNum, wal, written, wait, saver>>
    BY DEF SetLength, SetPktLength, walVars
  <1>2. /\ cells \in [Positions -> [ready : BOOLEAN, len : Nat, lsn : Nat]] /\ writer[w] \in WriterStates
        /\ Pushing(w) /\ Copying(w)
    BY <1>1, WriterFacts DEF PInv, RingTypeOK, Pushing, Copying
  <1>3. /\ n \in minVisit + 1 .. Len(wal) /\ writer[w].len = wal[n].len
        /\ idx = StartOf(n) % Size /\ idx \in Positions
    BY <1>2, PushingFacts
  <1>4. rec.pc = "copy" /\ rec.n = n /\ rec.len = writer[w].len /\ rec.idx = idx
    BY <1>2 DEF WriterStates
  <1> HIDE DEF rec
  <1>5. /\ cells'[idx].len = writer[w].len
        /\ \A u \in Positions : /\ cells'[u].lsn = cells[u].lsn /\ cells'[u].ready = cells[u].ready
                                /\ u # idx => cells'[u] = cells[u]
    BY <1>1, <1>2, <1>3
  <1>6. \A v \in Writers : Pushing(v)' => ~cells'[writer[v].idx].ready
    <2>1. \A v \in Writers : Pushing(v)' => Pushing(v)
      BY <1>1, <1>2, OneWriter
    <2> QED BY <1>5, <2>1, PushingFacts
  <1>7. \A m : StartOf(m)' = StartOf(m) /\ EndOf(m)' = EndOf(m)
    BY <1>1 DEF StartOf, EndOf
  <1>8. PacketsOK'
    <2>1. ASSUME NEW m \in minVisit + 1 .. Len(wal),
                 \A v \in Writers : writer'[v].pc = "reserved" => writer'[v].n # m
          PROVE  cells'[StartOf(m) % Size].len = wal[m].len
      <3>1. CASE m = n
        BY <1>3, <1>5, <3>1
      <3>2. CASE m # n
        <4>1. \A v \in Writers : writer[v].pc = "reserved" => writer[v].n # m
          BY <1>1, <2>1, <3>2, OneWriter
        <4>2. cells[StartOf(m) % Size].len = wal[m].len
          BY <4>1 DEF PInv, PacketsOK
        <4>3. StartOf(m) % Size # idx /\ StartOf(m) % Size \in Positions
          BY <1>3, <3>2, HeadsApart, HeadPosition
        <4> QED BY <1>5, <4>2, <4>3
      <3> QED BY <3>1, <3>2
    <2>2. ASSUME NEW m \in minVisit + 1 .. Len(wal), NEW u \in StartOf(m) .. EndOf(m) - 1,
                 \A v \in Writers : writer'[v].pc \in {"reserved", "copy", "push"} => writer'[v].n # m
          PROVE  cells'[u % Size].lsn = EndOf(m)
      <3>1. m # n
        BY <1>1, <1>4, <2>2, OneWriter
      <3>2. \A v \in Writers : writer[v].pc \in {"reserved", "copy", "push"} => writer[v].n # m
        BY <1>1, <2>2, <3>1, OneWriter
      <3>3. cells[u % Size].lsn = EndOf(m)
        BY <3>2 DEF PInv, PacketsOK
      <3>4. u \in Nat
        BY LiveFacts
      <3>5. u % Size \in Positions
        BY <3>4, Division DEF Positions
      <3> QED BY <1>5, <3>3, <3>5
    <2> QED BY <1>1, <1>7, <2>1, <2>2 DEF PacketsOK
  <1>9. WrittenOK'
    BY <1>1, <1>2, <1>4, LockStays
  <1> HIDE DEF n, idx
  <1> QED BY <1>1, <1>2, <1>4, <1>6, <1>7, <1>8, <1>9, PacketStep DEF n, idx

LEMMA PushFlagPStep ==
    ASSUME PInv, IInv', NEW w \in Writers, PushFlag(w)
    PROVE  PInv'
  <1> DEFINE idx == writer[w].idx
  <1>1. /\ writer[w].pc = "flag" /\ writer' = [writer EXCEPT ![w] = Idle]
        /\ cells' = [cells EXCEPT ![idx].ready = TRUE]
        /\ UNCHANGED <<pread, pwrite, slot, minVisit, refNum, wal, written, wait, saver>>
    BY DEF PushFlag, SetPktFlag, walVars
  <1>2. /\ cells \in [Positions -> [ready : BOOLEAN, len : Nat, lsn : Nat]]
        /\ Pushing(w) /\ ~Copying(w) /\ Idle.pc = "idle"
    BY <1>1, WriterFacts DEF PInv, RingTypeOK, Pushing, Copying, Idle
  <1>3. idx \in Positions
    BY <1>2, PushingFacts
  <1>5. \A u \in Positions : /\ cells'[u].lsn = cells[u].lsn /\ cells'[u].len = cells[u].len
                             /\ u # idx => cells'[u] = cells[u]
    BY <1>1, <1>2, <1>3
  <1>6. \A v \in Writers : Pushing(v)' => ~cells'[writer[v].idx].ready
    <2>1. \A v \in Writers : Pushing(v)' => v # w /\ Pushing(v)
      BY <1>1, <1>2, OneWriter DEF Pushing
    <2>2. \A v \in Writers : Pushing(v) /\ v # w => writer[v].idx # idx /\ writer[v].idx \in Positions
                                                    /\ ~cells[writer[v].idx].ready
      BY <1>2, PushingFacts
    <2> QED BY <1>5, <2>1, <2>2
  <1>7. \A m : StartOf(m)' = StartOf(m) /\ EndOf(m)' = EndOf(m)
    BY <1>1 DEF StartOf, EndOf
  <1>8. PacketsOK'
    <2>1. ASSUME NEW m \in minVisit + 1 .. Len(wal),
                 \A v \in Writers : writer'[v].pc = "reserved" => writer'[v].n # m
          PROVE  cells'[StartOf(m) % Size].len = wal[m].len
      <3>1. \A v \in Writers : writer[v].pc = "reserved" => writer[v].n # m
        BY <1>1, <2>1, OneWriter
      <3>2. cells[StartOf(m) % Size].len = wal[m].len
        BY <3>1 DEF PInv, PacketsOK
      <3> QED BY <1>5, <3>2, HeadPosition
    <2>2. ASSUME NEW m \in minVisit + 1 .. Len(wal), NEW u \in StartOf(m) .. EndOf(m) - 1,
                 \A v \in Writers : writer'[v].pc \in {"reserved", "copy", "push"} => writer'[v].n # m
          PROVE  cells'[u % Size].lsn = EndOf(m)
      <3>1. \A v \in Writers : writer[v].pc \in {"reserved", "copy", "push"} => writer[v].n # m
        BY <1>1, <2>2, OneWriter
      <3>2. cells[u % Size].lsn = EndOf(m)
        BY <3>1 DEF PInv, PacketsOK
      <3>3. u \in Nat
        BY LiveFacts
      <3>4. u % Size \in Positions
        BY <3>3, Division DEF Positions
      <3> QED BY <1>5, <3>2, <3>4
    <2> QED BY <1>1, <1>7, <2>1, <2>2 DEF PacketsOK
  <1>9. WrittenOK'
    BY <1>1, <1>2, LockStays
  <1> HIDE DEF idx
  <1> QED BY <1>1, <1>2, <1>6, <1>7, <1>8, <1>9, PacketStep

LEMMA PushContentPStep ==
    ASSUME PInv, IInv', NEW w \in Writers, PushContent(w)
    PROVE  PInv'
  <1> DEFINE n == writer[w].n
             idx == writer[w].idx
             rec == [writer[w] EXCEPT !.pc = "flag"]
             in(u) == (u - idx) % Size < wal[n].len
  <1>1. /\ writer[w].pc = "push" /\ writer' = [writer EXCEPT ![w] = rec] /\ PktWrite(idx, EndOf(n))
        /\ UNCHANGED <<pread, pwrite, slot, minVisit, refNum, wal, written, wait, saver>>
    BY DEF PushContent, PktWrite, walVars
  <1>2. /\ cells \in [Positions -> [ready : BOOLEAN, len : Nat, lsn : Nat]] /\ writer[w] \in WriterStates
        /\ Pushing(w) /\ ~Copying(w)
    BY <1>1, WriterFacts DEF PInv, RingTypeOK, Pushing, Copying
  <1>3. n \in minVisit + 1 .. Len(wal) /\ idx = StartOf(n) % Size /\ idx \in Positions
    BY <1>2, PushingFacts
  <1>4. rec.pc = "flag" /\ rec.n = n /\ rec.len = writer[w].len /\ rec.idx = idx
    BY <1>2 DEF WriterStates
  <1> HIDE DEF rec
  <1>5. cells[idx].len = wal[n].len
    <2>1. \A v \in Writers : writer[v].pc = "reserved" => writer[v].n # n
      BY <1>1, <1>2, PushingFacts DEF Pushing
    <2> QED BY <1>3, <2>1 DEF PInv, PacketsOK
  <1>6. /\ cells'[idx].lsn = EndOf(n) /\ cells'[idx].len = cells[idx].len /\ cells'[idx].ready = cells[idx].ready
        /\ \A u \in Positions : in(u) => cells'[u].lsn = EndOf(n)
        /\ \A u \in Positions : u # idx /\ ~in(u) => cells'[u] = cells[u]
    <2>1. cells' = [u \in Positions |->
                      IF u = idx THEN [cells[u] EXCEPT !.lsn = EndOf(n)]
                      ELSE IF in(u) THEN [ZeroCell EXCEPT !.lsn = EndOf(n)]
                      ELSE cells[u]]
      BY <1>1, <1>5 DEF PktWrite
    <2>2. [ZeroCell EXCEPT !.lsn = EndOf(n)].lsn = EndOf(n)
      BY DEF ZeroCell
    <2> HIDE DEF in
    <2>3. cells[idx] \in [ready : BOOLEAN, len : Nat, lsn : Nat]
      BY <1>2, <1>3
    <2>4. cells'[idx] = [cells[idx] EXCEPT !.lsn = EndOf(n)]
      BY <1>3, <2>1
    <2>5. /\ cells'[idx].lsn = EndOf(n) /\ cells'[idx].len = cells[idx].len
          /\ cells'[idx].ready = cells[idx].ready
      BY <2>3, <2>4
    <2>6. \A u \in Positions : u # idx /\ in(u) => cells'[u] = [ZeroCell EXCEPT !.lsn = EndOf(n)]
      BY <2>1
    <2>7. \A u \in Positions : u # idx /\ ~in(u) => cells'[u] = cells[u]
      BY <2>1
    <2> QED BY <2>2, <2>5, <2>6, <2>7
  <1>7. ASSUME NEW m \in minVisit + 1 .. Len(wal), m # n, NEW u \in StartOf(m) .. EndOf(m) - 1
        PROVE  cells'[u % Size] = cells[u % Size]
    <2>1. u \in Nat
      BY LiveFacts
    <2>2. u % Size \in Positions
      BY <2>1, Division DEF Positions
    <2>3. ~in(u % Size)
      BY <1>3, <1>7, OtherUnits
    <2>4. in(idx)
      <3>1. wal[n].len \in Nat /\ wal[n].len > 0 /\ idx \in Int /\ 0 % Size = 0
        <4>1. wal[n].len \in Nat /\ wal[n].len > 0
          BY <1>3, LiveFacts
        <4>2. idx \in Int
          <5> HIDE DEF idx
          <5> QED BY <1>3, SizeAssumption DEF Positions
        <4>3. 0 % Size = 0
          BY SizeAssumption
        <4> QED BY <4>1, <4>2, <4>3
      <3> DEFINE l == wal[n].len
      <3> HIDE DEF l, idx
      <3>2. (idx - idx) % Size < l
        BY <3>1 DEF l
      <3> QED BY <3>2 DEF l
    <2> HIDE DEF in
    <2> QED BY <1>6, <2>2, <2>3, <2>4
  <1>8. ASSUME NEW u \in StartOf(n) .. EndOf(n) - 1
        PROVE  cells'[u % Size].lsn = EndOf(n)
    <2>1. u \in Nat
      BY <1>3, LiveFacts
    <2>2. u % Size \in Positions
      BY <2>1, Division DEF Positions
    <2>3. in(u % Size)
      BY <1>3, OwnUnits
    <2> HIDE DEF in
    <2> QED BY <1>6, <2>2, <2>3
  <1> HIDE DEF in
  <1>9. \A m \in minVisit + 1 .. Len(wal) : StartOf(m) \in StartOf(m) .. EndOf(m) - 1
    <2> SUFFICES ASSUME NEW m \in minVisit + 1 .. Len(wal)
                 PROVE  StartOf(m) \in StartOf(m) .. EndOf(m) - 1
      OBVIOUS
    <2>1. StartOf(m) \in Nat /\ EndOf(m) \in Nat /\ wal[m].len \in Nat /\ wal[m].len > 0
          /\ EndOf(m) = StartOf(m) + wal[m].len
      BY LiveFacts
    <2> QED BY <2>1
  <1>10. \A v \in Writers : Pushing(v)' => ~cells'[writer[v].idx].ready
    <2> SUFFICES ASSUME NEW v \in Writers, Pushing(v)'
                 PROVE  ~cells'[writer[v].idx].ready
      OBVIOUS
    <2>1. Pushing(v)
      BY <1>1, <1>2, OneWriter
    <2>2. ~cells[writer[v].idx].ready
      BY <2>1, PushingFacts
    <2>3. CASE v = w
      BY <1>6, <2>2, <2>3
    <2>4. CASE v # w
      <3>1. /\ writer[v].n \in minVisit + 1 .. Len(wal) /\ writer[v].n # n
            /\ writer[v].idx = StartOf(writer[v].n) % Size
        BY <1>2, <2>1, <2>4, PushingFacts
      <3>2. cells'[writer[v].idx] = cells[writer[v].idx]
        BY <1>7, <1>9, <3>1
      <3> QED BY <2>2, <3>2
    <2> QED BY <2>3, <2>4
  <1>11. \A m : StartOf(m)' = StartOf(m) /\ EndOf(m)' = EndOf(m)
    BY <1>1 DEF StartOf, EndOf
  <1>12. PacketsOK'
    <2>1. ASSUME NEW m \in minVisit + 1 .. Len(wal),
                 \A v \in Writers : writer'[v].pc = "reserved" => writer'[v].n # m
          PROVE  cells'[StartOf(m) % Size].len = wal[m].len
      <3>1. CASE m = n
        BY <1>3, <1>5, <1>6, <3>1
      <3>2. CASE m # n
        <4>1. \A v \in Writers : writer[v].pc = "reserved" => writer[v].n # m
          BY <1>1, <2>1, <3>2, OneWriter
        <4>2. cells[StartOf(m) % Size].len = wal[m].len
          BY <4>1 DEF PInv, PacketsOK
        <4> QED BY <1>7, <1>9, <3>2, <4>2
      <3> QED BY <3>1, <3>2
    <2>2. ASSUME NEW m \in minVisit + 1 .. Len(wal), NEW u \in StartOf(m) .. EndOf(m) - 1,
                 \A v \in Writers : writer'[v].pc \in {"reserved", "copy", "push"} => writer'[v].n # m
          PROVE  cells'[u % Size].lsn = EndOf(m)
      <3>1. CASE m = n
        BY <1>8, <3>1
      <3>2. CASE m # n
        <4>1. \A v \in Writers : writer[v].pc \in {"reserved", "copy", "push"} => writer[v].n # m
          BY <1>1, <2>2, <3>2, OneWriter
        <4>2. cells[u % Size].lsn = EndOf(m)
          BY <4>1 DEF PInv, PacketsOK
        <4> QED BY <1>7, <3>2, <4>2
      <3> QED BY <3>1, <3>2
    <2> QED BY <1>1, <1>11, <2>1, <2>2 DEF PacketsOK
  <1>13. WrittenOK'
    BY <1>1, <1>2, <1>4, LockStays
  <1> HIDE DEF n, idx
  <1> QED BY <1>1, <1>2, <1>4, <1>10, <1>11, <1>12, <1>13, PacketStep DEF n, idx

LEMMA CopyPStep ==
    ASSUME PInv, IInv', NEW w \in Writers, CopyXLogRecordToWAL(w)
    PROVE  PInv'
  <1> DEFINE n == writer[w].n
             rec == [writer[w] EXCEPT !.pc = "push"]
  <1>1. /\ writer[w].pc = "copy" /\ EndOf(n) - written <= WalBuffers
        /\ wal' = [wal EXCEPT ![n].done = TRUE] /\ writer' = [writer EXCEPT ![w] = rec]
        /\ UNCHANGED <<cells, pread, pwrite, slot, minVisit, refNum, written, wait, saver>>
    BY DEF CopyXLogRecordToWAL, ringVars
  <1>2. writer[w] \in WriterStates /\ Pushing(w) /\ Copying(w)
    BY <1>1, WriterFacts DEF PInv, Pushing, Copying
  <1>3. n \in minVisit + 1 .. Len(wal)
    BY <1>2, PushingFacts
  <1>4. rec.pc = "push" /\ rec.n = n /\ rec.len = writer[w].len /\ rec.idx = writer[w].idx
    BY <1>2 DEF WriterStates
  <1> HIDE DEF rec
  <1>5. /\ Len(wal') = Len(wal) /\ \A m \in 1 .. Len(wal) : wal'[m].len = wal[m].len /\ wal'[m].end = wal[m].end
    <2>1. wal \in Seq(WalRecords)
      BY TypeParts DEF PInv, IInv
    <2>2. wal \in [1 .. Len(wal) -> WalRecords] /\ Len(wal) \in Nat
      BY <2>1
    <2>3. /\ wal' \in [1 .. Len(wal) -> WalRecords]
          /\ \A m \in 1 .. Len(wal) : wal'[m].len = wal[m].len /\ wal'[m].end = wal[m].end
      BY <1>1, <2>2 DEF WalRecords
    <2>4. Len(wal') = Len(wal)
      BY <2>2, <2>3
    <2> QED BY <2>3, <2>4
  <1>6. \A m \in 0 .. Len(wal) : EndOf(m)' = EndOf(m)
    <2> SUFFICES ASSUME NEW m \in 0 .. Len(wal)
                 PROVE  EndOf(m)' = EndOf(m)
      OBVIOUS
    <2>1. m = 0 \/ m \in 1 .. Len(wal)
      BY Basics
    <2> QED BY <1>5, <2>1 DEF EndOf
  <1>7. \A m \in Records : StartOf(m)' = StartOf(m) /\ wal'[m].len = wal[m].len
        /\ EndOf(m)' = EndOf(m) /\ m - 1 \in 0 .. Len(wal)
    <2>1. \A m \in Records : m \in 1 .. Len(wal) /\ m \in 0 .. Len(wal) /\ m - 1 \in 0 .. Len(wal)
      BY Basics DEF Records
    <2> QED BY <1>5, <1>6, <2>1 DEF StartOf
  <1>8. \A v \in Writers : Pushing(v)' => ~cells'[writer[v].idx].ready
    <2>1. \A v \in Writers : Pushing(v)' => Pushing(v)
      BY <1>1, <1>2, OneWriter
    <2> QED BY <1>1, <2>1, PushingFacts
  <1>9. PacketsOK'
    <2>1. ASSUME NEW m \in minVisit + 1 .. Len(wal)
          PROVE  /\ (\A v \in Writers : writer'[v].pc = "reserved" => writer'[v].n # m) =>
                       cells[StartOf(m) % Size].len = wal[m].len
                 /\ (\A v \in Writers : writer'[v].pc \in {"reserved", "copy", "push"} => writer'[v].n # m) =>
                       \A u \in StartOf(m) .. EndOf(m) - 1 : cells[u % Size].lsn = EndOf(m)
      <3>1. \A v \in Writers : writer[v].pc = "reserved" => writer'[v] = writer[v]
        BY <1>1, OneWriter
      <3>2. \A v \in Writers : writer[v].pc \in {"reserved", "copy", "push"} =>
              writer'[v].pc \in {"reserved", "copy", "push"} /\ writer'[v].n = writer[v].n
        BY <1>1, <1>4, OneWriter
      <3>3. PacketsOK
        BY DEF PInv
      <3> QED BY <3>1, <3>2, <3>3 DEF PacketsOK
    <2>2. \A m \in minVisit + 1 .. Len(wal) : m \in Records
      BY LiveFacts
    <2>3. \A m \in minVisit + 1 .. Len(wal) :
            StartOf(m)' = StartOf(m) /\ wal'[m].len = wal[m].len /\ EndOf(m)' = EndOf(m)
      BY <1>7, <2>2
    <2> QED BY <1>1, <1>5, <2>1, <2>3 DEF PacketsOK
  <1>10. WrittenOK'
    <2>0. WrittenOK
      BY DEF PInv
    <2>1. \A v \in Writers : Copying(v)' => v # w /\ Copying(v) /\ writer'[v] = writer[v] /\ writer[v].n \in Records
      <3>1. \A v \in Writers : Copying(v)' => v # w /\ Copying(v) /\ writer'[v] = writer[v]
        BY <1>1, <1>4, OneWriter DEF Copying
      <3>2. \A v \in Writers : Copying(v) => writer[v].n \in Records
        BY DEF PInv, PushOK, Copying, Pushing
      <3> QED BY <3>1, <3>2
    <2>2. \A v \in Writers : Copying(v)' => StartOf(writer[v].n)' = StartOf(writer[v].n)
      <3> SUFFICES ASSUME NEW v \in Writers, Copying(v)'
                   PROVE  StartOf(writer[v].n)' = StartOf(writer[v].n)
        OBVIOUS
      <3>1. writer'[v] = writer[v] /\ writer[v].n \in Records
        BY <2>1
      <3>2. EndOf(writer[v].n - 1)' = EndOf(writer[v].n - 1)
        BY <1>6, <1>7, <3>1 DEF EndOf
      <3> QED BY <3>2 DEF StartOf
    <2>3. \A p \in Waiters, v \in Writers :
            Copying(v)' /\ v \in wait[p].seen => wait[p].upto <= StartOf(writer[v].n)'
      BY <2>0, <2>1, <2>2 DEF WrittenOK
    <2>4. \A v \in Writers : Copying(v)' => written <= StartOf(writer[v].n)'
      BY <2>0, <2>1, <2>2 DEF WrittenOK
    <2>5. ASSUME NEW m \in Records, EndOf(m) > written + WalBuffers
          PROVE  \E v \in Writers : Copying(v)' /\ writer'[v].n = m
      <3>1. PICK v \in Writers : Copying(v) /\ writer[v].n = m
        BY <2>0, <2>5 DEF WrittenOK
      <3>2. v # w
        <4>1. written \in Nat /\ WalBuffers \in Nat /\ EndOf(m) \in Nat
          BY WalFacts, QueueAssumption, Basics DEF PInv, Records
        <4>2. m # n
          BY <1>1, <2>5, <4>1
        <4> QED BY <3>1, <4>2
      <3> QED BY <1>1, <3>1, <3>2, OneWriter
    <2>6. Records' = Records /\ \A m \in Records : EndOf(m)' = EndOf(m)
      BY <1>5, <1>7 DEF Records
    <2> QED BY <1>1, <2>3, <2>4, <2>5, <2>6 DEF WrittenOK
  <1> HIDE DEF n
  <1> QED BY <1>1, <1>2, <1>4, <1>5, <1>6, <1>7, <1>8, <1>9, <1>10, PacketStep DEF n

\* polar_ringbuf_free_size: what is neither unread nor the one unit kept free.
LEMMA FreeFacts ==
    ASSUME PInv
    PROVE  FreeSize = Size - 1 - (InsertLsn - EndOf(minVisit))
  <1> DEFINE e == EndOf(minVisit)
             d == InsertLsn - e
             r == e % Size
  <1>1. pread = r /\ pwrite = InsertLsn % Size /\ d < Size
    BY DEF PInv, VisitNamesPosition
  <1>2. e \in Nat /\ InsertLsn \in Nat /\ e <= InsertLsn /\ Size \in Nat
    <2>1. minVisit \in 0 .. Len(wal)
      BY Basics
    <2> QED BY <2>1, Basics
  <1>3. d \in 0 .. Size - 1 /\ InsertLsn = e + d
    BY <1>1, <1>2
  <1> HIDE DEF d
  <1>4. /\ r + d < Size => InsertLsn % Size = r + d
        /\ r + d >= Size => InsertLsn % Size = r + d - Size
    BY <1>2, <1>3, Ahead
  <1>5. r \in 0 .. Size - 1
    BY <1>2, Division
  <1> HIDE DEF r, e
  <1>6. FreeSize = Size - 1 - d
    <2>1. CASE r + d < Size
      <3>1. pwrite = r + d
        BY <1>1, <1>4, <2>1
      <3>2. pread - pwrite = -d
        BY <1>1, <1>3, <1>5, <3>1
      <3> QED BY <1>2, <1>3, <3>2 DEF FreeSize
    <2>2. CASE r + d >= Size
      <3>1. pwrite = r + d - Size
        BY <1>1, <1>4, <2>2
      <3>2. pread - pwrite = Size - d /\ ~(Size - d <= 0)
        BY <1>1, <1>2, <1>3, <1>5, <3>1
      <3> QED BY <1>2, <1>3, <3>2 DEF FreeSize
    <2> QED BY <1>2, <1>3, <1>5, <2>1, <2>2
  <1> QED BY <1>6 DEF d, e

LEMMA Roomy ==
    ASSUME NEW s \in Nat, NEW e \in Nat, NEW len \in Nat, e <= s, Size - 1 - (s - e) >= len
    PROVE  s + len - e < Size /\ len \in 0 .. Size - 1
  BY SizeAssumption

LEMMA OneMore ==
    ASSUME NEW x \in Nat, NEW k \in Nat, NEW a \in 0 .. k, NEW s \in Nat, NEW len \in Nat, len > 0,
           x + (k - a) <= s
    PROVE  x + (k + 1 - a) <= s + len
  OBVIOUS

\* The WAL after a record was reserved.
LEMMA AppendFacts ==
    ASSUME PInv, NEW len \in Lens,
           wal' = Append(wal, [end |-> InsertLsn + len, len |-> len, done |-> FALSE])
    PROVE  /\ len \in Nat /\ len > 0
           /\ Len(wal') = Len(wal) + 1 /\ wal'[Len(wal) + 1].len = len
           /\ \A m \in Records : wal'[m] = wal[m]
           /\ \A m \in 0 .. Len(wal) : EndOf(m)' = EndOf(m)
           /\ \A m \in Records : StartOf(m)' = StartOf(m)
           /\ InsertLsn' = InsertLsn + len
           /\ \A m : m = Len(wal) + 1 => StartOf(m)' = InsertLsn /\ EndOf(m)' = InsertLsn + len
           /\ Records' = Records \cup {Len(wal) + 1}
  <1> DEFINE e == [end |-> InsertLsn + len, len |-> len, done |-> FALSE]
  <1>0. len \in Nat /\ len > 0
    BY LensAssumption, QueueAssumption
  <1>1. wal \in Seq(WalRecords) /\ InsertLsn \in Nat /\ Len(wal) \in Nat
    BY TypeParts, Basics DEF PInv, IInv
  <1>2. e \in WalRecords /\ e.end = InsertLsn + len /\ e.len = len
    BY <1>0, <1>1 DEF WalRecords
  <1>3. wal' = Append(wal, e)
    OBVIOUS
  <1> HIDE DEF e
  <1>4. /\ Len(wal') = Len(wal) + 1 /\ wal'[Len(wal) + 1] = e
        /\ \A i \in 1 .. Len(wal) : wal'[i] = wal[i]
    BY <1>1, <1>2, <1>3
  <1>5. \A m \in 0 .. Len(wal) : EndOf(m)' = EndOf(m)
    <2> SUFFICES ASSUME NEW m \in 0 .. Len(wal)
                 PROVE  EndOf(m)' = EndOf(m)
      OBVIOUS
    <2>1. m = 0 \/ m \in 1 .. Len(wal)
      BY <1>1
    <2> QED BY <1>4, <2>1 DEF EndOf
  <1>6. \A m \in Records : StartOf(m)' = StartOf(m)
    <2>1. \A m \in Records : m - 1 \in 0 .. Len(wal)
      BY <1>1 DEF Records
    <2> QED BY <1>5, <2>1 DEF StartOf
  <1>7. \A m : m = Len(wal) + 1 => StartOf(m)' = InsertLsn /\ EndOf(m)' = InsertLsn + len
    <2> SUFFICES ASSUME NEW m, m = Len(wal) + 1
                 PROVE  StartOf(m)' = InsertLsn /\ EndOf(m)' = InsertLsn + len
      OBVIOUS
    <2>1. m - 1 = Len(wal) /\ m # 0 /\ Len(wal) \in 0 .. Len(wal)
      BY <1>1
    <2>2. \A k : k = Len(wal) => EndOf(k)' = InsertLsn
      BY <1>5, <2>1 DEF InsertLsn
    <2> QED BY <1>2, <1>4, <2>1, <2>2 DEF StartOf, EndOf
  <1>8. InsertLsn' = InsertLsn + len
    BY <1>1, <1>2, <1>4 DEF InsertLsn, EndOf
  <1>9. Records' = Records \cup {Len(wal) + 1}
    BY <1>1, <1>4 DEF Records
  <1>10. \A m \in Records : wal'[m] = wal[m]
    BY <1>4 DEF Records
  <1> QED BY <1>0, <1>2, <1>4, <1>5, <1>6, <1>7, <1>8, <1>9, <1>10

LEMMA ReservePStep ==
    ASSUME PInv, IInv', NEW w \in Writers, ReserveXLogInsertLocation(w)
    PROVE  PInv'
  <1> DEFINE len == writer[w].len
             new == Len(wal) + 1
             rec == [writer[w] EXCEPT !.pc = "reserved", !.n = new, !.idx = pwrite]
  <1>1. /\ writer[w].pc = "reserve" /\ FreeSize >= len
        /\ cells' = [cells EXCEPT ![pwrite].ready = FALSE] /\ pwrite' = (pwrite + len) % Size
        /\ wal' = Append(wal, [end |-> InsertLsn + len, len |-> len, done |-> FALSE])
        /\ writer' = [writer EXCEPT ![w] = rec]
        /\ UNCHANGED <<pread, slot, minVisit, refNum, written, wait, saver>>
    BY DEF ReserveXLogInsertLocation, PktReserve
  <1>2. /\ cells \in [Positions -> [ready : BOOLEAN, len : Nat, lsn : Nat]] /\ writer[w] \in WriterStates
        /\ ~Pushing(w) /\ ~Copying(w) /\ len \in Lens /\ pwrite \in Positions
    BY <1>1, WriterFacts DEF PInv, RingTypeOK, Pushing, Copying
  <1>3. rec.pc = "reserved" /\ rec.n = new /\ rec.len = len /\ rec.idx = pwrite
    <2> DEFINE old == writer[w]
    <2>1. old \in WriterStates /\ rec = [old EXCEPT !.pc = "reserved", !.n = new, !.idx = pwrite]
      BY <1>2
    <2> HIDE DEF old, rec, new
    <2>2. rec = [pc |-> "reserved", len |-> old.len, n |-> new, idx |-> pwrite]
      BY <2>1 DEF WriterStates
    <2> QED BY <2>2 DEF old
  <1> HIDE DEF rec
  <1>4. /\ len \in Nat /\ len > 0
        /\ Len(wal') = new /\ wal'[new].len = len
        /\ \A m \in Records : wal'[m] = wal[m]
        /\ \A m \in 0 .. Len(wal) : EndOf(m)' = EndOf(m)
        /\ \A m \in Records : StartOf(m)' = StartOf(m)
        /\ InsertLsn' = InsertLsn + len
        /\ \A m : m = new => StartOf(m)' = InsertLsn /\ EndOf(m)' = InsertLsn + len
        /\ Records' = Records \cup {new}
    BY <1>1, <1>2, AppendFacts
  <1>5. /\ Len(wal) \in Nat /\ InsertLsn \in Nat /\ minVisit \in Nat /\ minVisit <= Len(wal)
        /\ minVisit \in 0 .. Len(wal) /\ EndOf(minVisit) \in Nat /\ EndOf(minVisit) <= InsertLsn
        /\ new \notin Records /\ new \in Nat
    <2>1. Len(wal) \in Nat /\ InsertLsn \in Nat /\ minVisit \in Nat /\ minVisit <= Len(wal)
      BY Basics
    <2>2. minVisit \in 0 .. Len(wal) /\ new \notin Records /\ new \in Nat
      BY <2>1 DEF Records
    <2> QED BY <2>1, <2>2, Basics
  <1>6. InsertLsn + len - EndOf(minVisit) < Size /\ len \in 0 .. Size - 1
    BY <1>1, <1>4, <1>5, FreeFacts, Roomy
  <1>7. /\ \A u \in Positions : /\ cells'[u].lsn = cells[u].lsn /\ cells'[u].len = cells[u].len
                                /\ cells'[u].ready => cells[u].ready
        /\ ~cells'[pwrite].ready
    BY <1>1, <1>2
  <1> HIDE DEF len, new
  <1>8. \A v \in Writers : Pushing(v)' => v = w \/ (v # w /\ Pushing(v) /\ writer'[v] = writer[v])
    BY <1>1, OneWriter
  <1>9. writer'[w] = rec
    BY <1>1, OneWriter
  <1>10. \A v \in Writers : Pushing(v) => writer[v].n \in Records /\ writer[v].n # new
    BY <1>5 DEF PInv, PushOK
  <1>w. WalOK'
    <2>1. minVisit' <= Len(wal')
      BY <1>1, <1>4, <1>5 DEF new
    <2>2. ASSUME NEW m \in Records'
          PROVE  EndOf(m)' = StartOf(m)' + wal'[m].len
      <3>1. CASE m = new
        BY <1>4, <3>1
      <3>2. CASE m \in Records
        <4>1. m \in 0 .. Len(wal)
          BY <1>5, <3>2 DEF Records
        <4>2. EndOf(m) = StartOf(m) + wal[m].len
          BY <3>2 DEF PInv, WalOK
        <4> QED BY <1>4, <3>2, <4>1, <4>2
      <3> QED BY <1>4, <3>1, <3>2
    <2>3. ASSUME NEW a \in 0 .. Len(wal'), NEW b \in 0 .. Len(wal'), a <= b
          PROVE  EndOf(a)' + (b - a) <= EndOf(b)'
      <3>1. CASE b \in 0 .. Len(wal)
        <4>1. a \in 0 .. Len(wal)
          BY <1>5, <2>3, <3>1
        <4>2. EndOf(a) + (b - a) <= EndOf(b)
          BY <2>3, <3>1, <4>1 DEF PInv, WalOK
        <4> QED BY <1>4, <3>1, <4>1, <4>2
      <3>2. CASE b = new /\ a \in 0 .. Len(wal)
        <4>1. EndOf(a) + (Len(wal) - a) <= InsertLsn /\ EndOf(a) \in Nat
          <5>1. Len(wal) \in 0 .. Len(wal) /\ a <= Len(wal)
            BY <1>5, <3>2
          <5>2. EndOf(a) + (Len(wal) - a) <= EndOf(Len(wal))
            BY <3>2, <5>1 DEF PInv, WalOK
          <5> QED BY <3>2, <5>2, Basics
        <4>2. EndOf(a) + (Len(wal) + 1 - a) <= InsertLsn + len
          BY <1>4, <1>5, <3>2, <4>1, OneMore
        <4> QED BY <1>4, <3>2, <4>2 DEF new
      <3>3. CASE b = new /\ a = new
        <4>1. EndOf(a)' = InsertLsn + len /\ EndOf(b)' = InsertLsn + len /\ b - a = 0
          BY <1>4, <1>5, <3>3
        <4> QED BY <1>4, <1>5, <4>1
      <3> QED
        <4>1. (a \in 0 .. Len(wal) \/ a = new) /\ (b \in 0 .. Len(wal) \/ b = new)
          BY <1>4, <1>5 DEF new
        <4>2. b \in 0 .. Len(wal) => a # new
          BY <1>5, <2>3 DEF new
        <4> QED BY <3>1, <3>2, <3>3, <4>1, <4>2
    <2> QED BY <2>1, <2>2, <2>3 DEF WalOK
  <1>v. VisitNamesPosition'
    <2>1. EndOf(minVisit)' = EndOf(minVisit)
      BY <1>1, <1>4, <1>5 DEF EndOf
    <2>2. pread' = EndOf(minVisit)' % Size
      BY <1>1, <2>1 DEF PInv, VisitNamesPosition
    <2>3. pwrite' = InsertLsn' % Size
      <3>1. pwrite = InsertLsn % Size
        BY DEF PInv, VisitNamesPosition
      <3>2. ((InsertLsn % Size) + len) % Size = (InsertLsn + len) % Size
        BY <1>5, <1>6, StepsOn
      <3> QED BY <1>1, <1>4, <3>1, <3>2
    <2>4. InsertLsn' - EndOf(minVisit)' < Size
      <3>1. InsertLsn' = InsertLsn + len
        BY <1>4
      <3>2. len \in Nat
        BY <1>4
      <3> QED BY <1>5, <1>6, <2>1, <3>1, <3>2
    <2>5. ASSUME NEW i \in Occupied(slot')
          PROVE  slot'[i].visit \in minVisit' .. Len(wal') /\ slot'[i].pread = EndOf(slot[i].visit)' % Size
      <3>1. /\ i \in Occupied(slot) /\ slot[i].visit \in minVisit .. Len(wal) /\ slot[i].visit \in 0 .. Len(wal)
            /\ slot[i].pread = EndOf(slot[i].visit) % Size
        BY <1>1, SlotFacts
      <3>2. EndOf(slot[i].visit)' = EndOf(slot[i].visit)
        BY <1>1, <1>4, <3>1 DEF EndOf
      <3>3. slot[i].visit \in minVisit .. new
        BY <1>5, <3>1 DEF new
      <3> QED BY <1>1, <1>4, <3>1, <3>2, <3>3
    <2> QED BY <2>2, <2>3, <2>4, <2>5 DEF VisitNamesPosition
  <1>p. PushOK'
    <2> SUFFICES ASSUME NEW v \in Writers, Pushing(v)'
                 PROVE  /\ writer'[v].n \in Records' /\ writer'[v].len = wal'[writer'[v].n].len
                        /\ writer'[v].idx = StartOf(writer[v].n)' % Size
                        /\ \A x \in Writers : Pushing(x)' /\ writer'[x].n = writer'[v].n => x = v
                        /\ ~cells'[writer'[v].idx].ready
      BY DEF PushOK
    <2>1. CASE v = w
      <3>1. StartOf(writer[v].n)' = InsertLsn
        <4>1. writer'[v].n = new
          BY <1>3, <1>9, <2>1
        <4> QED BY <1>4, <4>1 DEF StartOf, EndOf
      <3>2. pwrite = InsertLsn % Size
        BY DEF PInv, VisitNamesPosition
      <3>3. \A x \in Writers : Pushing(x)' /\ writer'[x].n = new => x = w
        BY <1>8, <1>10
      <3> QED BY <1>3, <1>4, <1>7, <1>9, <2>1, <3>1, <3>2, <3>3
    <2>2. CASE v # w
      <3>1. Pushing(v) /\ writer'[v] = writer[v]
        BY <1>8, <2>2
      <3>2. /\ writer[v].n \in Records /\ writer[v].len = wal[writer[v].n].len
            /\ writer[v].idx = StartOf(writer[v].n) % Size
            /\ \A x \in Writers : Pushing(x) /\ writer[x].n = writer[v].n => x = v
            /\ ~cells[writer[v].idx].ready /\ writer[v].idx \in Positions
        BY <3>1, PushingFacts DEF PInv, PushOK
      <3>3. StartOf(writer[v].n)' = StartOf(writer[v].n)
        BY <1>4, <3>1, <3>2 DEF StartOf, EndOf
      <3>4. \A x \in Writers : Pushing(x)' /\ writer'[x].n = writer'[v].n => x = v
        BY <1>3, <1>8, <1>9, <1>10, <3>1, <3>2
      <3> QED BY <1>4, <1>7, <3>1, <3>2, <3>3, <3>4
    <2> QED BY <2>1, <2>2
  <1>a. PushAhead'
    <2> SUFFICES ASSUME NEW v \in Writers, Pushing(v)'
                 PROVE  /\ minVisit' < writer'[v].n
                        /\ \A i \in Occupied(slot') : ~IsKeep(i)' => slot'[i].visit < writer'[v].n
      BY DEF PushAhead
    <2>1. CASE v = w
      <3>1. \A i \in Occupied(slot) : slot[i].visit \in Nat /\ slot[i].visit <= Len(wal)
        BY SlotFacts, Basics
      <3>2. \A i \in Occupied(slot) : slot[i].visit < new
        BY <1>5, <3>1 DEF new
      <3>3. minVisit < new
        BY <1>5 DEF new
      <3> QED BY <1>1, <1>3, <1>9, <2>1, <3>2, <3>3
    <2>2. CASE v # w
      <3>1. Pushing(v) /\ writer'[v] = writer[v]
        BY <1>8, <2>2
      <3> QED BY <1>1, <3>1 DEF PInv, PushAhead, IsKeep
    <2> QED BY <2>1, <2>2
  <1>s. SaverOK'
    <2>1. SaverOK /\ saver.ref \in Refs /\ (saver.ref # NoRef => Held(saver.ref))
      BY SaverFacts DEF PInv, IInv, RefsOK
    <2>2. saver.ref # NoRef => slot[saver.ref.slot].visit \in 0 .. Len(wal)
      BY <2>1, HeldFacts, SlotFacts
    <2>3. saver.ref # NoRef => EndOf(slot[saver.ref.slot].visit)' = EndOf(slot[saver.ref.slot].visit)
      BY <1>1, <1>4, <2>2 DEF EndOf
    <2> QED BY <1>1, <2>1, <2>3 DEF SaverOK
  <1>k. PacketsOK'
    <2>0. writer'[w].pc = "reserved" /\ writer'[w].n = new
      BY <1>3, <1>9
    <2>1. ASSUME NEW m \in minVisit + 1 .. Len(wal)
          PROVE  /\ (\A v \in Writers : writer'[v].pc = "reserved" => writer'[v].n # m) =>
                       cells'[StartOf(m) % Size].len = wal[m].len
                 /\ (\A v \in Writers : writer'[v].pc \in {"reserved", "copy", "push"} => writer'[v].n # m) =>
                       \A u \in StartOf(m) .. EndOf(m) - 1 : cells'[u % Size].lsn = EndOf(m)
      <3>1. \A v \in Writers : writer[v].pc \in {"reserved", "copy", "push"} => writer'[v] = writer[v]
        BY <1>1, OneWriter
      <3>2. PacketsOK
        BY DEF PInv
      <3>3. (\A v \in Writers : writer'[v].pc = "reserved" => writer'[v].n # m) =>
               cells[StartOf(m) % Size].len = wal[m].len
        BY <3>1, <3>2 DEF PacketsOK
      <3>4. (\A v \in Writers : writer'[v].pc \in {"reserved", "copy", "push"} => writer'[v].n # m) =>
               \A u \in StartOf(m) .. EndOf(m) - 1 : cells[u % Size].lsn = EndOf(m)
        BY <3>1, <3>2 DEF PacketsOK
      <3>5. \A u \in StartOf(m) .. EndOf(m) - 1 : u \in Nat /\ u % Size \in Positions
        <4>1. \A u \in StartOf(m) .. EndOf(m) - 1 : u \in Nat
          BY LiveFacts
        <4> QED BY <4>1, Division DEF Positions
      <3> QED BY <1>7, <3>3, <3>4, <3>5, HeadPosition
    <2>2. \A m \in (minVisit + 1 .. Len(wal))' : m = new \/ m \in minVisit + 1 .. Len(wal)
      BY <1>1, <1>4, <1>5 DEF new
    <2>3. \A m \in minVisit + 1 .. Len(wal) :
            StartOf(m)' = StartOf(m) /\ wal'[m].len = wal[m].len /\ EndOf(m)' = EndOf(m)
      BY <1>4, LiveFacts
    <2> QED BY <2>0, <2>1, <2>2, <2>3 DEF PacketsOK
  <1>x. WrittenOK'
    <2>0. WrittenOK
      BY DEF PInv
    <2>1. \A v \in Writers : Copying(v)' => v = w \/ (Copying(v) /\ writer'[v] = writer[v])
      BY <1>1, OneWriter
    <2>2. \A v \in Writers : Copying(v) => Copying(v)' /\ writer'[v] = writer[v] /\ writer[v].n \in Records
      <3>1. \A v \in Writers : Copying(v) => Copying(v)' /\ writer'[v] = writer[v]
        BY <1>1, <1>2, OneWriter
      <3> QED BY <1>10, <3>1 DEF Copying, Pushing
    <2>3. \A v \in Writers : Copying(v) => StartOf(writer[v].n)' = StartOf(writer[v].n)
      BY <1>4, <2>2 DEF StartOf, EndOf
    <2>4. \A v \in Writers : v = w => StartOf(writer[v].n)' = InsertLsn
      BY <1>3, <1>4, <1>9 DEF StartOf, EndOf
    <2>5. written <= InsertLsn /\ \A p \in Waiters : wait[p].upto <= InsertLsn
      <3>1. written <= InsertLsn
        BY <1>5, WalFacts DEF PInv
      <3>2. \A p \in Waiters : wait[p].upto \in 0 .. InsertLsn
        BY WalFacts DEF PInv, WaitStates
      <3> QED BY <1>5, <3>1, <3>2
    <2>6. \A p \in Waiters, v \in Writers :
            Copying(v)' /\ v \in wait[p].seen => wait[p].upto <= StartOf(writer[v].n)'
      BY <2>0, <2>1, <2>3, <2>4, <2>5 DEF WrittenOK
    <2>7. \A v \in Writers : Copying(v)' => written <= StartOf(writer[v].n)'
      BY <2>0, <2>1, <2>3, <2>4, <2>5 DEF WrittenOK
    <2>8. ASSUME NEW m \in Records', EndOf(m)' > written + WalBuffers
          PROVE  \E v \in Writers : Copying(v)' /\ writer'[v].n = m
      <3>1. CASE m = new
        BY <1>3, <1>9, <3>1 DEF Copying
      <3>2. CASE m \in Records
        <4>1. m \in 0 .. Len(wal)
          BY <1>5, <3>2 DEF Records
        <4>2. EndOf(m) > written + WalBuffers
          BY <1>4, <2>8, <4>1
        <4>3. PICK v \in Writers : Copying(v) /\ writer[v].n = m
          BY <2>0, <3>2, <4>2 DEF WrittenOK
        <4> QED BY <2>2, <4>3
      <3> QED BY <1>4, <3>1, <3>2
    <2> QED BY <1>1, <2>6, <2>7, <2>8 DEF WrittenOK
  <1> QED BY <1>w, <1>v, <1>p, <1>a, <1>s, <1>k, <1>x DEF PInv

(***************************************************************************)
(* Writing WAL out.                                                        *)
(***************************************************************************)

LEMMA CopyingFacts ==
    ASSUME PInv, NEW w \in Writers, Copying(w)
    PROVE  /\ writer[w].n \in Records /\ StartOf(writer[w].n) \in Nat
           /\ EndOf(writer[w].n) = StartOf(writer[w].n) + wal[writer[w].n].len
           /\ wal[writer[w].n].len \in Nat /\ wal[writer[w].n].len <= WalBuffers
           /\ EndOf(writer[w].n) \in Nat
  <1>1. Pushing(w)
    BY DEF Copying, Pushing
  <1>2. writer[w].n \in minVisit + 1 .. Len(wal)
    BY <1>1, PushingFacts
  <1>3. writer[w].n \in Records
    BY <1>2, LiveFacts
  <1>4. \A l \in Lens : l \in Nat /\ l <= WalBuffers
    BY LensAssumption, QueueAssumption
  <1>5. wal[writer[w].n].len \in Nat /\ wal[writer[w].n].len <= WalBuffers
    BY <1>3, <1>4, Basics
  <1> QED BY <1>2, <1>3, <1>5, LiveFacts

LEMMA WaitPStep ==
    ASSUME PInv, IInv', UNCHANGED <<ringVars, wal, writer, saver>>, WrittenOK'
    PROVE  PInv'
  <1>1. UNCHANGED <<cells, pread, pwrite, slot, minVisit, refNum>>
    BY DEF ringVars
  <1>2. /\ InsertLsn' = InsertLsn /\ Records' = Records
        /\ \A n : EndOf(n)' = EndOf(n) /\ StartOf(n)' = StartOf(n)
        /\ \A i : IsKeep(i)' = IsKeep(i) /\ \A w \in Writers : Pushing(w)' = Pushing(w)
    BY DEF InsertLsn, Records, EndOf, StartOf, IsKeep, Pushing
  <1>3. WalOK'
    BY <1>1, <1>2 DEF PInv, WalOK
  <1>4. VisitNamesPosition' /\ SaverOK'
    BY <1>1, <1>2 DEF PInv, VisitNamesPosition, SaverOK, EndOf
  <1>5. PushOK' /\ PushAhead'
    BY <1>1, <1>2 DEF PInv, PushOK, PushAhead
  <1>6. PacketsOK'
    BY <1>1, <1>2 DEF PInv, PacketsOK
  <1> QED BY <1>3, <1>4, <1>5, <1>6 DEF PInv

\* One process waits for the others, and nothing is written yet.
LEMMA WaitMoves ==
    ASSUME PInv, IInv', NEW p \in Waiters, NEW x, wait' = [wait EXCEPT ![p] = x],
           UNCHANGED <<ringVars, wal, written, writer, saver>>,
           \A w \in Writers : Copying(w) /\ w \in x.seen => x.upto <= StartOf(writer[w].n)
    PROVE  PInv'
  <1>1. WrittenOK /\ wait \in [Waiters -> WaitStates]
    BY TypeParts DEF PInv, IInv
  <1>2. wait'[p] = x /\ \A q \in Waiters : q # p => wait'[q] = wait[q]
    BY <1>1
  <1>3. /\ Records' = Records /\ \A n : EndOf(n)' = EndOf(n) /\ StartOf(n)' = StartOf(n)
        /\ \A w \in Writers : Copying(w)' = Copying(w)
    BY DEF Records, EndOf, StartOf, Copying
  <1>4. \A q \in Waiters, w \in Writers :
          Copying(w) /\ w \in wait'[q].seen => wait'[q].upto <= StartOf(writer[w].n)
    BY <1>1, <1>2 DEF WrittenOK
  <1>5. WrittenOK'
    BY <1>1, <1>3, <1>4 DEF WrittenOK
  <1> QED BY <1>5, WaitPStep

LEMMA AdvancePStep ==
    ASSUME PInv, IInv', NEW w \in Writers, AdvanceXLInsertBuffer(w)
    PROVE  PInv'
  <1> DEFINE x == [upto |-> EndOf(writer[w].n) - WalBuffers, seen |-> {w}]
  <1>1. /\ wait' = [wait EXCEPT ![w] = x] /\ UNCHANGED <<ringVars, wal, written, writer, saver>>
        /\ w \in Waiters /\ Copying(w)
    BY DEF AdvanceXLInsertBuffer, Waiters, Copying
  <1>2. \A v \in Writers : v \in x.seen => v = w
    OBVIOUS
  <1>3. x.upto <= StartOf(writer[w].n)
    <2> DEFINE s == StartOf(writer[w].n)
               e == EndOf(writer[w].n)
               l == wal[writer[w].n].len
    <2>1. s \in Nat /\ l \in Nat /\ e = s + l /\ l <= WalBuffers /\ WalBuffers \in Nat
      BY <1>1, CopyingFacts, QueueAssumption
    <2> HIDE DEF s, e, l
    <2>2. e - WalBuffers <= s
      BY <2>1
    <2>3. x.upto = e - WalBuffers
      BY DEF e
    <2> QED BY <2>2, <2>3 DEF s
  <1> HIDE DEF x
  <1> QED BY <1>1, <1>2, <1>3, WaitMoves

LEMMA FlushBeginPStep ==
    ASSUME PInv, IInv', XLogFlushBegin
    PROVE  PInv'
  <1> DEFINE x == [upto |-> InsertLsn, seen |-> {}]
  <1>1. /\ wait' = [wait EXCEPT ![Flusher] = x] /\ UNCHANGED <<ringVars, wal, written, writer, saver>>
        /\ Flusher \in Waiters
    BY DEF XLogFlushBegin, Waiters
  <1>2. x.seen = {}
    OBVIOUS
  <1> HIDE DEF x
  <1> QED BY <1>1, <1>2, WaitMoves

LEMMA SeenPStep ==
    ASSUME PInv, IInv', NEW p \in Waiters, NEW w \in Writers, InsertionSeen(p, w)
    PROVE  PInv'
  <1> DEFINE x == [wait[p] EXCEPT !.seen = @ \cup {w}]
  <1>0. wait[p] \in WaitStates /\ WrittenOK
    BY WalFacts DEF PInv
  <1>1. wait' = [wait EXCEPT ![p] = x] /\ UNCHANGED <<ringVars, wal, written, writer, saver>>
    BY DEF InsertionSeen
  <1>2. x.upto = wait[p].upto /\ x.seen = wait[p].seen \cup {w}
    BY <1>0 DEF WaitStates
  <1>3. Copying(w) => wait[p].upto <= StartOf(writer[w].n)
    <2> SUFFICES ASSUME Copying(w)
                 PROVE  wait[p].upto <= StartOf(writer[w].n)
      OBVIOUS
    <2>1. InsertingAt(w) >= wait[p].upto
      BY DEF InsertionSeen, HoldsInsertLock, Copying
    <2>2. StartOf(writer[w].n) \in Nat
      BY CopyingFacts
    <2>3. InsertingAt(w) \in {StartOf(writer[w].n), 0}
      BY DEF InsertingAt
    <2>4. wait[p].upto \in Nat
      BY <1>0, WalFacts DEF WaitStates, PInv
    <2> QED BY <2>1, <2>2, <2>3, <2>4
  <1>4. \A v \in Writers : Copying(v) /\ v \in x.seen => x.upto <= StartOf(writer[v].n)
    <2> HIDE DEF x
    <2> QED BY <1>0, <1>2, <1>3 DEF WrittenOK
  <1> HIDE DEF x
  <1> QED BY <1>1, <1>4, WaitMoves

LEMMA WritePStep ==
    ASSUME PInv, IInv', NEW p \in Waiters, XLogWrite(p)
    PROVE  PInv'
  <1>1. /\ wait' = [wait EXCEPT ![p] = NoWait] /\ UNCHANGED <<ringVars, wal, writer, saver>>
        /\ wait[p].seen = Writers /\ written' = IF wait[p].upto > written THEN wait[p].upto ELSE written
    BY DEF XLogWrite
  <1>2. WrittenOK /\ wait \in [Waiters -> WaitStates] /\ NoWait.seen = {}
    BY TypeParts DEF PInv, IInv, NoWait
  <1>3. wait'[p] = NoWait /\ \A q \in Waiters : q # p => wait'[q] = wait[q]
    BY <1>1, <1>2
  <1>4. /\ Records' = Records /\ \A n : EndOf(n)' = EndOf(n) /\ StartOf(n)' = StartOf(n)
        /\ \A w \in Writers : Copying(w)' = Copying(w)
    BY <1>1 DEF Records, EndOf, StartOf, Copying
  <1>5. written \in Nat /\ wait[p].upto \in Nat /\ WalBuffers \in Nat
    BY WalFacts, QueueAssumption DEF PInv, WaitStates
  <1>6. written <= written' /\ written' \in Nat /\ written' \in {written, wait[p].upto}
    BY <1>1, <1>5
  <1>7. \A q \in Waiters, w \in Writers :
          Copying(w) /\ w \in wait'[q].seen => wait'[q].upto <= StartOf(writer[w].n)
    BY <1>2, <1>3 DEF WrittenOK
  <1>8. \A w \in Writers : Copying(w) => written' <= StartOf(writer[w].n)
    BY <1>1, <1>2, <1>6 DEF WrittenOK
  <1>9. ASSUME NEW n \in Records, EndOf(n) > written' + WalBuffers
        PROVE  \E w \in Writers : Copying(w) /\ writer[w].n = n
    <2>1. EndOf(n) \in Nat
      BY Basics DEF Records
    <2>2. EndOf(n) > written + WalBuffers
      BY <1>5, <1>6, <1>9, <2>1
    <2> QED BY <1>2, <2>2 DEF WrittenOK
  <1>10. WrittenOK'
    BY <1>1, <1>4, <1>7, <1>8, <1>9 DEF WrittenOK
  <1> QED BY <1>1, <1>10, WaitPStep

(***************************************************************************)
(* All steps.                                                              *)
(***************************************************************************)

LEMMA PInvInit == Init => PInv
  <1> SUFFICES ASSUME Init
               PROVE  PInv
    OBVIOUS
  <1>1. IInv
    BY IInvInit
  <1>2. /\ wal = <<>> /\ written = 0 /\ pread = 0 /\ pwrite = 0 /\ minVisit = 0
        /\ slot = [i \in Slots |-> ZeroSlot] /\ writer = [w \in Writers |-> Idle]
        /\ saver = [pc |-> "pop", ref |-> NoRef, keep |-> NoRef, moved |-> FALSE, saved |-> 0, count |-> 0]
    BY DEF Init, RingInit
  <1>3. Len(wal) = 0 /\ Records = {} /\ EndOf(0) = 0 /\ InsertLsn = 0
    BY <1>2 DEF Records, EndOf, InsertLsn
  <1>4. \A w \in Writers : ~Pushing(w) /\ ~Copying(w)
    BY <1>2 DEF Pushing, Copying, Idle
  <1>5. Occupied(slot) = {}
    BY <1>2 DEF Occupied, ZeroSlot
  <1>6. WalOK
    BY <1>2, <1>3 DEF WalOK
  <1>7. VisitNamesPosition
    BY <1>2, <1>3, <1>5, SizeAssumption DEF VisitNamesPosition
  <1>8. PushOK /\ PushAhead
    BY <1>4 DEF PushOK, PushAhead
  <1>9. PacketsOK
    <2>1. minVisit + 1 .. Len(wal) = {}
      BY <1>2, <1>3
    <2> QED BY <2>1 DEF PacketsOK
  <1>10. SaverOK
    BY <1>2 DEF SaverOK
  <1>11. WrittenOK
    BY <1>3, <1>4 DEF WrittenOK
  <1> QED BY <1>1, <1>6, <1>7, <1>8, <1>9, <1>10, <1>11 DEF PInv

LEMMA NextPStep ==
    ASSUME PInv, LengthsInTime, [Next]_vars
    PROVE  PInv'
  <1>0. IInv'
    BY NextKeeps DEF PInv
  <1>1. ASSUME NEW w \in Writers, WriterStep(w) \/ \E len \in Lens : XLogInsertBegin(w, len)
        PROVE  PInv'
    BY <1>0, <1>1, BeginPStep, ReservePStep, SpacePStep, SetLengthPStep, CopyPStep, AdvancePStep,
       PushContentPStep, PushFlagPStep DEF WriterStep
  <1>2. CASE FlushStep
    BY <1>0, <1>2, FlushBeginPStep, SeenPStep, WritePStep DEF FlushStep
  <1>3. CASE SaverStep
    BY <1>0, <1>3, AttachPStep, PopPStep, KeepBeginPStep, KeepStepPStep, KeepEndPStep DEF SaverStep
  <1>4. ASSUME NEW s \in Senders, SenderStep(s) \/ WalSndLoop(s) \/ WalSndExit(s)
        PROVE  PInv'
    BY <1>0, <1>4, SenderPStep
  <1>5. CASE UNCHANGED vars
    BY <1>0, <1>5, RingUntouched DEF vars, walVars
  <1> QED BY <1>1, <1>2, <1>3, <1>4, <1>5 DEF Next

(***************************************************************************)
(* The sizes that keep lengths set in time.                                *)
(***************************************************************************)

LEMMA Times ==
    ASSUME NEW a \in Nat, NEW b \in Nat, NEW c \in Nat, a <= b
    PROVE  a * c <= b * c /\ a * c \in Nat /\ b * c \in Nat
  <1> DEFINE d == b - a
  <1>1. d \in Nat /\ b = a + d
    OBVIOUS
  <1> HIDE DEF d
  <1>2. (a + d) * c = a * c + d * c /\ d * c \in Nat /\ a * c \in Nat
    BY <1>1
  <1>3. a * c <= (a + d) * c /\ (a + d) * c \in Nat
    BY <1>2
  <1> QED BY <1>1, <1>2, <1>3

LEMMA OnceMore ==
    ASSUME NEW k \in Nat, NEW l \in Nat
    PROVE  (k + 1) * l = k * l + l /\ k * l \in Nat
  OBVIOUS

LEMMA NoLongerInit == ASSUME NEW L \in Nat, Init PROVE NoLonger(L)
  <1>1. wal = <<>>
    BY DEF Init
  <1>2. Len(wal) = 0
    BY <1>1
  <1>3. \A a \in 0 .. Len(wal) : a = 0
    BY <1>2
  <1>4. EndOf(0) = 0
    BY DEF EndOf
  <1>5. \A a, b \in 0 .. Len(wal) : EndOf(b) - EndOf(a) <= (b - a) * L
    BY <1>3, <1>4
  <1> QED BY <1>5 DEF NoLonger

LEMMA NoLongerStays ==
    ASSUME NEW L, NoLonger(L), Len(wal') = Len(wal), \A m \in 0 .. Len(wal) : EndOf(m)' = EndOf(m)
    PROVE  NoLonger(L)'
  BY DEF NoLonger

\* The steps that change the WAL.
LEMMA WalSteps ==
    ASSUME [Next]_vars
    PROVE  UNCHANGED wal \/ \E w \in Writers : CopyXLogRecordToWAL(w) \/ ReserveXLogInsertLocation(w)
  BY DEF Next, vars, walVars, WriterStep, FlushStep, SaverStep, SenderStep, XLogInsertBegin, QueueFull, FreeUp,
     SetLength, AdvanceXLInsertBuffer, PushContent, PushFlag, XLogFlushBegin, InsertionSeen, XLogWrite,
     SaverAttach, SaverPop, SaverKeepBegin, SaverKeepStep, SaverKeepEnd, WalSndLoop, WalSndExit, CheckBegin,
     CheckSkip, CheckEnd, QueueBegin, QueueNothing, QueuePop, QueueSend, XLogSendPhysicalExt

LEMMA CopyEnds ==
    ASSUME PInv, NEW w \in Writers, CopyXLogRecordToWAL(w)
    PROVE  Len(wal') = Len(wal) /\ \A m \in 0 .. Len(wal) : EndOf(m)' = EndOf(m)
  <1> DEFINE n == writer[w].n
  <1>1. wal' = [wal EXCEPT ![n].done = TRUE]
    BY DEF CopyXLogRecordToWAL
  <1>2. wal \in Seq(WalRecords)
    BY TypeParts DEF PInv, IInv
  <1>3. wal \in [1 .. Len(wal) -> WalRecords] /\ Len(wal) \in Nat
    BY <1>2
  <1>4. wal' \in [1 .. Len(wal) -> WalRecords] /\ \A m \in 1 .. Len(wal) : wal'[m].end = wal[m].end
    BY <1>1, <1>3 DEF WalRecords
  <1>5. Len(wal') = Len(wal)
    BY <1>3, <1>4
  <1>6. ASSUME NEW m \in 0 .. Len(wal)
        PROVE  EndOf(m)' = EndOf(m)
    <2>1. m = 0 \/ m \in 1 .. Len(wal)
      BY <1>3
    <2> QED BY <1>4, <2>1 DEF EndOf
  <1> QED BY <1>5, <1>6

\* Records that are reserved stay where they are.
LEMMA EndsStay ==
    ASSUME PInv, [Next]_vars
    PROVE  \A m \in Records : StartOf(m)' = StartOf(m) /\ EndOf(m)' = EndOf(m)
  <1>1. \A m \in 0 .. Len(wal) : EndOf(m)' = EndOf(m)
    <2>1. CASE UNCHANGED wal
      BY <2>1 DEF EndOf
    <2>2. ASSUME NEW w \in Writers, ReserveXLogInsertLocation(w)
          PROVE  \A m \in 0 .. Len(wal) : EndOf(m)' = EndOf(m)
      BY <2>2, WriterFacts, AppendFacts DEF ReserveXLogInsertLocation, PInv
    <2> QED BY <2>1, <2>2, CopyEnds, WalSteps
  <1>2. \A m \in Records : m \in 0 .. Len(wal) /\ m - 1 \in 0 .. Len(wal)
    BY Basics DEF Records
  <1> QED BY <1>1, <1>2 DEF StartOf

LEMMA NoLongerStep ==
    ASSUME PInv, NEW L \in Nat, \A l \in Lens : l <= L, NoLonger(L), [Next]_vars
    PROVE  NoLonger(L)'
  <1>1. CASE UNCHANGED wal
    <2>1. \A m : EndOf(m)' = EndOf(m)
      BY <1>1 DEF EndOf
    <2> QED BY <1>1, <2>1, NoLongerStays
  <1>2. ASSUME NEW w \in Writers, CopyXLogRecordToWAL(w)
        PROVE  NoLonger(L)'
    BY <1>2, CopyEnds, NoLongerStays
  <1>3. ASSUME NEW w \in Writers, ReserveXLogInsertLocation(w)
        PROVE  NoLonger(L)'
    <2> DEFINE len == writer[w].len
               new == Len(wal) + 1
    <2>1. wal' = Append(wal, [end |-> InsertLsn + len, len |-> len, done |-> FALSE]) /\ len \in Lens
      BY <1>3, WriterFacts DEF ReserveXLogInsertLocation, PInv
    <2>2. /\ len \in Nat /\ Len(wal') = new
          /\ \A m \in 0 .. Len(wal) : EndOf(m)' = EndOf(m)
          /\ \A m : m = new => EndOf(m)' = InsertLsn + len
      BY <2>1, AppendFacts
    <2>3. Len(wal) \in Nat /\ InsertLsn \in Nat /\ Len(wal) \in 0 .. Len(wal) /\ new \in Nat /\ len <= L
      BY <2>1, Basics
    <2> HIDE DEF len
    <2>4. ASSUME NEW a \in 0 .. Len(wal'), NEW b \in 0 .. Len(wal'), a <= b
          PROVE  EndOf(b)' - EndOf(a)' <= (b - a) * L
      <3>1. CASE b \in 0 .. Len(wal)
        <4>1. a \in 0 .. Len(wal)
          BY <2>3, <2>4, <3>1
        <4>2. EndOf(b) - EndOf(a) <= (b - a) * L
          BY <2>4, <3>1, <4>1 DEF NoLonger
        <4> QED BY <2>2, <3>1, <4>1, <4>2
      <3>2. CASE b = new /\ a \in 0 .. Len(wal)
        <4> DEFINE e == EndOf(a)
                   k == Len(wal) - a
        <4>1. a <= Len(wal) /\ k \in Nat /\ b - a = k + 1
          BY <2>3, <3>2
        <4>2. EndOf(Len(wal)) - e <= k * L
          BY <2>3, <3>2, <4>1 DEF NoLonger
        <4>3. EndOf(Len(wal)) = InsertLsn /\ e \in Nat
          BY <3>2, Basics
        <4>4. EndOf(b)' = InsertLsn + len /\ EndOf(a)' = e
          BY <2>2, <3>2
        <4> HIDE DEF e, k
        <4>5. (k + 1) * L = k * L + L /\ k * L \in Nat
          BY <4>1, OnceMore
        <4> DEFINE p == k * L
        <4>6. InsertLsn - e <= p /\ p \in Nat
          BY <4>2, <4>3, <4>5
        <4> HIDE DEF p
        <4>7. InsertLsn + len - e <= p + L
          BY <2>2, <2>3, <4>3, <4>6
        <4>8. (b - a) * L = p + L
          BY <4>1, <4>5 DEF p
        <4> QED BY <2>2, <2>3, <4>3, <4>4, <4>6, <4>7, <4>8
      <3>3. CASE b = new /\ a = new
        <4>1. EndOf(b)' - EndOf(a)' = 0 /\ b - a = 0 /\ 0 * L = 0
          <5>1. EndOf(b)' = InsertLsn + len /\ EndOf(a)' = InsertLsn + len
            BY <2>2, <3>3
          <5> QED BY <2>2, <2>3, <3>3, <5>1
        <4> QED BY <4>1
      <3> QED
        <4>1. (a \in 0 .. Len(wal) \/ a = new) /\ (b \in 0 .. Len(wal) \/ b = new)
          BY <2>2, <2>3
        <4>2. b \in 0 .. Len(wal) => a # new
          BY <2>3, <2>4
        <4> QED BY <3>1, <3>2, <3>3, <4>1, <4>2
    <2> QED BY <2>4 DEF NoLonger
  <1> QED BY <1>1, <1>2, <1>3, WalSteps

LEMMA TotalFits ==
    ASSUME NEW s \in Nat, NEW b \in Nat, NEW e \in Nat, NEW i \in Nat, NEW p \in Nat, NEW q \in Nat, NEW k \in Nat,
           e <= s + b, i - e <= p, p <= q, b + q <= k
    PROVE  i - s <= k
  OBVIOUS

\* Records that do not fit into the WAL buffers behind a record that is not copied
\* are in the hands of the other inserters, one each: what is reserved behind a
\* packet without a length stays within the share of the ring that is kept.
LEMMA InTime ==
    ASSUME PInv, NEW L \in Nat, \A l \in Lens : l <= L, NoLonger(L),
           WalBuffers + (Cardinality(Writers) - 1) * L <= KeepSize
    PROVE  LengthsInTime
  <1> SUFFICES ASSUME NEW w \in Writers, writer[w].pc = "reserved"
               PROVE  InsertLsn - StartOf(writer[w].n) <= KeepSize
    BY DEF LengthsInTime
  <1> DEFINE n == writer[w].n
             s == StartOf(n)
             last == Len(wal)
             c == Cardinality(Writers) - 1
             K == {k \in Records : EndOf(k) > s + WalBuffers}
  <1>1. Copying(w) /\ WrittenOK
    BY DEF Copying, PInv
  <1>2. /\ n \in Records /\ s \in Nat /\ EndOf(n) \in Nat /\ EndOf(n) <= s + WalBuffers /\ written <= s
        /\ WalBuffers \in Nat /\ written \in Nat /\ KeepSize \in Nat
    <2>1. /\ n \in Records /\ s \in Nat /\ EndOf(n) \in Nat /\ EndOf(n) = s + wal[n].len
          /\ wal[n].len \in Nat /\ wal[n].len <= WalBuffers
      BY <1>1, CopyingFacts
    <2>2. written <= s /\ WalBuffers \in Nat /\ written \in Nat /\ KeepSize \in Nat
      BY <1>1, WalFacts, QueueAssumption, KeepSizeNat DEF WrittenOK, PInv
    <2> DEFINE l == wal[n].len
    <2>3. l \in Nat /\ l <= WalBuffers /\ EndOf(n) = s + l
      BY <2>1
    <2> HIDE DEF l, s
    <2>4. EndOf(n) <= s + WalBuffers
      BY <2>1, <2>2, <2>3
    <2> QED BY <2>1, <2>2, <2>4
  <1>3. /\ last \in Nat /\ InsertLsn \in Nat /\ InsertLsn = EndOf(last) /\ last \in 0 .. last
        /\ Records = 1 .. last /\ last \in Records
        /\ \A k \in 0 .. last : EndOf(k) \in Nat
    BY <1>2, Basics DEF Records
  <1>4. /\ IsFiniteSet(Writers \ {w}) /\ Cardinality(Writers \ {w}) = c
        /\ c \in Nat
    <2>1. IsFiniteSet(Writers \ {w}) /\ Cardinality(Writers \ {w}) = c
      BY WritersAssumption, FS_RemoveElement
    <2> QED BY <2>1, FS_CardinalityType
  <1>5. c * L \in Nat /\ WalBuffers + c * L <= KeepSize
    BY <1>4
  <1> HIDE DEF s, c
  <1>6. CASE K = {}
    <2>1. ~(EndOf(last) > s + WalBuffers)
      BY <1>3, <1>6
    <2> DEFINE q == c * L
    <2>2. q \in Nat /\ WalBuffers + q <= KeepSize
      BY <1>5
    <2> HIDE DEF q
    <2>3. InsertLsn - s <= KeepSize
      BY <1>2, <1>3, <2>1, <2>2
    <2> QED BY <2>3 DEF s
  <1>7. CASE K # {}
    <2>1. K \subseteq Nat
      BY <1>3
    <2>2. PICK k0 \in K : \A k \in K : k0 <= k
      BY <1>7, <2>1, LeastNat
    <2>3. k0 \in 1 .. last /\ k0 \in Nat /\ EndOf(k0) > s + WalBuffers
      BY <1>3, <2>2
    <2> DEFINE e == EndOf(k0 - 1)
               d == last - k0 + 1
    <2>4. e \in Nat /\ e <= s + WalBuffers /\ k0 - 1 \in 0 .. last
      <3>1. k0 - 1 \in 0 .. last
        BY <1>3, <2>3
      <3>2. e \in Nat
        BY <1>3, <3>1
      <3>3. CASE k0 - 1 = 0
        <4>1. e = 0
          BY <3>3 DEF EndOf
        <4> QED BY <1>2, <3>1, <4>1
      <3>4. CASE k0 - 1 # 0
        <4>1. k0 - 1 \in Records /\ ~(k0 <= k0 - 1)
          BY <1>3, <2>3, <3>1, <3>4
        <4>2. ~(EndOf(k0 - 1) > s + WalBuffers)
          BY <2>2, <4>1
        <4> QED BY <1>2, <3>1, <3>2, <4>2
      <3> QED BY <3>3, <3>4
    <2>5. \A k \in k0 .. last : \E v \in Writers \ {w} : Copying(v) /\ writer[v].n = k
      <3> SUFFICES ASSUME NEW k \in k0 .. last
                   PROVE  \E v \in Writers \ {w} : Copying(v) /\ writer[v].n = k
        OBVIOUS
      <3>1. k \in Records /\ k \in 0 .. last /\ k0 \in 0 .. last /\ k0 <= k /\ k \in Nat
        BY <1>3, <2>3
      <3>2. EndOf(k0) + (k - k0) <= EndOf(k)
        BY <3>1 DEF PInv, WalOK
      <3>3. EndOf(k0) \in Nat /\ EndOf(k) \in Nat
        BY <1>3, <3>1
      <3>4. EndOf(k) > s + WalBuffers
        BY <1>2, <2>3, <3>1, <3>2, <3>3
      <3>5. EndOf(k) > written + WalBuffers /\ k # n
        BY <1>2, <3>3, <3>4
      <3>6. PICK v \in Writers : Copying(v) /\ writer[v].n = k
        BY <1>1, <3>1, <3>5 DEF WrittenOK
      <3>7. v # w
        BY <3>5, <3>6
      <3> QED BY <3>6, <3>7
    <2> DEFINE f == [k \in k0 .. last |-> CHOOSE v \in Writers \ {w} : Copying(v) /\ writer[v].n = k]
    <2>6. \A k \in k0 .. last : f[k] \in Writers \ {w} /\ writer[f[k]].n = k
      BY <2>5
    <2>7. f \in Injection(k0 .. last, Writers \ {w})
      <3>1. f \in [k0 .. last -> Writers \ {w}]
        BY <2>6
      <3> HIDE DEF f
      <3>2. \A a, b \in k0 .. last : f[a] = f[b] => a = b
        BY <2>6
      <3> QED BY <3>1, <3>2 DEF Injection, IsInjective
    <2>8. Cardinality(k0 .. last) = d /\ d \in Nat
      <3>1. k0 \in Int /\ last \in Int /\ ~(k0 > last) /\ d \in Nat
        BY <1>3, <2>3
      <3>2. Cardinality(k0 .. last) = IF k0 > last THEN 0 ELSE last - k0 + 1
        BY <3>1, FS_Interval
      <3> QED BY <3>1, <3>2
    <2>9. d <= c
      <3> HIDE DEF f, d
      <3> QED BY <1>4, <2>7, <2>8, FS_Injection
    <2>10. InsertLsn - e <= d * L
      <3>1. k0 - 1 <= last /\ last - (k0 - 1) = d
        BY <1>3, <2>3
      <3>2. EndOf(last) - EndOf(k0 - 1) <= (last - (k0 - 1)) * L
        BY <1>3, <2>4, <3>1 DEF NoLonger
      <3> QED BY <1>3, <3>1, <3>2
    <2> HIDE DEF d, e
    <2>11. d * L <= c * L /\ d * L \in Nat
      BY <1>4, <2>8, <2>9, Times
    <2> DEFINE p == d * L
               q == c * L
    <2>12. p \in Nat /\ q \in Nat /\ p <= q /\ InsertLsn - e <= p /\ WalBuffers + q <= KeepSize
      BY <1>5, <2>10, <2>11
    <2> HIDE DEF p, q
    <2>13. InsertLsn - s <= KeepSize
      BY <1>2, <1>3, <2>4, <2>12, TotalFits
    <2> QED BY <2>13 DEF s
  <1> QED BY <1>6, <1>7

(***************************************************************************)
(* The theorems.                                                           *)
(***************************************************************************)

\* The kept share of the ring holds the WAL buffers and a record of every inserter
\* but one.
KeepsEnough ==
    \E L \in Nat : /\ \A l \in Lens : l <= L
                   /\ WalBuffers + (Cardinality(Writers) - 1) * L <= KeepSize

\* The inductive invariant, which needs the sizes for the steps of the keep
\* reference.
THEOREM PacketInvariance ==
    ASSUME KeepsEnough
    PROVE  Spec => []PInv
  <1>1. PICK L \in Nat : /\ \A l \in Lens : l <= L
                         /\ WalBuffers + (Cardinality(Writers) - 1) * L <= KeepSize
    BY DEF KeepsEnough
  <1> DEFINE J == PInv /\ NoLonger(L)
  <1>2. Init => J
    BY PInvInit, NoLongerInit
  <1>3. J /\ [Next]_vars => J'
    <2> SUFFICES ASSUME J, [Next]_vars
                 PROVE  J'
      OBVIOUS
    <2>1. LengthsInTime
      BY <1>1, InTime
    <2> QED BY <1>1, <2>1, NextPStep, NoLongerStep
  <1>4. J => PInv
    OBVIOUS
  <1> HIDE DEF J
  <1> QED BY <1>2, <1>3, <1>4, PTL DEF Spec

\* polar_ringbuf_update_pread may trust the packet counts: every reference, and the
\* least read position, stands at the packet its count names, whoever attaches, is
\* evicted, leaves or steps over packets unchecked; and what is unread fits.
THEOREM CountsNamePositions ==
    ASSUME KeepsEnough
    PROVE  Spec => []VisitNamesPosition
  <1>1. PInv => VisitNamesPosition
    BY DEF PInv
  <1> QED BY <1>1, PacketInvariance, PTL

LEMMA WholePackets == ASSUME PInv PROVE ReadyMeansWhole
  <1> SUFFICES ASSUME NEW i \in Occupied(slot), slot[i].visit < Len(wal), cells[slot[i].pread].ready
               PROVE  LET n == slot[i].visit + 1
                      IN  /\ cells[slot[i].pread].len = wal[n].len
                          /\ \A u \in StartOf(n) .. EndOf(n) - 1 : cells[u % Size].lsn = EndOf(n)
    BY DEF ReadyMeansWhole
  <1> DEFINE v == slot[i].visit
             n == v + 1
  <1>1. v \in Nat /\ v \in minVisit .. Len(wal) /\ slot[i].pread = EndOf(v) % Size /\ v < Len(wal)
    BY SlotFacts
  <1>2. n \in minVisit + 1 .. Len(wal) /\ n - 1 = v
    BY <1>1, Basics
  <1>3. slot[i].pread = StartOf(n) % Size
    BY <1>1, <1>2 DEF StartOf
  <1>4. \A w \in Writers : Pushing(w) => writer[w].n # n
    BY <1>3 DEF PInv, PushOK
  <1>5. /\ \A w \in Writers : writer[w].pc = "reserved" => writer[w].n # n
        /\ \A w \in Writers : writer[w].pc \in {"reserved", "copy", "push"} => writer[w].n # n
    BY <1>4 DEF Pushing
  <1>6. cells[StartOf(n) % Size].len = wal[n].len
    BY <1>2, <1>5 DEF PInv, PacketsOK
  <1>7. \A u \in StartOf(n) .. EndOf(n) - 1 : cells[u % Size].lsn = EndOf(n)
    BY <1>2, <1>5 DEF PInv, PacketsOK
  <1> QED BY <1>3, <1>6, <1>7

\* polar_ringbuf_next_ready_pkt: whatever the ring held a lap ago and however the
\* inserters finish, a packet found ready is the next record, with its length and
\* all of its content.
THEOREM ReadyPacketsWhole ==
    ASSUME KeepsEnough
    PROVE  Spec => []ReadyMeansWhole
  <1>1. PInv => ReadyMeansWhole
    BY WholePackets
  <1> QED BY <1>1, PacketInvariance, PTL

LEMMA SavesNext ==
    ASSUME PInv, [Next]_vars, saver'.count # saver.count
    PROVE  \E n \in Records : saver'.saved = EndOf(n) /\ (saver.count = 0 \/ saver.saved = StartOf(n))
  <1>1. saver \in SaverStates
    BY SaverFacts DEF PInv
  <1>2. SaverPop
    <2>1. ~ UNCHANGED saver
      OBVIOUS
    <2>2. SaverStep
      BY <2>1 DEF Next, vars, WriterStep, FlushStep, SenderStep, XLogInsertBegin, ReserveXLogInsertLocation, QueueFull,
         FreeUp, SetLength, CopyXLogRecordToWAL, AdvanceXLInsertBuffer, PushContent, PushFlag, XLogFlushBegin,
         InsertionSeen, XLogWrite, WalSndLoop, WalSndExit, CheckBegin, CheckSkip, CheckEnd, QueueBegin,
         QueueNothing, QueuePop, QueueSend, XLogSendPhysicalExt
    <2>3. CASE SaverAttach
      BY <1>1, <2>3 DEF SaverAttach, SaverStates
    <2>4. CASE SaverKeepBegin
      BY <1>1, <2>4 DEF SaverKeepBegin, SaverStates
    <2>5. CASE SaverKeepStep
      BY <1>1, <2>5 DEF SaverKeepStep, SaverStates
    <2>6. CASE SaverKeepEnd
      BY <1>1, <2>6 DEF SaverKeepEnd, SaverStates
    <2> QED BY <2>2, <2>3, <2>4, <2>5, <2>6 DEF SaverStep
  <1> DEFINE n == slot[saver.ref.slot].visit + 1
  <1>3. saver.ref # NoRef /\ NextReady(saver.ref)
        /\ saver' = [saver EXCEPT !.saved = NextCell(saver.ref).lsn, !.count = @ + 1]
    BY <1>2 DEF SaverPop, SaverHasNext
  <1>4. saver.ref \in Refs /\ Held(saver.ref) /\ SaverOK
    BY <1>3, SaverFacts DEF PInv, IInv, RefsOK
  <1>5. n \in minVisit + 1 .. Len(wal) /\ n - 1 = slot[saver.ref.slot].visit /\ NextCell(saver.ref).lsn = EndOf(n)
    BY <1>3, <1>4, ReadyFacts
  <1>6. n \in Records
    BY <1>5, LiveFacts
  <1>7. saver'.saved = EndOf(n)
    BY <1>1, <1>3, <1>5 DEF SaverStates
  <1>8. saver.count = 0 \/ saver.saved = StartOf(n)
    BY <1>4, <1>5 DEF SaverOK, StartOf
  <1> QED BY <1>6, <1>7, <1>8

\* polar_logindex_primary_save: each pop takes the record after the one popped last,
\* so no record is left out of the logindex and none is put into it twice.
THEOREM SaverInOrder ==
    ASSUME KeepsEnough
    PROVE  Spec => SavedInOrder
  <1>1. PInv /\ [Next]_vars =>
          [saver'.count # saver.count =>
             \E n \in Records : /\ saver'.saved = EndOf(n)
                                /\ saver.count = 0 \/ saver.saved = StartOf(n)]_vars
    BY SavesNext
  <1> QED BY <1>1, PacketInvariance, PTL DEF Spec, SavedInOrder

(***************************************************************************)
(* What a walsender sends.                                                 *)
(***************************************************************************)

\* The packet the reference of s has stepped over last starts before what the
\* replica of s has been told of.
Placed(s) == \A n \in Records : n = slot[sender[s].ref.slot].visit => StartOf(n) < Covered(s)

\* A walsender that takes packets from the queue has found its place in it, and
\* keeps it as long as it keeps the reference.
Follow(s) ==
    /\ sender[s].pc \in {"gone", "check", "files"} => ~sender[s].checked
    /\ sender[s].pc \in {"queue", "next", "pop"} => sender[s].checked
    /\ sender[s].pc = "pop" <=> sender[s].max # 0
    /\ sender[s].checked \/ (sender[s].pc = "check" /\ sender[s].found) =>
          (Match(sender[s].ref) => Placed(s))

\* Slots that keep their number, but for this one, keep their count.
SlotsFollow(num) ==
    \A i \in Slots : slot'[i].num # 0 /\ slot'[i].num # num /\ slot'[i].num <= refNum =>
        slot'[i].num = slot[i].num /\ slot'[i].visit = slot[i].visit

LEMMA NewRefFollow ==
    ASSUME PInv, NEW strong, NEW i \in Slots, NewRef(strong, [slot |-> i, num |-> refNum + 1])
    PROVE  SlotsFollow(0)
  <1> DEFINE ref == [slot |-> i, num |-> refNum + 1]
             new == [strong |-> strong, pread |-> pread, visit |-> minVisit, num |-> ref.num]
  <1>1. slot \in [Slots -> SlotStates] /\ refNum \in Nat
    BY DEF PInv, IInv, TypeOK, RingTypeOK, SlotStates
  <1>2. ref.slot = i /\ ref.num = refNum + 1 /\ new.num = ref.num
    OBVIOUS
  <1>3. slot' = [slot EXCEPT ![i] = new]
    BY DEF NewRef
  <1> HIDE DEF new
  <1>4. slot'[i].num = refNum + 1 /\ \A j \in Slots : j # i => slot'[j] = slot[j]
    BY <1>1, <1>2, <1>3
  <1>5. ~(slot'[i].num <= refNum)
    BY <1>1, <1>4
  <1> QED BY <1>4, <1>5 DEF SlotsFollow

LEMMA UpdateRefFollow ==
    ASSUME PInv, NEW ref \in Refs, Match(ref), UpdateRef(ref)
    PROVE  SlotsFollow(ref.num)
  <1> DEFINE i == ref.slot
  <1>1. slot \in [Slots -> SlotStates] /\ i \in Slots /\ slot[i].num = ref.num
    BY DEF PInv, IInv, TypeOK, RingTypeOK, SlotStates, Match
  <1>2. slot' = [slot EXCEPT ![i].pread = (@ + NextCell(ref).len) % Size, ![i].visit = @ + 1]
    BY DEF UpdateRef
  <1> HIDE DEF i
  <1>3. slot'[i].num = slot[i].num
    BY <1>1, <1>2 DEF SlotStates
  <1>4. \A j \in Slots : j # i => slot'[j] = slot[j]
    BY <1>1, <1>2
  <1> QED BY <1>1, <1>3, <1>4 DEF SlotsFollow

LEMMA SetStrongFollow ==
    ASSUME PInv, NEW ref \in Refs, Match(ref), NEW b, SetStrong(ref, b)
    PROVE  SlotsFollow(0) /\ slot'[ref.slot].visit = slot[ref.slot].visit
  <1> DEFINE i == ref.slot
  <1>1. slot \in [Slots -> SlotStates] /\ i \in Slots /\ slot' = [slot EXCEPT ![i].strong = b]
    BY DEF PInv, IInv, TypeOK, RingTypeOK, SlotStates, Match, SetStrong
  <1> HIDE DEF i
  <1>2. slot'[i].num = slot[i].num /\ slot'[i].visit = slot[i].visit
    BY <1>1 DEF SlotStates
  <1>3. \A j \in Slots : j # i => slot'[j] = slot[j]
    BY <1>1
  <1>4. SlotsFollow(0)
    BY <1>2, <1>3 DEF SlotsFollow
  <1> QED BY <1>2, <1>4 DEF i

LEMMA ZeroFollow ==
    ASSUME PInv, NEW i, slot' = [slot EXCEPT ![i] = ZeroSlot]
    PROVE  SlotsFollow(0)
  <1>1. slot \in [Slots -> SlotStates] /\ ZeroSlot.num = 0
    BY DEF PInv, IInv, TypeOK, RingTypeOK, SlotStates, ZeroSlot
  <1>2. \A j \in Slots : slot'[j] = slot[j] \/ slot'[j].num = 0
    BY <1>1
  <1> QED BY <1>2 DEF SlotsFollow

LEMMA SameFollow ==
    ASSUME UNCHANGED slot
    PROVE  SlotsFollow(0)
  BY DEF SlotsFollow

\* What the others do.
LEMMA StaysFollowed ==
    ASSUME PInv, NEW s \in Senders, Follow(s), sender'[s] = sender[s],
           \A m \in Records : StartOf(m)' = StartOf(m), NEW num, SlotsFollow(num),
           sender[s].ref.num # 0 => sender[s].ref.num # num
    PROVE  Follow(s)'
  <1> SUFFICES ASSUME sender[s].checked \/ (sender[s].pc = "check" /\ sender[s].found), Match(sender[s].ref)',
                      NEW n \in Records', n = slot'[sender[s].ref.slot].visit
               PROVE  StartOf(n)' < Covered(s)
    BY DEF Follow, Placed, Covered
  <1>1. sender[s].pc # "gone"
    BY DEF Follow
  <1>2. sender[s].ref.num # 0 /\ sender[s].ref.num <= refNum
    BY <1>1 DEF PInv, IInv, RefsOK
  <1> DEFINE i == sender[s].ref.slot
  <1>3. i \in Slots /\ slot'[i].num = sender[s].ref.num
    BY DEF Match
  <1>4. slot[i].num = sender[s].ref.num /\ slot'[i].visit = slot[i].visit
    BY <1>2, <1>3 DEF SlotsFollow
  <1>5. Match(sender[s].ref) /\ i \in Occupied(slot)
    BY <1>2, <1>3, <1>4 DEF Match, Occupied
  <1>6. n = slot[i].visit /\ n \in Nat /\ n \in 0 .. Len(wal)
    BY <1>4, <1>5, SlotFacts
  <1>7. n # 0
    BY DEF Records
  <1>8. n \in Records
    BY <1>6, <1>7, Basics DEF Records
  <1>9. StartOf(n) < Covered(s)
    BY <1>5, <1>6, <1>8 DEF Follow, Placed
  <1> QED BY <1>8, <1>9

LEMMA RecordFacts ==
    ASSUME PInv, NEW n \in Records
    PROVE  StartOf(n) < EndOf(n) /\ StartOf(n) \in Nat /\ EndOf(n) \in Nat
  <1> DEFINE a == StartOf(n)
             l == wal[n].len
  <1>1. n - 1 \in 0 .. Len(wal) /\ n \in 0 .. Len(wal)
    BY Basics DEF Records
  <1>2. a \in Nat /\ l \in Nat /\ l > 0 /\ EndOf(n) = a + l
    BY <1>1, Basics DEF PInv, WalOK, StartOf
  <1> HIDE DEF a, l
  <1>3. a < EndOf(n) /\ EndOf(n) \in Nat
    BY <1>2
  <1> QED BY <1>2, <1>3 DEF a

LEMMA SenderRecord ==
    ASSUME PInv, NEW s \in Senders, NEW rec, Set(s, rec)
    PROVE  sender'[s] = rec /\ (\A t \in Senders : t # s => sender'[t] = sender[t]) /\ sender[s] \in SenderStates
           /\ sender[s].ref \in Refs
  <1>1. sender \in [Senders -> SenderStates]
    BY TypeParts DEF PInv, IInv
  <1>2. sender'[s] = rec /\ (\A t \in Senders : t # s => sender'[t] = sender[t]) /\ sender[s] \in SenderStates
    BY <1>1 DEF Set
  <1> QED BY <1>2 DEF SenderStates

\* A reference made strong or weak stays at its place; one that steps over a packet
\* has its place after it.
LEMMA StrongPlaced ==
    ASSUME PInv, NEW s \in Senders, sender[s].ref \in Refs, Match(sender[s].ref), NEW b, SetStrong(sender[s].ref, b),
           UNCHANGED wal, sender'[s].ref = sender[s].ref, Placed(s), Covered(s)' = Covered(s)
    PROVE  Placed(s)'
  <1>1. slot'[sender[s].ref.slot].visit = slot[sender[s].ref.slot].visit
    BY SetStrongFollow
  <1>2. Records' = Records /\ \A n : StartOf(n)' = StartOf(n)
    BY DEF Records, StartOf, EndOf
  <1> QED BY <1>1, <1>2 DEF Placed

LEMMA StepPlaced ==
    ASSUME PInv, NEW s \in Senders, sender[s].ref \in Refs, Held(sender[s].ref), UpdateRef(sender[s].ref),
           UNCHANGED wal, sender'[s].ref = sender[s].ref, StartOf(slot[sender[s].ref.slot].visit + 1) < Covered(s)'
    PROVE  Placed(s)'
  <1> DEFINE i == sender[s].ref.slot
  <1>1. slot \in [Slots -> SlotStates] /\ i \in Slots
    BY HeldFacts DEF PInv, IInv, TypeOK, RingTypeOK, SlotStates
  <1>2. slot' = [slot EXCEPT ![i].pread = (@ + NextCell(sender[s].ref).len) % Size, ![i].visit = @ + 1]
    BY DEF UpdateRef
  <1>3. slot'[i].visit = slot[i].visit + 1
    <2> HIDE DEF i
    <2> QED BY <1>1, <1>2 DEF SlotStates
  <1>4. Records' = Records /\ \A n : StartOf(n)' = StartOf(n)
    BY DEF Records, StartOf, EndOf
  <1> QED BY <1>3, <1>4 DEF Placed

\* The record in a packet found ready begins where the reference has come to.
LEMMA ReadyStart ==
    ASSUME PInv, NEW ref \in Refs, Held(ref), NextReady(ref)
    PROVE  LET n == slot[ref.slot].visit + 1
           IN  /\ NextStart(ref) = StartOf(n) /\ NextCell(ref).lsn = EndOf(n) /\ StartOf(n) < EndOf(n)
               /\ n \in Records /\ StartOf(n) \in Nat /\ EndOf(n) \in Nat /\ StartOf(n) = EndOf(n - 1)
               /\ n - 1 = slot[ref.slot].visit
  <1> DEFINE v == slot[ref.slot].visit
             n == v + 1
  <1>1. n \in minVisit + 1 .. Len(wal) /\ n - 1 = v /\ NextCell(ref).lsn = EndOf(n)
    BY ReadyFacts
  <1>2. /\ n \in Records /\ StartOf(n) \in Nat /\ EndOf(n) \in Nat /\ wal[n].len \in Nat /\ wal[n].len > 0
        /\ EndOf(n) = StartOf(n) + wal[n].len
    BY <1>1, LiveFacts
  <1>3. NextCell(ref).len = wal[n].len
    <2>1. ref.slot \in Occupied(slot) /\ cells[slot[ref.slot].pread].ready
      BY HeldFacts DEF NextReady, NextCell
    <2>2. v < Len(wal)
      <3>1. v \in Nat /\ Len(wal) \in Nat
        BY <2>1, SlotFacts, Basics
      <3> QED BY <1>2, <3>1 DEF Records
    <2> QED BY <2>1, <2>2, WholePackets DEF ReadyMeansWhole, NextCell
  <1> DEFINE l == wal[n].len
             a == StartOf(n)
             e == EndOf(n)
  <1>4. l \in Nat /\ l > 0 /\ a \in Nat /\ e = a + l
    BY <1>2
  <1> HIDE DEF l, a, e
  <1>5. e - l = a /\ a < e
    BY <1>4
  <1>6. NextStart(ref) = StartOf(n) /\ StartOf(n) < EndOf(n)
    BY <1>1, <1>3, <1>5 DEF NextStart, l, a, e
  <1> QED BY <1>1, <1>2, <1>6 DEF StartOf

\* polar_xlog_send_queue_check.
LEMMA CheckFollow ==
    ASSUME PInv, NEW s \in Senders, Follow(s), CheckBegin(s) \/ CheckSkip(s) \/ CheckEnd(s)
    PROVE  Follow(s)'
  <1> DEFINE ref == sender[s].ref
  <1>1. sender[s].pc \in {"loop", "check"} /\ ~sender[s].checked /\ sender[s].max = 0 /\ UNCHANGED wal
    BY DEF Follow, CheckBegin, CheckSkip, CheckEnd, walVars
  <1>2. sender[s].pc = "check" => Held(ref) /\ Match(ref)
    BY DEF PInv, IInv, RefsOK, Working, Held
  <1>3. CASE CheckBegin(s)
    <2>1. PICK rec : Set(s, rec) /\ \/ rec = [sender[s] EXCEPT !.pc = "check", !.found = FALSE]
                                    \/ \E i \in Slots : rec = [sender[s] EXCEPT !.ref = [slot |-> i, num |-> refNum + 1]]
      BY <1>3 DEF CheckBegin
    <2>2. sender'[s] = rec /\ sender[s] \in SenderStates
      BY <2>1, SenderRecord
    <2>3. rec.checked = FALSE /\ rec.max = 0 /\ rec.pc \in {"loop", "check"} /\ (rec.pc = "check" => rec.found = FALSE)
      BY <1>1, <1>3, <2>1, <2>2 DEF SenderStates, CheckBegin
    <2> QED BY <2>2, <2>3 DEF Follow
  <1>4. CASE CheckSkip(s)
    <2> DEFINE rec == [sender[s] EXCEPT !.found = TRUE]
    <2>1. /\ sender[s].pc = "check" /\ NextReady(ref) /\ NextStart(ref) < sender[s].sent /\ UpdateRef(ref)
          /\ Set(s, rec)
      BY <1>4 DEF CheckSkip
    <2>2. sender'[s] = rec /\ sender[s] \in SenderStates /\ ref \in Refs
      BY <2>1, SenderRecord
    <2>3. rec.checked = FALSE /\ rec.max = 0 /\ rec.pc = "check" /\ rec.sent = sender[s].sent /\ rec.ref = ref
      BY <1>1, <2>1, <2>2 DEF SenderStates
    <2> HIDE DEF rec
    <2>4. Covered(s)' = sender[s].sent
      BY <2>2, <2>3 DEF Covered
    <2>5. StartOf(slot[ref.slot].visit + 1) < Covered(s)'
      BY <1>2, <2>1, <2>2, <2>4, ReadyStart
    <2>6. Placed(s)'
      BY <1>1, <1>2, <2>1, <2>2, <2>3, <2>5, StepPlaced
    <2> QED BY <2>2, <2>3, <2>6 DEF Follow
  <1>5. CASE CheckEnd(s)
    <2> DEFINE found == sender[s].found \/ (NextReady(ref) /\ NextStart(ref) <= sender[s].sent)
               rec == [sender[s] EXCEPT !.pc = IF found THEN "queue" ELSE "files", !.checked = found, !.found = FALSE]
    <2>1. sender[s].pc = "check" /\ SetStrong(ref, FALSE) /\ Set(s, rec)
      BY <1>5 DEF CheckEnd
    <2>2. sender'[s] = rec /\ sender[s] \in SenderStates /\ ref \in Refs /\ found \in BOOLEAN
      <3>1. sender'[s] = rec /\ sender[s] \in SenderStates /\ ref \in Refs
        BY <2>1, SenderRecord
      <3>2. sender[s].found \in BOOLEAN
        BY <3>1 DEF SenderStates
      <3>3. found \in BOOLEAN
        BY <3>2, Zenon
      <3> QED BY <3>1, <3>3
    <2>3. /\ rec.checked = found /\ rec.max = 0 /\ rec.pc = IF found THEN "queue" ELSE "files"
          /\ rec.sent = sender[s].sent /\ rec.ref = ref
      <3> HIDE DEF found
      <3> QED BY <1>1, <2>2 DEF SenderStates
    <2>4. CASE ~found
      <3> HIDE DEF rec, found
      <3>1. rec.checked = FALSE /\ rec.pc = "files"
        BY <2>2, <2>3, <2>4
      <3> QED BY <2>2, <2>3, <3>1 DEF Follow
    <2>5. CASE found
      <3>1. Covered(s) = sender[s].sent
        BY <1>1 DEF Covered
      <3>2. Covered(s)' = Covered(s)
        <4> HIDE DEF rec, found
        <4> QED BY <2>2, <2>3, <3>1 DEF Covered
      <3>3. Placed(s)
        <4>1. CASE sender[s].found
          BY <1>2, <2>1, <4>1 DEF Follow
        <4>2. CASE NextReady(ref) /\ NextStart(ref) <= sender[s].sent
          <5> SUFFICES ASSUME NEW n \in Records, n = slot[ref.slot].visit
                       PROVE  StartOf(n) < Covered(s)
            BY DEF Placed
          <5>1. EndOf(n) <= sender[s].sent
            BY <1>2, <2>1, <2>2, <4>2, ReadyStart
          <5>2. StartOf(n) < EndOf(n) /\ StartOf(n) \in Nat /\ EndOf(n) \in Nat
            BY RecordFacts
          <5>3. sender[s].sent \in Nat
            BY <2>2, WalFacts DEF SenderStates, PInv
          <5> QED BY <3>1, <5>1, <5>2, <5>3
        <4> QED BY <2>5, <4>1, <4>2
      <3> HIDE DEF rec, found
      <3>4. Placed(s)'
        BY <1>1, <1>2, <2>1, <2>2, <2>3, <3>2, <3>3, StrongPlaced
      <3>5. rec.checked = TRUE /\ rec.pc = "queue"
        BY <2>2, <2>3, <2>5
      <3> QED BY <2>2, <2>3, <3>4, <3>5 DEF Follow
    <2> QED BY <2>4, <2>5
  <1> QED BY <1>3, <1>4, <1>5

\* polar_send_physical_by_queue.
LEMMA QueueFollow ==
    ASSUME PInv, NEW s \in Senders, Follow(s),
           QueueBegin(s) \/ QueueNothing(s) \/ QueuePop(s) \/ QueueSend(s)
    PROVE  Follow(s)'
  <1> DEFINE ref == sender[s].ref
  <1>1. sender[s].pc \in {"loop", "queue", "next", "pop"} /\ sender[s].checked /\ UNCHANGED wal
        /\ (sender[s].pc = "pop" <=> sender[s].max # 0) /\ (Match(ref) => Placed(s))
    BY DEF Follow, QueueBegin, QueueNothing, QueuePop, QueueSend, walVars
  <1>2. sender[s].pc \in {"next", "pop"} => Held(ref) /\ Match(ref)
    BY DEF PInv, IInv, RefsOK, Working, Held
  <1>3. CASE QueueBegin(s)
    <2>1. CASE Match(ref)
      <3> DEFINE rec == [sender[s] EXCEPT !.pc = "next"]
      <3>1. SetStrong(ref, TRUE) /\ Set(s, rec) /\ sender[s].max = 0
        BY <1>1, <1>3, <2>1 DEF QueueBegin
      <3>2. sender'[s] = rec /\ sender[s] \in SenderStates /\ ref \in Refs
        BY <3>1, SenderRecord
      <3>3. /\ rec.checked = sender[s].checked /\ rec.max = sender[s].max /\ rec.pc = "next"
            /\ rec.sent = sender[s].sent /\ rec.ref = ref
        BY <3>2 DEF SenderStates
      <3> HIDE DEF rec
      <3>4. Covered(s)' = Covered(s)
        BY <3>2, <3>3 DEF Covered
      <3>5. Placed(s)'
        BY <1>1, <2>1, <3>1, <3>2, <3>3, <3>4, StrongPlaced
      <3> QED BY <1>1, <3>1, <3>2, <3>3, <3>5 DEF Follow
    <2>2. CASE ~Match(ref)
      <3> DEFINE rec == [sender[s] EXCEPT !.pc = "files", !.checked = FALSE]
      <3>1. Set(s, rec) /\ sender[s].max = 0
        BY <1>1, <1>3, <2>2 DEF QueueBegin
      <3>2. sender'[s] = rec /\ sender[s] \in SenderStates
        BY <3>1, SenderRecord
      <3>3. rec.checked = FALSE /\ rec.max = sender[s].max /\ rec.pc = "files"
        BY <3>2 DEF SenderStates
      <3> HIDE DEF rec
      <3> QED BY <3>1, <3>2, <3>3 DEF Follow
    <2> QED BY <2>1, <2>2
  <1>4. CASE QueueNothing(s)
    <2> DEFINE rec == [sender[s] EXCEPT !.pc = "loop"]
    <2>1. sender[s].pc = "next" /\ SetStrong(ref, FALSE) /\ Set(s, rec) /\ sender[s].max = 0
      BY <1>1, <1>4 DEF QueueNothing
    <2>2. sender'[s] = rec /\ sender[s] \in SenderStates /\ ref \in Refs
      BY <2>1, SenderRecord
    <2>3. /\ rec.checked = sender[s].checked /\ rec.max = sender[s].max /\ rec.pc = "loop"
          /\ rec.sent = sender[s].sent /\ rec.ref = ref
      BY <2>2 DEF SenderStates
    <2> HIDE DEF rec
    <2>4. Covered(s)' = Covered(s)
      BY <2>2, <2>3 DEF Covered
    <2>5. Placed(s)'
      BY <1>1, <1>2, <2>1, <2>2, <2>3, <2>4, StrongPlaced
    <2> QED BY <1>1, <2>1, <2>2, <2>3, <2>5 DEF Follow
  <1>5. CASE QueuePop(s)
    <2> DEFINE lsn == NextCell(ref).lsn
               rec == [sender[s] EXCEPT !.pc = "pop", !.max = lsn]
    <2>1. sender[s].pc \in {"next", "pop"} /\ NextReady(ref) /\ UpdateRef(ref) /\ Set(s, rec)
      BY <1>5 DEF QueuePop, SenderHasNext
    <2>2. sender'[s] = rec /\ sender[s] \in SenderStates /\ ref \in Refs
      BY <2>1, SenderRecord
    <2>3. rec.checked = sender[s].checked /\ rec.max = lsn /\ rec.pc = "pop" /\ rec.ref = ref
      <3> HIDE DEF lsn
      <3> QED BY <2>2 DEF SenderStates
    <2>4. StartOf(slot[ref.slot].visit + 1) < lsn /\ StartOf(slot[ref.slot].visit + 1) \in Nat /\ lsn \in Nat
      BY <1>2, <2>1, <2>2, ReadyStart
    <2>5. lsn # 0
      <3> DEFINE a == StartOf(slot[ref.slot].visit + 1)
      <3>1. a < lsn /\ a \in Nat /\ lsn \in Nat
        BY <2>4
      <3> HIDE DEF a, lsn
      <3> QED BY <3>1
    <2> HIDE DEF rec, lsn
    <2>6. Covered(s)' = lsn
      BY <2>2, <2>3, <2>5 DEF Covered
    <2>7. Placed(s)'
      BY <1>1, <1>2, <2>1, <2>2, <2>3, <2>4, <2>6, StepPlaced
    <2> QED BY <1>1, <2>2, <2>3, <2>5, <2>7 DEF Follow
  <1>6. CASE QueueSend(s)
    <2> DEFINE max == sender[s].max
               half == [sender[s] EXCEPT !.pc = "loop", !.sent = max]
               rec == [sender[s] EXCEPT !.pc = "loop", !.sent = max, !.last = max, !.max = 0]
    <2>1. sender[s].pc = "pop" /\ SetStrong(ref, FALSE) /\ Set(s, rec) /\ max # 0
      BY <1>1, <1>6 DEF QueueSend
    <2>2. sender'[s] = rec /\ sender[s] \in SenderStates /\ ref \in Refs
      BY <2>1, SenderRecord
    <2>3. rec.checked = sender[s].checked /\ rec.max = 0 /\ rec.pc = "loop" /\ rec.sent = max /\ rec.ref = ref
      <3> DEFINE old == sender[s]
      <3>1. rec = [old EXCEPT !.pc = "loop", !.sent = max, !.last = max, !.max = 0] /\ old \in SenderStates
        BY <2>2
      <3> HIDE DEF old, max, rec
      <3>2. rec = [pc |-> "loop", ref |-> old.ref, checked |-> old.checked, found |-> old.found,
                   sent |-> max, last |-> max, max |-> 0]
        BY <3>1 DEF SenderStates
      <3> QED BY <3>2 DEF old
    <2> HIDE DEF rec
    <2>4. Covered(s)' = Covered(s)
      BY <2>1, <2>2, <2>3 DEF Covered
    <2>5. Placed(s)'
      BY <1>1, <1>2, <2>1, <2>2, <2>3, <2>4, StrongPlaced
    <2> QED BY <1>1, <2>2, <2>3, <2>5 DEF Follow
  <1> QED BY <1>3, <1>4, <1>5, <1>6

LEMMA LoopFollow ==
    ASSUME PInv, NEW s \in Senders, Follow(s), XLogSendPhysicalExt(s) \/ WalSndLoop(s) \/ WalSndExit(s)
    PROVE  Follow(s)'
  <1>1. CASE XLogSendPhysicalExt(s)
    <2>1. PICK upto : Set(s, [sender[s] EXCEPT !.pc = "loop", !.sent = upto])
      BY <1>1 DEF XLogSendPhysicalExt
    <2> DEFINE rec == [sender[s] EXCEPT !.pc = "loop", !.sent = upto]
    <2>2. sender'[s] = rec /\ sender[s] \in SenderStates
      BY <2>1, SenderRecord
    <2>3. rec.pc = "loop" /\ rec.max = sender[s].max /\ rec.checked = sender[s].checked
      BY <2>2 DEF SenderStates
    <2>4. ~sender[s].checked /\ sender[s].max = 0
      BY <1>1 DEF Follow, XLogSendPhysicalExt
    <2> HIDE DEF rec
    <2> QED BY <2>2, <2>3, <2>4 DEF Follow
  <1>2. CASE WalSndLoop(s)
    <2>1. PICK ref, start : Set(s, [Gone EXCEPT !.pc = "loop", !.ref = ref, !.sent = start])
      BY <1>2 DEF WalSndLoop
    <2> DEFINE rec == [Gone EXCEPT !.pc = "loop", !.ref = ref, !.sent = start]
    <2>2. sender'[s] = rec
      BY <2>1, SenderRecord
    <2>3. rec.pc = "loop" /\ rec.max = 0 /\ rec.checked = FALSE
      BY DEF Gone
    <2> HIDE DEF rec
    <2> QED BY <2>2, <2>3 DEF Follow
  <1>3. CASE WalSndExit(s)
    <2>1. sender'[s] = Gone
      BY <1>3, SenderRecord DEF WalSndExit
    <2>2. Gone.pc = "gone" /\ Gone.max = 0 /\ Gone.checked = FALSE
      BY DEF Gone
    <2> QED BY <2>1, <2>2 DEF Follow
  <1> QED BY <1>1, <1>2, <1>3

\* What a step does to slots that are not the stepping process's own.
LEMMA SenderSlots ==
    ASSUME PInv, NEW s \in Senders, SenderStep(s) \/ WalSndLoop(s) \/ WalSndExit(s)
    PROVE  /\ SlotsFollow(0) \/ (SlotsFollow(sender[s].ref.num) /\ sender[s].ref.num # 0)
           /\ \A t \in Senders : t # s => sender'[t] = sender[t]
  <1> DEFINE ref == sender[s].ref
  <1>1. \A t \in Senders : t # s => sender'[t] = sender[t]
    <2>1. \E rec : Set(s, rec)
      BY DEF SenderStep, CheckBegin, CheckSkip, CheckEnd, QueueBegin, QueueNothing, QueuePop, QueueSend,
         XLogSendPhysicalExt, WalSndLoop, WalSndExit
    <2> QED BY <2>1, SenderRecord
  <1>2. ref \in Refs /\ (sender[s].pc \in Working => Held(ref) /\ Match(ref) /\ ref.num # 0)
    <2>1. sender \in [Senders -> SenderStates]
      BY TypeParts DEF PInv, IInv
    <2>2. ref \in Refs
      BY <2>1 DEF SenderStates
    <2> QED BY <2>2 DEF PInv, IInv, RefsOK, Held
  <1>3. CASE UpdateRef(ref) /\ sender[s].pc \in Working
    BY <1>1, <1>2, <1>3, UpdateRefFollow
  <1>4. CASE Match(ref) /\ \E b : SetStrong(ref, b)
    BY <1>1, <1>2, <1>4, SetStrongFollow
  <1>5. CASE \E i \in Slots : NewRef(FALSE, [slot |-> i, num |-> refNum + 1])
    BY <1>1, <1>5, NewRefFollow
  <1>6. CASE ReleaseRef(ref)
    BY <1>1, <1>6, ZeroFollow, SameFollow DEF ReleaseRef
  <1>7. CASE UNCHANGED slot
    BY <1>1, <1>7, SameFollow
  <1>8. \/ UpdateRef(ref) /\ sender[s].pc \in Working
        \/ Match(ref) /\ \E b : SetStrong(ref, b)
        \/ \E i \in Slots : NewRef(FALSE, [slot |-> i, num |-> refNum + 1])
        \/ ReleaseRef(ref) \/ UNCHANGED slot
    <2>1. CASE CheckBegin(s)
      BY <2>1 DEF CheckBegin
    <2>2. CASE CheckSkip(s)
      BY <2>2 DEF CheckSkip, Working
    <2>3. CASE CheckEnd(s)
      BY <1>2, <2>3 DEF CheckEnd, Working
    <2>4. CASE QueueBegin(s)
      BY <2>4 DEF QueueBegin, ringVars
    <2>5. CASE QueueNothing(s)
      BY <1>2, <2>5 DEF QueueNothing, Working
    <2>6. CASE QueuePop(s)
      BY <2>6 DEF QueuePop, Working
    <2>7. CASE QueueSend(s)
      BY <1>2, <2>7 DEF QueueSend, Working
    <2>8. CASE XLogSendPhysicalExt(s)
      BY <2>8 DEF XLogSendPhysicalExt, ringVars
    <2>9. CASE WalSndLoop(s)
      BY <2>9 DEF WalSndLoop
    <2>10. CASE WalSndExit(s)
      BY <2>10 DEF WalSndExit
    <2> QED BY <2>1, <2>2, <2>3, <2>4, <2>5, <2>6, <2>7, <2>8, <2>9, <2>10 DEF SenderStep
  <1> QED BY <1>3, <1>4, <1>5, <1>6, <1>7, <1>8

LEMMA SaverSlots ==
    ASSUME PInv, SaverStep
    PROVE  UNCHANGED sender /\ \E num \in {0, saver.ref.num, saver.keep.num} : SlotsFollow(num)
  <1>0. saver.ref \in Refs /\ saver.keep \in Refs
    BY SaverFacts DEF PInv
  <1>1. CASE SaverAttach
    <2>1. UNCHANGED sender /\ \E i \in Slots : NewRef(TRUE, [slot |-> i, num |-> refNum + 1])
      BY <1>1 DEF SaverAttach
    <2> QED BY <2>1, NewRefFollow
  <1>2. CASE SaverPop
    <2>1. UNCHANGED sender /\ saver.ref # NoRef /\ UpdateRef(saver.ref)
      BY <1>2 DEF SaverPop
    <2>2. Match(saver.ref)
      BY <2>1 DEF PInv, IInv, RefsOK, Held
    <2> QED BY <1>0, <2>1, <2>2, UpdateRefFollow
  <1>3. CASE SaverKeepBegin
    <2>1. UNCHANGED sender /\ ((\E i \in Slots : NewRef(TRUE, [slot |-> i, num |-> refNum + 1])) \/ UNCHANGED slot)
      BY <1>3 DEF SaverKeepBegin, ringVars
    <2> QED BY <2>1, NewRefFollow, SameFollow
  <1>4. CASE SaverKeepStep
    <2>1. UNCHANGED sender /\ saver.keep # NoRef /\ UpdateRef(saver.keep)
      BY <1>4 DEF SaverKeepStep, PInv, SaverOK
    <2>2. Match(saver.keep)
      BY <2>1 DEF PInv, IInv, RefsOK, Held
    <2> QED BY <1>0, <2>1, <2>2, UpdateRefFollow
  <1>5. CASE SaverKeepEnd
    BY <1>5, SameFollow DEF SaverKeepEnd
  <1> QED BY <1>1, <1>2, <1>3, <1>4, <1>5 DEF SaverStep

LEMMA RestSlots ==
    ASSUME PInv, (\E w \in Writers : WriterStep(w) \/ \E len \in Lens : XLogInsertBegin(w, len))
                 \/ FlushStep \/ UNCHANGED vars
    PROVE  UNCHANGED sender /\ SlotsFollow(0)
  <1>1. UNCHANGED sender /\ (UNCHANGED slot \/ FreeUpRound)
    BY DEF vars, ringVars, WriterStep, FlushStep, XLogInsertBegin, ReserveXLogInsertLocation, QueueFull,
       FreeUp, SetLength, CopyXLogRecordToWAL, AdvanceXLInsertBuffer, PushContent, PushFlag, XLogFlushBegin,
       InsertionSeen, XLogWrite, PktReserve, SetPktLength, PktWrite, SetPktFlag
  <1> QED BY <1>1, SameFollow, ZeroFollow DEF FreeUpRound

FollowOK == \A s \in Senders : Follow(s)

LEMMA FollowInit == Init => FollowOK
  <1> SUFFICES ASSUME Init, NEW s \in Senders
               PROVE  Follow(s)
    BY DEF FollowOK
  <1>1. sender[s] = Gone
    BY DEF Init
  <1>2. Gone.pc = "gone" /\ Gone.max = 0 /\ Gone.checked = FALSE
    BY DEF Gone
  <1> QED BY <1>1, <1>2 DEF Follow

LEMMA FollowStep ==
    ASSUME PInv, FollowOK, [Next]_vars
    PROVE  FollowOK'
  <1> SUFFICES ASSUME NEW s \in Senders
               PROVE  Follow(s)'
    BY DEF FollowOK
  <1>1. Follow(s) /\ \A m \in Records : StartOf(m)' = StartOf(m)
    BY EndsStay DEF FollowOK
  <1>2. ASSUME NEW t \in Senders, SenderStep(t) \/ WalSndLoop(t) \/ WalSndExit(t)
        PROVE  Follow(s)'
    <2>1. CASE t = s
      BY <1>1, <1>2, <2>1, CheckFollow, QueueFollow, LoopFollow DEF SenderStep
    <2>2. CASE t # s
      <3>1. sender'[s] = sender[s] /\ (SlotsFollow(0) \/ (SlotsFollow(sender[t].ref.num) /\ sender[t].ref.num # 0))
        BY <1>2, <2>2, SenderSlots
      <3>2. sender[s].ref.num # 0 => sender[s].ref.num # sender[t].ref.num
        BY <2>2 DEF PInv, IInv, RefsOK
      <3> QED BY <1>1, <3>1, <3>2, StaysFollowed
    <2> QED BY <2>1, <2>2
  <1>3. CASE SaverStep
    <2>1. UNCHANGED sender /\ \E num \in {0, saver.ref.num, saver.keep.num} : SlotsFollow(num)
      BY <1>3, SaverSlots
    <2>2. sender[s].ref.num # 0 => sender[s].ref.num \notin {saver.ref.num, saver.keep.num}
      BY DEF PInv, IInv, RefsOK
    <2> QED BY <1>1, <2>1, <2>2, StaysFollowed
  <1>4. CASE (\E w \in Writers : WriterStep(w) \/ \E len \in Lens : XLogInsertBegin(w, len))
             \/ FlushStep \/ UNCHANGED vars
    <2>1. UNCHANGED sender /\ SlotsFollow(0)
      BY <1>4, RestSlots
    <2> QED BY <1>1, <2>1, StaysFollowed
  <1> QED BY <1>2, <1>3, <1>4 DEF Next

LEMMA SameEnd ==
    ASSUME PInv, NEW a \in Records, NEW b \in Records, EndOf(a) = EndOf(b)
    PROVE  a = b
  <1>1. \A x, y \in Records : x < y => EndOf(x) # EndOf(y)
    <2> SUFFICES ASSUME NEW x \in Records, NEW y \in Records, x < y
                 PROVE  EndOf(x) # EndOf(y)
      OBVIOUS
    <2>1. x \in 0 .. Len(wal)
      BY Basics DEF Records
    <2>2. EndOf(x) <= StartOf(y) /\ EndOf(x) \in Nat
      BY <2>1, InOrder, RecordFacts
    <2>3. StartOf(y) < EndOf(y) /\ StartOf(y) \in Nat /\ EndOf(y) \in Nat
      BY RecordFacts
    <2> QED BY <2>2, <2>3
  <1>2. a \in Nat /\ b \in Nat
    BY DEF Records
  <1>3. ~(a < b) /\ ~(b < a)
    BY <1>1
  <1> QED BY <1>2, <1>3

LEMMA SendsNext ==
    ASSUME PInv, FollowOK, [Next]_vars, NEW s \in Senders, NEW n \in Records,
           sender'[s].max = EndOf(n), sender'[s].max # sender[s].max
    PROVE  n = 1 \/ StartOf(n - 1) < Covered(s)
  <1> DEFINE ref == sender[s].ref
             v == slot[ref.slot].visit
  <1>0. EndOf(n) # 0
    <2>1. StartOf(n) < EndOf(n) /\ StartOf(n) \in Nat /\ EndOf(n) \in Nat
      BY RecordFacts
    <2> QED BY <2>1
  <1>1. QueuePop(s)
    <2>1. SenderStep(s) \/ WalSndLoop(s) \/ WalSndExit(s)
      <3>1. CASE UNCHANGED sender
        BY <3>1
      <3>2. ASSUME NEW t \in Senders, SenderStep(t) \/ WalSndLoop(t) \/ WalSndExit(t)
            PROVE  SenderStep(s) \/ WalSndLoop(s) \/ WalSndExit(s)
        BY <3>2, SenderSlots
      <3> QED BY <3>1, <3>2, SaverSlots, RestSlots DEF Next
    <2>2. Follow(s) /\ Follow(s)'
      BY FollowStep DEF FollowOK
    <2>3. sender'[s].pc = "pop"
      BY <1>0, <2>2 DEF Follow
    <2>4. ASSUME NEW rec, Set(s, rec)
          PROVE  sender'[s] = rec /\ sender[s] \in SenderStates
      BY <2>4, SenderRecord
    <2>5. CASE CheckBegin(s)
      <3>1. PICK rec : Set(s, rec) /\ \/ rec = [sender[s] EXCEPT !.pc = "check", !.found = FALSE]
                                      \/ \E i \in Slots : rec = [sender[s] EXCEPT !.ref = [slot |-> i, num |-> refNum + 1]]
        BY <2>5 DEF CheckBegin
      <3>2. sender'[s] = rec /\ sender[s] \in SenderStates /\ sender[s].pc = "loop"
        BY <2>4, <2>5, <3>1 DEF CheckBegin
      <3>3. rec.pc \in {"loop", "check"}
        BY <3>1, <3>2 DEF SenderStates
      <3> QED BY <2>3, <3>2, <3>3
    <2>6. CASE CheckSkip(s)
      BY <2>3, <2>4, <2>6 DEF CheckSkip, SenderStates
    <2>7. CASE CheckEnd(s)
      <3> DEFINE found == sender[s].found \/ (NextReady(ref) /\ NextStart(ref) <= sender[s].sent)
                 rec == [sender[s] EXCEPT !.pc = IF found THEN "queue" ELSE "files", !.checked = found, !.found = FALSE]
      <3>1. Set(s, rec)
        BY <2>7 DEF CheckEnd
      <3>2. sender'[s] = rec /\ sender[s] \in SenderStates
        BY <2>4, <3>1
      <3>3. rec.pc # "pop"
        <4> HIDE DEF found
        <4> QED BY <3>2 DEF SenderStates
      <3> HIDE DEF rec
      <3> QED BY <2>3, <3>2, <3>3
    <2>8. CASE QueueBegin(s)
      <3>1. PICK rec : Set(s, rec) /\ \/ rec = [sender[s] EXCEPT !.pc = "next"]
                                      \/ rec = [sender[s] EXCEPT !.pc = "files", !.checked = FALSE]
        BY <2>8 DEF QueueBegin
      <3>2. sender'[s] = rec /\ sender[s] \in SenderStates
        BY <2>4, <3>1
      <3>3. rec.pc \in {"next", "files"}
        BY <3>1, <3>2 DEF SenderStates
      <3> QED BY <2>3, <3>2, <3>3
    <2>9. CASE QueueNothing(s)
      BY <2>3, <2>4, <2>9 DEF QueueNothing, SenderStates
    <2>10. CASE QueueSend(s)
      <3>1. sender'[s] = [sender[s] EXCEPT !.pc = "loop", !.sent = sender[s].max, !.last = sender[s].max, !.max = 0]
            /\ sender[s] \in SenderStates
        BY <2>4, <2>10 DEF QueueSend
      <3> DEFINE old == sender[s]
                 m == sender[s].max
      <3>2. sender'[s] = [old EXCEPT !.pc = "loop", !.sent = m, !.last = m, !.max = 0] /\ old \in SenderStates
        BY <3>1
      <3> HIDE DEF old, m
      <3>3. sender'[s].pc = "loop"
        BY <3>2 DEF SenderStates
      <3> QED BY <2>3, <3>3
    <2>11. CASE XLogSendPhysicalExt(s)
      <3>1. PICK upto : Set(s, [sender[s] EXCEPT !.pc = "loop", !.sent = upto])
        BY <2>11 DEF XLogSendPhysicalExt
      <3>2. sender'[s] = [sender[s] EXCEPT !.pc = "loop", !.sent = upto] /\ sender[s] \in SenderStates
        BY <2>4, <3>1
      <3>3. sender'[s].pc = "loop"
        BY <3>2 DEF SenderStates
      <3> QED BY <2>3, <3>3
    <2>12. CASE WalSndLoop(s)
      <3>1. PICK r, start : Set(s, [Gone EXCEPT !.pc = "loop", !.ref = r, !.sent = start])
        BY <2>12 DEF WalSndLoop
      <3>2. sender'[s] = [Gone EXCEPT !.pc = "loop", !.ref = r, !.sent = start]
        BY <2>4, <3>1
      <3>3. sender'[s].pc = "loop"
        BY <3>2 DEF Gone
      <3> QED BY <2>3, <3>3
    <2>13. CASE WalSndExit(s)
      BY <2>3, <2>4, <2>13 DEF WalSndExit, Gone
    <2> QED BY <2>1, <2>5, <2>6, <2>7, <2>8, <2>9, <2>10, <2>11, <2>12, <2>13 DEF SenderStep
  <1>2. /\ sender[s].pc \in {"next", "pop"} /\ NextReady(ref)
        /\ Set(s, [sender[s] EXCEPT !.pc = "pop", !.max = NextCell(ref).lsn])
    BY <1>1 DEF QueuePop, SenderHasNext
  <1>3. sender[s] \in SenderStates /\ ref \in Refs /\ sender'[s].max = NextCell(ref).lsn
    <2> DEFINE lsn == NextCell(ref).lsn
    <2>1. sender'[s] = [sender[s] EXCEPT !.pc = "pop", !.max = lsn] /\ sender[s] \in SenderStates /\ ref \in Refs
      BY <1>2, SenderRecord
    <2> HIDE DEF lsn
    <2>2. sender'[s].max = lsn
      BY <2>1 DEF SenderStates
    <2> QED BY <2>1, <2>2 DEF lsn
  <1>4. Held(ref) /\ Match(ref) /\ sender[s].checked
    BY <1>2 DEF PInv, IInv, RefsOK, Working, Held, FollowOK, Follow
  <1>5. v + 1 \in Records /\ (v + 1) - 1 = v /\ NextCell(ref).lsn = EndOf(v + 1)
    BY <1>2, <1>3, <1>4, ReadyStart
  <1>6. n = v + 1
    BY <1>3, <1>5, SameEnd
  <1>7. v \in Nat /\ v \in 0 .. Len(wal)
    BY <1>3, <1>4, HeldFacts, SlotFacts
  <1>8. CASE v = 0
    BY <1>6, <1>8
  <1>9. CASE v # 0
    <2>1. v \in Records
      <3>1. Len(wal) \in Nat
        BY Basics
      <3> HIDE DEF v
      <3> QED BY <1>7, <1>9, <3>1 DEF Records
    <2>2. StartOf(v) < Covered(s)
      BY <1>4, <2>1 DEF FollowOK, Follow, Placed
    <2> QED BY <1>5, <1>6, <2>2
  <1> QED BY <1>8, <1>9

\* polar_xlog_send: however often a walsender loses its reference, makes a new one
\* and changes between announcing positions and sending packets, it sends the
\* packet of a record only when its replica knows of the record before.
THEOREM SendersLeaveNoGap ==
    ASSUME KeepsEnough
    PROVE  Spec => NoGap
  <1>1. FollowOK /\ PInv /\ [Next]_vars => FollowOK'
    BY FollowStep
  <1>2. FollowOK /\ PInv /\ [Next]_vars =>
          [\A s \in Senders : \A n \in Records :
             (sender'[s].max = EndOf(n) /\ sender'[s].max # sender[s].max) =>
                n = 1 \/ StartOf(n - 1) < Covered(s)]_vars
    BY SendsNext
  <1> QED BY <1>1, <1>2, FollowInit, PacketInvariance, PTL DEF Spec, NoGap

===========================================================================
