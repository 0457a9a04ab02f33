-------------------------- MODULE XlogQueueProofs -------------------------
(***************************************************************************)
(* Proofs about the WAL queue, for any ring, numbers of slots, inserters   *)
(* and walsenders: its types, and that nobody who works with a reference   *)
(* has it taken away.                                                      *)
(***************************************************************************)
EXTENDS XlogQueue, WellFoundedInduction, TLAPS

(***************************************************************************)
(* The inductive invariant.                                                *)
(***************************************************************************)

\* No record ends past the insert position.
EndsOK == \A i \in Records : wal[i].end <= InsertLsn

\* The slot belongs to the handle and cannot be evicted.
Held(ref) == ref.num # 0 /\ Match(ref) /\ slot[ref.slot].strong

Working == {"check", "next", "pop"}

\* A writer that still has to reserve its record knows the record's length.
LensOK == \A w \in Writers : writer[w].pc \in {"reserve", "freeup"} => writer[w].len \in Lens

\* Slots carry numbers of references that were made.
NumsOK == \A i \in Slots : slot[i].num <= refNum

\* References are numbered in the order they were made, nobody has the number of
\* another, and whoever works with a reference, as the saver always does, holds it.
RefsOK ==
    /\ NumsOK
    /\ saver.ref.num <= refNum /\ saver.keep.num <= refNum
    /\ saver.ref # NoRef => Held(saver.ref)
    /\ saver.keep # NoRef => Held(saver.keep)
    /\ \A s \in Senders :
         /\ sender[s].ref.num <= refNum
         /\ sender[s].pc # "gone" => sender[s].ref.num # 0
         /\ sender[s].ref.num # 0 => sender[s].ref.num \notin {saver.ref.num, saver.keep.num}
         /\ sender[s].pc \in Working => Held(sender[s].ref)
         /\ \A t \in Senders : sender[s].ref.num # 0 /\ sender[s].ref.num = sender[t].ref.num => s = t

IInv == TypeOK /\ EndsOK /\ LensOK /\ RefsOK

(***************************************************************************)
(* Facts about the operators.                                              *)
(***************************************************************************)

LEMMA LeastNat ==
    ASSUME NEW S, S \subseteq Nat, S # {}
    PROVE  \E m \in S : \A k \in S : m <= k
  <1> DEFINE R == OpToRel(<, Nat)
  <1>1. IsWellFoundedOn(R, Nat)
    BY NatLessThanWellFounded
  <1>2. \A k, m \in Nat : k < m => <<k, m>> \in R
    BY DEF OpToRel
  <1> HIDE DEF R
  <1>3. PICK m \in S : \A k \in S : ~ (<<k, m>> \in R)
    BY <1>1, WFMin
  <1>4. ASSUME NEW k \in S
        PROVE  m <= k
    <2>1. k \in Nat /\ m \in Nat
      OBVIOUS
    <2>2. ~ (k < m)
      BY <1>2, <1>3, <2>1, Zenon
    <2> QED BY <2>1, <2>2
  <1> QED BY <1>4

\* The scan over the slots finds the one furthest behind.
LEMMA LeastVisitedFacts ==
    ASSUME NEW s, \A i \in Slots : s[i].visit \in Nat, NEW S, S \subseteq Slots, S # {}
    PROVE  LeastVisited(s, S) \in S /\ \A j \in S : s[LeastVisited(s, S)].visit <= s[j].visit
  <1> DEFINE V == {s[i].visit : i \in S}
  <1>1. V \subseteq Nat /\ V # {}
    OBVIOUS
  <1>2. PICK v \in V : \A k \in V : v <= k
    BY <1>1, LeastNat
  <1> DEFINE T == {i \in S : s[i].visit = v}
  <1>3. T \subseteq Nat /\ T # {}
    BY SlotsAssumption
  <1>4. PICK i \in T : \A k \in T : i <= k
    BY <1>3, LeastNat
  <1>5. ASSUME NEW j \in S
        PROVE  s[i].visit < s[j].visit \/ (s[i].visit = s[j].visit /\ i <= j)
    <2>1. s[i].visit = v /\ v <= s[j].visit /\ v \in Nat /\ s[j].visit \in Nat
      BY <1>1, <1>2
    <2>2. CASE s[j].visit = v
      BY <1>4, <2>1, <2>2
    <2>3. CASE s[j].visit # v
      BY <2>1, <2>3
    <2> QED BY <2>2, <2>3
  <1> DEFINE P(m) == \A j \in S : s[m].visit < s[j].visit \/ (s[m].visit = s[j].visit /\ m <= j)
             L == LeastVisited(s, S)
  <1>6. \E m \in S : P(m)
    BY <1>4, <1>5
  <1>7. L = CHOOSE m \in S : P(m)
    BY DEF LeastVisited
  <1> HIDE DEF P, L
  <1>8. L \in S /\ P(L)
    BY <1>6, <1>7
  <1>9. ASSUME NEW j \in S
        PROVE  s[L].visit <= s[j].visit
    <2>1. s[L].visit < s[j].visit \/ s[L].visit = s[j].visit
      BY <1>8 DEF P
    <2>2. s[L].visit \in Nat /\ s[j].visit \in Nat
      BY <1>8
    <2> QED BY <2>1, <2>2
  <1> QED BY <1>8, <1>9 DEF L

\* A position modulo the size of the ring is a position.
LEMMA Wraps ==
    ASSUME NEW n \in Int
    PROVE  n % Size \in Positions
  BY SizeAssumption DEF Positions

\* The parts of the type invariant.
WalRecords == [end : Nat, len : Lens, done : BOOLEAN]
WriterStates ==
    [pc : {"idle", "reserve", "freeup", "reserved", "copy", "push", "flag"},
     len : Lens \cup {0}, n : 0 .. Len(wal), idx : Positions]
SaverStates ==
    [pc : {"pop", "keep"}, ref : Refs, keep : Refs, moved : BOOLEAN, saved : 0 .. flush, count : Nat]
SenderStates ==
    [pc : {"gone", "loop", "check", "queue", "next", "pop", "files"}, ref : Refs,
     checked : BOOLEAN, found : BOOLEAN, sent : 0 .. flush, last : 0 .. flush, max : 0 .. flush]
WaitStates == [upto : 0 .. InsertLsn, seen : SUBSET Writers]
SlotStates == [strong : BOOLEAN, pread : Positions, visit : Nat, num : Nat]

\* Ends of records are LSNs up to the insert position.
LEMMA EndFacts ==
    ASSUME TypeOK, EndsOK
    PROVE  /\ InsertLsn \in Nat /\ Len(wal) \in Nat
           /\ \A n \in 0 .. Len(wal) : EndOf(n) \in Nat /\ EndOf(n) <= InsertLsn
  <1>1. Len(wal) \in Nat /\ \A i \in 1 .. Len(wal) : wal[i].end \in Nat
    <2>1. wal \in Seq(WalRecords)
      BY DEF TypeOK, WalRecords
    <2>2. \A x \in WalRecords : x.end \in Nat
      BY DEF WalRecords
    <2>3. Len(wal) \in Nat /\ \A i \in 1 .. Len(wal) : wal[i] \in WalRecords
      BY <2>1
    <2> QED BY <2>2, <2>3
  <1>2. InsertLsn \in Nat
    BY <1>1 DEF InsertLsn, EndOf
  <1> QED BY <1>1, <1>2 DEF EndsOK, Records, EndOf

(***************************************************************************)
(* What one critical section of the ring does to the references.           *)
(***************************************************************************)

\* The step leaves the slot with the handle.
HeldAfter(r) == r.num # 0 /\ r.slot \in Slots /\ slot'[r.slot].num = r.num /\ slot'[r.slot].strong

\* Every handle that holds its slot, but the one with this number, keeps it.
KeptBut(num) == \A r \in Refs : Held(r) /\ r.num # num => Held(r)'

\* Two handles that hold their slots hold different ones.
LEMMA SlotsApart ==
    ASSUME NEW r, NEW q, Match(r), Match(q), r.num # q.num
    PROVE  r.slot # q.slot
  BY DEF Match

LEMMA NewRefFacts ==
    ASSUME RingTypeOK, NumsOK, NEW strong \in BOOLEAN, NEW i \in Slots, NEW ref,
           ref = [slot |-> i, num |-> refNum + 1], NewRef(strong, ref)
    PROVE  /\ RingTypeOK' /\ NumsOK' /\ KeptBut(0)
           /\ ref \in Refs /\ ref.num = refNum' /\ refNum' = refNum + 1
           /\ strong => HeldAfter(ref)
  <1> DEFINE new == [strong |-> strong, pread |-> pread, visit |-> minVisit, num |-> ref.num]
  <1>1. slot \in [Slots -> SlotStates] /\ refNum \in Nat
    BY DEF RingTypeOK, SlotStates
  <1>2. refNum' = refNum + 1 /\ ref.num = refNum + 1 /\ ref.slot = i /\ slot[i].num = 0
    BY DEF NewRef, Occupied
  <1>3. slot' = [slot EXCEPT ![i] = new] /\ UNCHANGED <<cells, pread, pwrite, minVisit>>
    BY <1>2 DEF NewRef
  <1>4. new \in SlotStates
    BY <1>1, <1>2 DEF SlotStates, RingTypeOK
  <1>5. slot' \in [Slots -> SlotStates] /\ slot'[i] = new /\ \A j \in Slots : j # i => slot'[j] = slot[j]
    BY <1>1, <1>3, <1>4
  <1>6. RingTypeOK'
    BY <1>2, <1>3, <1>5 DEF RingTypeOK, SlotStates
  <1>7. NumsOK'
    <2> SUFFICES ASSUME NEW j \in Slots
                 PROVE  slot'[j].num <= refNum'
      BY DEF NumsOK
    <2>1. slot[j].num \in Nat /\ slot[j].num <= refNum
      BY <1>1 DEF NumsOK, SlotStates
    <2> QED BY <1>1, <1>2, <1>5, <2>1
  <1>8. KeptBut(0)
    <2> SUFFICES ASSUME NEW r \in Refs, Held(r), r.num # 0
                 PROVE  Held(r)'
      BY DEF KeptBut
    <2>1. r.slot \in Slots /\ r.slot # i
      BY <1>2 DEF Held, Match
    <2> QED BY <1>5, <2>1 DEF Held, Match
  <1>9. ref \in Refs
    BY <1>1 DEF Refs
  <1>10. strong => HeldAfter(ref)
    BY <1>1, <1>2, <1>5 DEF HeldAfter
  <1> QED BY <1>2, <1>6, <1>7, <1>8, <1>9, <1>10

LEMMA UpdateRefFacts ==
    ASSUME RingTypeOK, NumsOK, NEW ref \in Refs, UpdateRef(ref)
    PROVE  RingTypeOK' /\ NumsOK' /\ refNum' = refNum /\ (\A r \in Refs : Held(r) => Held(r)')
  <1>1. CASE ref.slot \in Slots
    <2> DEFINE i == ref.slot
               p == (slot[i].pread + NextCell(ref).len) % Size
               new == [slot[i] EXCEPT !.pread = p, !.visit = slot[i].visit + 1]
    <2>1. slot \in [Slots -> SlotStates] /\ refNum \in Nat /\ i \in Slots
      BY <1>1 DEF RingTypeOK, SlotStates
    <2>2. slot[i] \in SlotStates
      BY <2>1
    <2>3. NextCell(ref).len \in Nat
      BY <2>2 DEF NextCell, SlotStates, RingTypeOK
    <2>4. p \in Positions
      <3>1. slot[i].pread \in Int
        BY <2>2, SizeAssumption DEF SlotStates, Positions
      <3> QED BY <2>3, <3>1, Wraps
    <2> HIDE DEF p
    <2>5. slot' = [slot EXCEPT ![i] = new] /\ UNCHANGED <<cells, pread, pwrite, minVisit, refNum>>
      BY <2>1 DEF UpdateRef, p
    <2>6. new \in SlotStates /\ new.num = slot[i].num /\ new.strong = slot[i].strong
      <3> DEFINE old == slot[i]
      <3>1. old \in SlotStates
        BY <2>2
      <3>2. new = [old EXCEPT !.pread = p, !.visit = old.visit + 1]
        OBVIOUS
      <3> HIDE DEF old, new
      <3>3. old.strong \in BOOLEAN /\ old.visit + 1 \in Nat /\ old.num \in Nat
        BY <3>1 DEF SlotStates
      <3>4. new = [strong |-> old.strong, pread |-> p, visit |-> old.visit + 1, num |-> old.num]
        BY <3>1, <3>2 DEF SlotStates
      <3>5. new \in SlotStates /\ new.num = old.num /\ new.strong = old.strong
        BY <2>4, <3>3, <3>4 DEF SlotStates
      <3> QED BY <3>5 DEF old
    <2> HIDE DEF new
    <2>7. slot' \in [Slots -> SlotStates] /\ slot'[i] = new /\ \A j \in Slots : j # i => slot'[j] = slot[j]
      BY <2>1, <2>5, <2>6
    <2>8. RingTypeOK'
      BY <2>5, <2>7 DEF RingTypeOK, SlotStates
    <2>9. \A j \in Slots : slot'[j].num = slot[j].num /\ slot'[j].strong = slot[j].strong
      BY <2>6, <2>7
    <2> QED BY <2>5, <2>8, <2>9 DEF NumsOK, Held, Match
  <1>2. CASE ref.slot \notin Slots
    <2>1. UNCHANGED <<cells, pread, pwrite, slot, minVisit, refNum>>
      BY <1>2 DEF UpdateRef, RingTypeOK
    <2> QED BY <2>1 DEF RingTypeOK, NumsOK, Held, Match
  <1> QED BY <1>1, <1>2

LEMMA SetStrongFacts ==
    ASSUME RingTypeOK, NumsOK, NEW ref \in Refs, Match(ref), NEW b \in BOOLEAN, SetStrong(ref, b)
    PROVE  /\ RingTypeOK' /\ NumsOK' /\ refNum' = refNum /\ KeptBut(ref.num)
           /\ b /\ ref.num # 0 => HeldAfter(ref)
  <1> DEFINE i == ref.slot
             new == [slot[i] EXCEPT !.strong = b]
  <1>1. slot \in [Slots -> SlotStates] /\ refNum \in Nat /\ i \in Slots
    BY DEF RingTypeOK, SlotStates, Match
  <1>2. slot' = [slot EXCEPT ![i] = new] /\ UNCHANGED <<cells, pread, pwrite, minVisit, refNum>>
    BY <1>1 DEF SetStrong
  <1>3. new \in SlotStates /\ new.num = slot[i].num /\ new.strong = b
    BY <1>1 DEF SlotStates
  <1> HIDE DEF new
  <1>4. slot' \in [Slots -> SlotStates] /\ slot'[i] = new /\ \A j \in Slots : j # i => slot'[j] = slot[j]
    BY <1>1, <1>2, <1>3
  <1>5. RingTypeOK'
    BY <1>2, <1>4 DEF RingTypeOK, SlotStates
  <1>6. \A j \in Slots : slot'[j].num = slot[j].num
    BY <1>3, <1>4
  <1>7. KeptBut(ref.num)
    <2> SUFFICES ASSUME NEW r \in Refs, Held(r), r.num # ref.num
                 PROVE  Held(r)'
      BY DEF KeptBut
    <2>1. r.slot \in Slots /\ r.slot # i
      BY SlotsApart DEF Held, Match
    <2> QED BY <1>4, <2>1 DEF Held, Match
  <1>8. b /\ ref.num # 0 => HeldAfter(ref)
    BY <1>1, <1>3, <1>4 DEF HeldAfter, Match
  <1> QED BY <1>2, <1>5, <1>6, <1>7, <1>8 DEF NumsOK

\* polar_ringbuf_update_pread leaves the least read position on a slot.
LEMMA UpdatePreadFacts ==
    ASSUME RingTypeOK, NEW s \in [Slots -> SlotStates], UpdatePread(s)
    PROVE  pread' \in Positions /\ minVisit' \in Nat
  <1>1. CASE PreadMoves(s)
    <2> DEFINE m == LeastVisited(s, Occupied(s))
    <2>1. \A i \in Slots : s[i].visit \in Nat /\ s[i].pread \in Positions
      BY DEF SlotStates
    <2>2. Occupied(s) # {} /\ Occupied(s) \subseteq Slots
      BY <1>1 DEF PreadMoves, Occupied
    <2>3. m \in Slots
      BY <2>1, <2>2, LeastVisitedFacts
    <2>4. minVisit' = s[m].visit /\ pread' = s[m].pread
      BY <1>1 DEF UpdatePread
    <2> QED BY <2>1, <2>3, <2>4
  <1>2. CASE ~PreadMoves(s)
    BY <1>2 DEF UpdatePread, RingTypeOK
  <1> QED BY <1>1, <1>2

\* A slot is given back.
LEMMA ZeroFacts ==
    ASSUME RingTypeOK, NumsOK, NEW i \in Slots, slot' = [slot EXCEPT ![i] = ZeroSlot], refNum' = refNum
    PROVE  /\ slot' \in [Slots -> SlotStates] /\ NumsOK'
           /\ \A r \in Refs : Held(r) /\ r.slot # i => Held(r)'
  <1>1. slot \in [Slots -> SlotStates] /\ refNum \in Nat
    BY DEF RingTypeOK, SlotStates
  <1>2. ZeroSlot \in SlotStates /\ ZeroSlot.num = 0
    BY SizeAssumption DEF ZeroSlot, SlotStates, Positions
  <1>3. slot' \in [Slots -> SlotStates] /\ slot'[i] = ZeroSlot /\ \A j \in Slots : j # i => slot'[j] = slot[j]
    BY <1>1, <1>2
  <1>4. NumsOK'
    BY <1>1, <1>2, <1>3 DEF NumsOK
  <1>5. \A r \in Refs : Held(r) /\ r.slot # i => Held(r)'
    BY <1>3 DEF Held, Match
  <1> QED BY <1>3, <1>4, <1>5

LEMMA ReleaseRefFacts ==
    ASSUME RingTypeOK, NumsOK, NEW ref \in Refs, ReleaseRef(ref)
    PROVE  RingTypeOK' /\ NumsOK' /\ refNum' = refNum /\ KeptBut(ref.num)
  <1>1. UNCHANGED <<cells, pwrite, refNum>>
    BY DEF ReleaseRef
  <1>2. CASE Match(ref)
    <2>1. slot' = [slot EXCEPT ![ref.slot] = ZeroSlot] /\ UpdatePread(slot')
      BY <1>2 DEF ReleaseRef
    <2>2. ref.slot \in Slots
      BY <1>2 DEF Match
    <2>3. /\ slot' \in [Slots -> SlotStates] /\ NumsOK'
          /\ \A r \in Refs : Held(r) /\ r.slot # ref.slot => Held(r)'
      BY <1>1, <2>1, <2>2, ZeroFacts
    <2>4. pread' \in Positions /\ minVisit' \in Nat
      BY <2>1, <2>3, UpdatePreadFacts
    <2>5. KeptBut(ref.num)
      BY <1>2, <2>3, SlotsApart DEF KeptBut, Held
    <2> QED BY <1>1, <2>3, <2>4, <2>5 DEF RingTypeOK, SlotStates
  <1>3. CASE ~Match(ref)
    <2>1. UNCHANGED <<slot, pread, minVisit>>
      BY <1>3 DEF ReleaseRef
    <2> QED BY <1>1, <2>1 DEF RingTypeOK, NumsOK, KeptBut, Held, Match
  <1> QED BY <1>2, <1>3

\* A writer that looks for space takes weak references only.
LEMMA FreeUpFacts ==
    ASSUME RingTypeOK, NumsOK, FreeUpRound
    PROVE  RingTypeOK' /\ NumsOK' /\ refNum' = refNum /\ (\A r \in Refs : Held(r) => Held(r)')
  <1>1. UNCHANGED <<cells, pwrite, refNum>>
    BY DEF FreeUpRound
  <1>s. slot \in [Slots -> SlotStates]
    BY DEF RingTypeOK, SlotStates
  <1>2. CASE UpdatePread(slot) /\ UNCHANGED slot
    <2>1. pread' \in Positions /\ minVisit' \in Nat
      BY <1>2, <1>s, UpdatePreadFacts
    <2> QED BY <1>1, <1>2, <2>1 DEF RingTypeOK, NumsOK, Held, Match
  <1>3. ASSUME NEW m \in Evictable, slot' = [slot EXCEPT ![m] = ZeroSlot], UNCHANGED <<pread, minVisit>>
        PROVE  RingTypeOK' /\ NumsOK' /\ (\A r \in Refs : Held(r) => Held(r)')
    <2> DEFINE weak == {i \in Occupied(slot) : ~slot[i].strong}
    <2>1. weak # {} /\ m = LeastVisited(slot, weak)
      BY DEF Evictable
    <2>2. weak \subseteq Slots /\ \A i \in Slots : slot[i].visit \in Nat
      BY <1>s DEF Occupied, SlotStates
    <2>3. m \in weak
      BY <2>1, <2>2, LeastVisitedFacts
    <2>4. m \in Slots /\ ~slot[m].strong
      BY <2>3 DEF Occupied
    <2>5. /\ slot' \in [Slots -> SlotStates] /\ NumsOK'
          /\ \A r \in Refs : Held(r) /\ r.slot # m => Held(r)'
      BY <1>1, <1>3, <2>4, ZeroFacts
    <2>6. \A r \in Refs : Held(r) => r.slot # m
      BY <2>4 DEF Held
    <2> QED BY <1>1, <1>3, <2>5, <2>6 DEF RingTypeOK, SlotStates
  <1> QED BY <1>1, <1>2, <1>3 DEF FreeUpRound

(***************************************************************************)
(* The steps of a process leave the others' references alone.              *)
(***************************************************************************)

\* The type invariant is the conjunction of its parts.
LEMMA TypeParts ==
    TypeOK <=> /\ RingTypeOK /\ wal \in Seq(WalRecords)
               /\ written \in 0 .. InsertLsn /\ flush \in 0 .. written
               /\ wait \in [Waiters -> WaitStates]
               /\ writer \in [Writers -> WriterStates]
               /\ saver \in SaverStates
               /\ sender \in [Senders -> SenderStates]
  BY DEF TypeOK, WalRecords, WaitStates, WriterStates, SaverStates, SenderStates

LEMMA SenderKeeps ==
    ASSUME IInv, NEW s \in Senders, NEW rec \in SenderStates, Set(s, rec),
           UNCHANGED <<walVars, writer, saver>>,
           RingTypeOK', NumsOK', refNum' \in {refNum, refNum + 1}, KeptBut(sender[s].ref.num),
           \/ rec.ref = sender[s].ref
           \/ rec.ref = NoRef
           \/ rec.ref.num = refNum + 1 /\ refNum' = refNum + 1,
           rec.pc # "gone" => rec.ref.num # 0,
           rec.pc \in Working => HeldAfter(rec.ref)
    PROVE  IInv'
  <1>1. sender \in [Senders -> SenderStates] /\ saver \in SaverStates /\ refNum \in Nat
    BY TypeParts DEF IInv, RingTypeOK
  <1>2. /\ sender' \in [Senders -> SenderStates] /\ sender'[s] = rec
        /\ \A t \in Senders : t # s => sender'[t] = sender[t]
    BY <1>1 DEF Set
  <1>3. UNCHANGED <<wal, written, flush, wait, writer, saver>>
    BY DEF walVars
  <1>4. TypeOK'
    <2>1. WalRecords' = WalRecords /\ WriterStates' = WriterStates /\ SaverStates' = SaverStates
          /\ SenderStates' = SenderStates /\ WaitStates' = WaitStates /\ InsertLsn' = InsertLsn
      BY <1>3 DEF WalRecords, WriterStates, SaverStates, SenderStates, WaitStates, InsertLsn, EndOf
    <2> QED BY <1>2, <1>3, <2>1, TypeParts DEF IInv, TypeOK, WalRecords, WriterStates,
               SaverStates, SenderStates, WaitStates
  <1>5. EndsOK' /\ LensOK'
    BY <1>3 DEF IInv, EndsOK, Records, InsertLsn, EndOf, LensOK
  <1>6. /\ \A t \in Senders : sender[t].ref \in Refs /\ sender[t].ref.num \in Nat
        /\ saver.ref \in Refs /\ saver.keep \in Refs /\ rec.ref \in Refs
        /\ saver.ref.num \in Nat /\ saver.keep.num \in Nat /\ rec.ref.num \in Nat
    <2>1. \A t \in Senders : sender[t].ref \in Refs
      BY <1>1 DEF SenderStates
    <2>2. saver.ref \in Refs /\ saver.keep \in Refs /\ rec.ref \in Refs
      BY <1>1 DEF SaverStates, SenderStates
    <2>3. \A r \in Refs : r.num \in Nat
      BY DEF Refs
    <2> QED BY <2>1, <2>2, <2>3
  <1>7. RefsOK
    BY DEF IInv
  <1>8. /\ saver'.ref.num <= refNum' /\ saver'.keep.num <= refNum'
        /\ saver'.ref # NoRef => Held(saver.ref)'
        /\ saver'.keep # NoRef => Held(saver.keep)'
    <2>1. saver.ref.num <= refNum /\ saver.keep.num <= refNum
      BY <1>7 DEF RefsOK
    <2>2. ASSUME NEW r \in Refs, r \in {saver.ref, saver.keep}, r # NoRef
          PROVE  Held(r)'
      <3>1. Held(r)
        BY <1>7, <2>2 DEF RefsOK
      <3>2. r.num # 0
        BY <3>1 DEF Held
      <3>3. r.num # sender[s].ref.num
        BY <1>7, <2>2, <3>2 DEF RefsOK
      <3> QED BY <3>1, <3>3 DEF KeptBut
    <2>3. saver.ref # NoRef => Held(saver.ref)'
      BY <1>6, <2>2
    <2>4. saver.keep # NoRef => Held(saver.keep)'
      BY <1>6, <2>2
    <2> QED BY <1>1, <1>3, <1>6, <2>1, <2>3, <2>4 DEF Held, Match
  <1>9. ASSUME NEW t \in Senders
        PROVE  /\ sender'[t].ref.num <= refNum'
               /\ sender'[t].pc # "gone" => sender'[t].ref.num # 0
               /\ sender'[t].ref.num # 0 => sender'[t].ref.num \notin {saver'.ref.num, saver'.keep.num}
               /\ sender'[t].pc \in Working => Held(sender[t].ref)'
    <2>1. /\ sender[t].ref.num <= refNum
          /\ sender[t].pc # "gone" => sender[t].ref.num # 0
          /\ sender[t].ref.num # 0 => sender[t].ref.num \notin {saver.ref.num, saver.keep.num}
          /\ sender[t].pc \in Working => Held(sender[t].ref)
      BY <1>7 DEF RefsOK
    <2>2. CASE t = s
      <3>1. rec.ref.num <= refNum'
        BY <1>1, <1>6, <2>1, <2>2 DEF NoRef
      <3>2. rec.ref.num # 0 => rec.ref.num \notin {saver.ref.num, saver.keep.num}
        BY <1>1, <1>6, <1>7, <2>1, <2>2 DEF NoRef, RefsOK
      <3> QED BY <1>2, <1>3, <2>2, <3>1, <3>2 DEF Held, Match, HeldAfter
    <2>3. CASE t # s
      <3>1. sender'[t] = sender[t]
        BY <1>2, <2>3
      <3>2. sender[t].ref.num <= refNum'
        BY <1>1, <1>6, <2>1
      <3>3. ASSUME sender[t].pc \in Working
            PROVE  Held(sender[t].ref)'
        <4>1. Held(sender[t].ref)
          BY <2>1, <3>3
        <4>2. sender[t].ref.num # sender[s].ref.num
          BY <1>7, <2>3, <4>1 DEF RefsOK, Held
        <4>3. \A r \in Refs : Held(r) /\ r.num # sender[s].ref.num =>
                 r.num # 0 /\ r.slot \in Slots /\ slot'[r.slot].num = r.num /\ slot'[r.slot].strong
          BY DEF KeptBut, Held, Match
        <4> QED BY <1>6, <3>1, <4>1, <4>2, <4>3 DEF Held, Match
      <3> QED BY <1>3, <2>1, <3>1, <3>2, <3>3
    <2> QED BY <2>2, <2>3
  <1>10. ASSUME NEW t \in Senders, NEW u \in Senders,
                sender'[t].ref.num # 0, sender'[t].ref.num = sender'[u].ref.num
         PROVE  t = u
    <2>1. \A x \in Senders : sender[x].ref.num <= refNum
      BY <1>7 DEF RefsOK
    <2>2. \A x, y \in Senders : sender[x].ref.num # 0 /\ sender[x].ref.num = sender[y].ref.num => x = y
      BY <1>7 DEF RefsOK
    <2>3. CASE rec.ref = sender[s].ref
      BY <1>2, <1>10, <2>2, <2>3
    <2>4. CASE rec.ref = NoRef
      BY <1>2, <1>10, <2>2, <2>4 DEF NoRef
    <2>5. CASE rec.ref.num = refNum + 1
      BY <1>1, <1>2, <1>6, <1>10, <2>1, <2>2, <2>5
    <2> QED BY <2>3, <2>4, <2>5
  <1>11. RefsOK'
    BY <1>8, <1>9, <1>10 DEF RefsOK
  <1> QED BY <1>4, <1>5, <1>11 DEF IInv

LEMMA SaverKeeps ==
    ASSUME IInv, NEW rec \in SaverStates, saver' = rec, UNCHANGED <<walVars, writer, sender>>,
           RingTypeOK', NumsOK', refNum' \in {refNum, refNum + 1}, KeptBut(0),
           \/ rec.ref = saver.ref
           \/ rec.ref.num = refNum + 1 /\ refNum' = refNum + 1 /\ HeldAfter(rec.ref),
           \/ rec.keep = saver.keep
           \/ rec.keep.num = refNum + 1 /\ refNum' = refNum + 1 /\ HeldAfter(rec.keep)
    PROVE  IInv'
  <1>1. sender \in [Senders -> SenderStates] /\ saver \in SaverStates /\ refNum \in Nat
    BY TypeParts DEF IInv, RingTypeOK
  <1>2. UNCHANGED <<wal, written, flush, wait, writer, sender>>
    BY DEF walVars
  <1>3. TypeOK'
    <2>1. WalRecords' = WalRecords /\ WriterStates' = WriterStates /\ SaverStates' = SaverStates
          /\ SenderStates' = SenderStates /\ WaitStates' = WaitStates /\ InsertLsn' = InsertLsn
      BY <1>2 DEF WalRecords, WriterStates, SaverStates, SenderStates, WaitStates, InsertLsn, EndOf
    <2> QED BY <1>2, <2>1, TypeParts DEF IInv, TypeOK, WalRecords, WriterStates,
               SaverStates, SenderStates, WaitStates
  <1>4. EndsOK' /\ LensOK'
    BY <1>2 DEF IInv, EndsOK, Records, InsertLsn, EndOf, LensOK
  <1>5. /\ \A t \in Senders : sender[t].ref \in Refs /\ sender[t].ref.num \in Nat
        /\ saver.ref \in Refs /\ saver.keep \in Refs
        /\ saver.ref.num \in Nat /\ saver.keep.num \in Nat
    <2>1. \A t \in Senders : sender[t].ref \in Refs
      BY <1>1 DEF SenderStates
    <2>2. saver.ref \in Refs /\ saver.keep \in Refs
      BY <1>1 DEF SaverStates
    <2>3. \A r \in Refs : r.num \in Nat
      BY DEF Refs
    <2> QED BY <2>1, <2>2, <2>3
  <1>6. RefsOK
    BY DEF IInv
  <1>7. \A r \in Refs : Held(r) => Held(r)'
    BY DEF KeptBut, Held
  <1>8. /\ saver'.ref.num <= refNum' /\ saver'.keep.num <= refNum'
        /\ saver'.ref # NoRef => Held(saver.ref)'
        /\ saver'.keep # NoRef => Held(saver.keep)'
    <2>1. /\ saver.ref.num <= refNum /\ saver.keep.num <= refNum
          /\ saver.ref # NoRef => Held(saver.ref)
          /\ saver.keep # NoRef => Held(saver.keep)
      BY <1>6 DEF RefsOK
    <2>2. rec.ref.num <= refNum' /\ rec.keep.num <= refNum'
      BY <1>1, <1>5, <2>1
    <2>3. rec.ref # NoRef => HeldAfter(rec.ref)
      BY <1>5, <1>7, <2>1 DEF Held, Match, HeldAfter
    <2>4. rec.keep # NoRef => HeldAfter(rec.keep)
      BY <1>5, <1>7, <2>1 DEF Held, Match, HeldAfter
    <2> QED BY <2>2, <2>3, <2>4 DEF Held, Match, HeldAfter
  <1>9. ASSUME NEW t \in Senders
        PROVE  /\ sender'[t].ref.num <= refNum'
               /\ sender'[t].pc # "gone" => sender'[t].ref.num # 0
               /\ sender'[t].ref.num # 0 => sender'[t].ref.num \notin {saver'.ref.num, saver'.keep.num}
               /\ sender'[t].pc \in Working => Held(sender[t].ref)'
               /\ \A u \in Senders :
                     sender'[t].ref.num # 0 /\ sender'[t].ref.num = sender'[u].ref.num => t = u
    <2>1. /\ sender[t].ref.num <= refNum
          /\ sender[t].pc # "gone" => sender[t].ref.num # 0
          /\ sender[t].ref.num # 0 => sender[t].ref.num \notin {saver.ref.num, saver.keep.num}
          /\ sender[t].pc \in Working => Held(sender[t].ref)
          /\ \A u \in Senders : sender[t].ref.num # 0 /\ sender[t].ref.num = sender[u].ref.num => t = u
      BY <1>6 DEF RefsOK
    <2>2. sender'[t].ref.num <= refNum'
      BY <1>1, <1>2, <1>5, <2>1
    <2>3. sender'[t].ref.num # 0 => sender'[t].ref.num \notin {saver'.ref.num, saver'.keep.num}
      BY <1>1, <1>2, <1>5, <2>1
    <2>4. sender'[t].pc \in Working => Held(sender[t].ref)'
      BY <1>2, <1>5, <1>7, <2>1 DEF Held, Match
    <2> QED BY <1>2, <2>1, <2>2, <2>3, <2>4
  <1>10. RefsOK'
    BY <1>8, <1>9 DEF RefsOK
  <1> QED BY <1>3, <1>4, <1>10 DEF IInv

\* A step of an inserter or of a flush: the readers' own state stays.
LEMMA ReadersKeep ==
    ASSUME IInv, UNCHANGED <<saver, sender>>, NumsOK', refNum' = refNum, \A r \in Refs : Held(r) => Held(r)'
    PROVE  RefsOK'
  <1>1. sender \in [Senders -> SenderStates] /\ saver \in SaverStates
    BY TypeParts DEF IInv
  <1>2. saver.ref \in Refs /\ saver.keep \in Refs /\ \A t \in Senders : sender[t].ref \in Refs
    BY <1>1 DEF SenderStates, SaverStates
  <1>3. \A r \in Refs : Held(r) =>
          r.num # 0 /\ r.slot \in Slots /\ slot'[r.slot].num = r.num /\ slot'[r.slot].strong
    BY DEF Held, Match
  <1>4. RefsOK
    BY DEF IInv
  <1>5. /\ saver'.ref # NoRef => Held(saver.ref)'
        /\ saver'.keep # NoRef => Held(saver.keep)'
    BY <1>2, <1>3, <1>4 DEF RefsOK, Held, Match
  <1>6. \A t \in Senders : sender'[t].pc \in Working => Held(sender[t].ref)'
    BY <1>2, <1>3, <1>4 DEF RefsOK, Held, Match
  <1> QED BY <1>4, <1>5, <1>6 DEF RefsOK

LEMMA WriterKeeps ==
    ASSUME IInv, NEW w \in Writers, NEW rec \in WriterStates, writer' = [writer EXCEPT ![w] = rec],
           UNCHANGED <<walVars, saver, sender>>,
           rec.pc \in {"reserve", "freeup"} => rec.len \in Lens,
           RingTypeOK', NumsOK', refNum' = refNum, \A r \in Refs : Held(r) => Held(r)'
    PROVE  IInv'
  <1>1. writer \in [Writers -> WriterStates]
    BY TypeParts DEF IInv
  <1>2. UNCHANGED <<wal, written, flush, wait, saver, sender>>
    BY DEF walVars
  <1>3. TypeOK'
    <2>1. WalRecords' = WalRecords /\ WriterStates' = WriterStates /\ SaverStates' = SaverStates
          /\ SenderStates' = SenderStates /\ WaitStates' = WaitStates /\ InsertLsn' = InsertLsn
      BY <1>2 DEF WalRecords, WriterStates, SaverStates, SenderStates, WaitStates, InsertLsn, EndOf
    <2>2. writer' \in [Writers -> WriterStates]
      BY <1>1
    <2> QED BY <1>2, <2>1, <2>2, TypeParts DEF IInv, TypeOK, WalRecords, WriterStates,
               SaverStates, SenderStates, WaitStates
  <1>4. EndsOK'
    BY <1>2 DEF IInv, EndsOK, Records, InsertLsn, EndOf
  <1>5. LensOK'
    BY <1>1 DEF IInv, LensOK
  <1>6. RefsOK'
    BY ReadersKeep
  <1> QED BY <1>3, <1>4, <1>5, <1>6 DEF IInv

\* An access to the cells that keeps their type and the slots.
LEMMA CellsKeep ==
    ASSUME IInv, UNCHANGED <<pread, slot, minVisit, refNum>>, pwrite' \in Positions,
           cells' \in [Positions -> [ready : BOOLEAN, len : Nat, lsn : Nat]]
    PROVE  RingTypeOK' /\ NumsOK' /\ refNum' = refNum /\ (\A r \in Refs : Held(r) => Held(r)')
  <1>1. RingTypeOK /\ NumsOK
    BY DEF IInv, TypeOK, RefsOK
  <1> QED BY <1>1 DEF RingTypeOK, NumsOK, Held, Match

LEMMA RingStays ==
    ASSUME IInv, UNCHANGED ringVars
    PROVE  RingTypeOK' /\ NumsOK' /\ refNum' = refNum /\ (\A r \in Refs : Held(r) => Held(r)')
  <1>1. UNCHANGED <<cells, pread, pwrite, slot, minVisit, refNum>>
    BY DEF ringVars
  <1>2. cells \in [Positions -> [ready : BOOLEAN, len : Nat, lsn : Nat]] /\ pwrite \in Positions
    BY DEF IInv, TypeOK, RingTypeOK
  <1> QED BY <1>1, <1>2, CellsKeep

LEMMA IInvInit == Init => IInv
  <1> SUFFICES ASSUME Init
               PROVE  IInv
    OBVIOUS
  <1>1. InsertLsn = 0 /\ Len(wal) = 0 /\ Records = {} /\ wal \in Seq(WalRecords)
    BY DEF Init, InsertLsn, EndOf, Records
  <1>2. 0 \in Positions /\ NoRef \in Refs /\ 0 \in Nat
    BY SizeAssumption DEF Positions, NoRef, Refs
  <1>3. RingTypeOK
    BY <1>2 DEF Init, RingInit, RingTypeOK, ZeroCell, ZeroSlot
  <1>4. wait \in [Waiters -> WaitStates]
    BY <1>1 DEF Init, WaitStates, NoWait
  <1>5. writer \in [Writers -> WriterStates]
    BY <1>1, <1>2 DEF Init, Idle, WriterStates
  <1>6. saver \in SaverStates
    BY <1>2 DEF Init, SaverStates
  <1>7. sender \in [Senders -> SenderStates]
    BY <1>2 DEF Init, Gone, SenderStates
  <1>8. TypeOK
    BY <1>1, <1>3, <1>4, <1>5, <1>6, <1>7, TypeParts DEF Init
  <1>9. EndsOK /\ LensOK
    BY <1>1 DEF EndsOK, LensOK, Init, Idle
  <1>10. RefsOK
    <2>1. NumsOK
      BY DEF Init, RingInit, NumsOK, ZeroSlot
    <2>2. saver.ref = NoRef /\ saver.keep = NoRef /\ refNum = 0 /\ NoRef.num = 0
      BY DEF Init, RingInit, NoRef
    <2>3. \A s \in Senders : sender[s].ref.num = 0 /\ sender[s].pc = "gone"
      BY DEF Init, Gone, NoRef
    <2> QED BY <2>1, <2>2, <2>3 DEF RefsOK, Working
  <1> QED BY <1>8, <1>9, <1>10 DEF IInv

(***************************************************************************)
(* The inserters.                                                          *)
(***************************************************************************)

LEMMA WriterFacts ==
    ASSUME IInv, NEW w \in Writers
    PROVE  /\ writer[w] \in WriterStates /\ RingTypeOK /\ NumsOK
           /\ writer[w].len \in Nat /\ writer[w].idx \in Positions /\ writer[w].n \in 0 .. Len(wal)
           /\ writer[w].pc \in {"reserve", "freeup"} => writer[w].len \in Lens
           /\ EndOf(writer[w].n) \in Nat /\ EndOf(writer[w].n) <= InsertLsn /\ InsertLsn \in Nat
  <1>1. writer[w] \in WriterStates
    BY TypeParts DEF IInv
  <1>2. writer[w].len \in Nat /\ writer[w].idx \in Positions /\ writer[w].n \in 0 .. Len(wal)
    <2>1. \A x \in Lens \cup {0} : x \in Nat
      BY LensAssumption, QueueAssumption
    <2>2. writer[w].len \in Lens \cup {0} /\ writer[w].idx \in Positions /\ writer[w].n \in 0 .. Len(wal)
      BY <1>1 DEF WriterStates
    <2>3. writer[w].len \in Nat
      BY <2>1, <2>2
    <2> QED BY <2>2, <2>3
  <1>3. RingTypeOK /\ NumsOK
    BY DEF IInv, TypeOK, RefsOK
  <1>4. writer[w].pc \in {"reserve", "freeup"} => writer[w].len \in Lens
    BY DEF IInv, LensOK
  <1>5. EndOf(writer[w].n) \in Nat /\ EndOf(writer[w].n) <= InsertLsn /\ InsertLsn \in Nat
    BY <1>2, EndFacts DEF IInv
  <1> QED BY <1>1, <1>2, <1>3, <1>4, <1>5

LEMMA BeginStep ==
    ASSUME IInv, NEW w \in Writers, NEW len \in Lens, XLogInsertBegin(w, len)
    PROVE  IInv'
  <1> DEFINE rec == [Idle EXCEPT !.pc = "reserve", !.len = len]
  <1>1. writer' = [writer EXCEPT ![w] = rec] /\ UNCHANGED <<ringVars, walVars, saver, sender>>
    BY DEF XLogInsertBegin
  <1>2. Len(wal) \in Nat /\ 0 \in Positions
    BY EndFacts, SizeAssumption DEF IInv, Positions
  <1>3. rec \in WriterStates /\ rec.len \in Lens
    <2>1. Idle \in WriterStates
      BY <1>2 DEF Idle, WriterStates
    <2> QED BY <2>1 DEF WriterStates
  <1> HIDE DEF rec
  <1> QED BY <1>1, <1>3, RingStays, WriterKeeps

LEMMA QueueFullStep ==
    ASSUME IInv, NEW w \in Writers, QueueFull(w)
    PROVE  IInv'
  <1> DEFINE rec == [writer[w] EXCEPT !.pc = "freeup"]
  <1>0. writer[w] \in WriterStates /\ writer[w].len \in Lens
    BY WriterFacts DEF QueueFull
  <1>1. writer' = [writer EXCEPT ![w] = rec] /\ UNCHANGED <<ringVars, walVars, saver, sender>>
    BY DEF QueueFull
  <1>2. rec \in WriterStates /\ rec.len \in Lens
    BY <1>0 DEF WriterStates
  <1> HIDE DEF rec
  <1> QED BY <1>1, <1>2, RingStays, WriterKeeps

LEMMA FreeUpStep ==
    ASSUME IInv, NEW w \in Writers, FreeUp(w)
    PROVE  IInv'
  <1>0. writer[w] \in WriterStates /\ writer[w].len \in Lens /\ RingTypeOK /\ NumsOK
    BY WriterFacts DEF FreeUp
  <1>w. UNCHANGED <<walVars, saver, sender>>
    BY DEF FreeUp
  <1>1. CASE writer' = [writer EXCEPT ![w].pc = "reserve"] /\ UNCHANGED ringVars
    <2> DEFINE rec == [writer[w] EXCEPT !.pc = "reserve"]
    <2>1. writer' = [writer EXCEPT ![w] = rec]
      BY <1>1
    <2>2. rec \in WriterStates /\ rec.len \in Lens
      BY <1>0 DEF WriterStates
    <2> HIDE DEF rec
    <2> QED BY <1>1, <1>w, <2>1, <2>2, RingStays, WriterKeeps
  <1>2. CASE FreeUpRound /\ UNCHANGED writer
    <2>1. writer' = [writer EXCEPT ![w] = writer[w]]
      BY <1>2, TypeParts DEF IInv
    <2>2. RingTypeOK' /\ NumsOK' /\ refNum' = refNum /\ (\A r \in Refs : Held(r) => Held(r)')
      BY <1>0, <1>2, FreeUpFacts
    <2> QED BY <1>0, <1>w, <2>1, <2>2, WriterKeeps
  <1> QED BY <1>1, <1>2 DEF FreeUp

LEMMA SetLengthStep ==
    ASSUME IInv, NEW w \in Writers, SetLength(w)
    PROVE  IInv'
  <1> DEFINE rec == [writer[w] EXCEPT !.pc = "copy"]
  <1>0. /\ writer[w] \in WriterStates /\ writer[w].len \in Nat /\ writer[w].idx \in Positions
        /\ cells \in [Positions -> [ready : BOOLEAN, len : Nat, lsn : Nat]] /\ pwrite \in Positions
    BY WriterFacts DEF RingTypeOK
  <1>1. writer' = [writer EXCEPT ![w] = rec] /\ UNCHANGED <<walVars, saver, sender>>
    BY DEF SetLength
  <1>2. rec \in WriterStates /\ rec.pc = "copy"
    BY <1>0 DEF WriterStates
  <1> HIDE DEF rec
  <1>3. /\ cells' = [cells EXCEPT ![writer[w].idx].len = writer[w].len]
        /\ UNCHANGED <<pread, pwrite, slot, minVisit, refNum>>
    BY DEF SetLength, SetPktLength
  <1>4. cells' \in [Positions -> [ready : BOOLEAN, len : Nat, lsn : Nat]]
    BY <1>0, <1>3
  <1>5. RingTypeOK' /\ NumsOK' /\ refNum' = refNum /\ (\A r \in Refs : Held(r) => Held(r)')
    BY <1>0, <1>3, <1>4, CellsKeep
  <1> QED BY <1>1, <1>2, <1>5, WriterKeeps

LEMMA PushContentStep ==
    ASSUME IInv, NEW w \in Writers, PushContent(w)
    PROVE  IInv'
  <1> DEFINE rec == [writer[w] EXCEPT !.pc = "flag"]
             lsn == EndOf(writer[w].n)
  <1>0. /\ writer[w] \in WriterStates /\ lsn \in Nat
        /\ cells \in [Positions -> [ready : BOOLEAN, len : Nat, lsn : Nat]] /\ pwrite \in Positions
    BY WriterFacts DEF RingTypeOK
  <1>1. writer' = [writer EXCEPT ![w] = rec] /\ UNCHANGED <<walVars, saver, sender>>
    BY DEF PushContent
  <1>2. rec \in WriterStates /\ rec.pc = "flag"
    BY <1>0 DEF WriterStates
  <1> HIDE DEF rec
  <1>3. PktWrite(writer[w].idx, lsn)
    BY DEF PushContent
  <1> HIDE DEF lsn
  <1>4. UNCHANGED <<pread, pwrite, slot, minVisit, refNum>>
    BY <1>3 DEF PktWrite
  <1>5. cells' \in [Positions -> [ready : BOOLEAN, len : Nat, lsn : Nat]]
    <2> DEFINE idx == writer[w].idx
               f(u) == IF u = idx THEN [cells[u] EXCEPT !.lsn = lsn]
                       ELSE IF (u - idx) % Size < cells[idx].len THEN [ZeroCell EXCEPT !.lsn = lsn]
                       ELSE cells[u]
    <2>1. cells' = [u \in Positions |-> f(u)]
      BY <1>3 DEF PktWrite
    <2>2. ASSUME NEW u \in Positions
          PROVE  f(u) \in [ready : BOOLEAN, len : Nat, lsn : Nat]
      <3>1. cells[u] \in [ready : BOOLEAN, len : Nat, lsn : Nat]
        BY <1>0
      <3>2. [cells[u] EXCEPT !.lsn = lsn] \in [ready : BOOLEAN, len : Nat, lsn : Nat]
        BY <1>0, <3>1
      <3>3. [ZeroCell EXCEPT !.lsn = lsn] \in [ready : BOOLEAN, len : Nat, lsn : Nat]
        BY <1>0 DEF ZeroCell
      <3> QED BY <3>1, <3>2, <3>3
    <2> HIDE DEF f
    <2> QED BY <2>1, <2>2
  <1>6. RingTypeOK' /\ NumsOK' /\ refNum' = refNum /\ (\A r \in Refs : Held(r) => Held(r)')
    BY <1>0, <1>4, <1>5, CellsKeep
  <1> QED BY <1>1, <1>2, <1>6, WriterKeeps

LEMMA PushFlagStep ==
    ASSUME IInv, NEW w \in Writers, PushFlag(w)
    PROVE  IInv'
  <1>0. /\ writer[w].idx \in Positions
        /\ cells \in [Positions -> [ready : BOOLEAN, len : Nat, lsn : Nat]] /\ pwrite \in Positions
    BY WriterFacts DEF RingTypeOK
  <1>1. writer' = [writer EXCEPT ![w] = Idle] /\ UNCHANGED <<walVars, saver, sender>>
    BY DEF PushFlag
  <1>2. Len(wal) \in Nat /\ 0 \in Positions
    BY EndFacts, SizeAssumption DEF IInv, Positions
  <1>3. Idle \in WriterStates /\ Idle.pc = "idle"
    BY <1>2 DEF Idle, WriterStates
  <1>4. /\ cells' = [cells EXCEPT ![writer[w].idx].ready = TRUE]
        /\ UNCHANGED <<pread, pwrite, slot, minVisit, refNum>>
    BY DEF PushFlag, SetPktFlag
  <1>5. cells' \in [Positions -> [ready : BOOLEAN, len : Nat, lsn : Nat]]
    BY <1>0, <1>4
  <1>6. RingTypeOK' /\ NumsOK' /\ refNum' = refNum /\ (\A r \in Refs : Held(r) => Held(r)')
    BY <1>0, <1>4, <1>5, CellsKeep
  <1> QED BY <1>1, <1>3, <1>6, WriterKeeps

\* The record and its packet are reserved together.
LEMMA ReserveStep ==
    ASSUME IInv, NEW w \in Writers, ReserveXLogInsertLocation(w)
    PROVE  IInv'
  <1> DEFINE len == writer[w].len
             e == [end |-> InsertLsn + len, len |-> len, done |-> FALSE]
             rec == [writer[w] EXCEPT !.pc = "reserved", !.n = Len(wal) + 1, !.idx = pwrite]
  <1>1. /\ wal \in Seq(WalRecords) /\ written \in 0 .. InsertLsn /\ flush \in 0 .. written
        /\ wait \in [Waiters -> WaitStates] /\ writer \in [Writers -> WriterStates]
        /\ saver \in SaverStates /\ sender \in [Senders -> SenderStates]
    BY TypeParts DEF IInv
  <1>2. /\ cells \in [Positions -> [ready : BOOLEAN, len : Nat, lsn : Nat]] /\ pwrite \in Positions
        /\ len \in Lens /\ len \in Nat /\ InsertLsn \in Nat /\ Len(wal) \in Nat /\ pwrite \in Int
    <2>1. writer[w].pc = "reserve"
      BY DEF ReserveXLogInsertLocation
    <2>2. pwrite \in Positions /\ cells \in [Positions -> [ready : BOOLEAN, len : Nat, lsn : Nat]]
      BY DEF IInv, TypeOK, RingTypeOK
    <2>3. pwrite \in Int
      BY <2>2, SizeAssumption DEF Positions
    <2> QED BY <2>1, <2>2, <2>3, WriterFacts, EndFacts DEF IInv
  <1>3. /\ PktReserve(len) /\ wal' = Append(wal, e) /\ writer' = [writer EXCEPT ![w] = rec]
        /\ UNCHANGED <<written, flush, wait, saver, sender>>
    BY DEF ReserveXLogInsertLocation
  <1>4. RingTypeOK' /\ NumsOK' /\ refNum' = refNum /\ (\A r \in Refs : Held(r) => Held(r)')
    <2>1. /\ cells' = [cells EXCEPT ![pwrite].ready = FALSE] /\ pwrite' = (pwrite + len) % Size
          /\ UNCHANGED <<pread, slot, minVisit, refNum>>
      BY <1>3 DEF PktReserve
    <2>2. cells' \in [Positions -> [ready : BOOLEAN, len : Nat, lsn : Nat]]
      BY <1>2, <2>1
    <2>3. pwrite' \in Positions
      <3>1. pwrite + len \in Int
        BY <1>2
      <3>2. (pwrite + len) % Size \in Positions
        BY <3>1, Wraps
      <3> QED BY <2>1, <3>2
    <2> QED BY <2>1, <2>2, <2>3, CellsKeep
  <1>5. e \in WalRecords /\ e.end = InsertLsn + len
    BY <1>2 DEF WalRecords
  <1> HIDE DEF e
  <1>6. /\ wal' \in Seq(WalRecords) /\ Len(wal') = Len(wal) + 1 /\ wal'[Len(wal) + 1] = e
        /\ \A i \in 1 .. Len(wal) : wal'[i] = wal[i]
    BY <1>1, <1>3, <1>5
  <1>7. InsertLsn' = InsertLsn + len
    BY <1>2, <1>5, <1>6 DEF InsertLsn, EndOf
  <1>8. EndsOK'
    <2> SUFFICES ASSUME NEW i \in 1 .. Len(wal')
                 PROVE  wal'[i].end <= InsertLsn'
      BY DEF EndsOK, Records
    <2>1. CASE i = Len(wal) + 1
      BY <1>2, <1>5, <1>6, <1>7, <2>1
    <2>2. CASE i \in 1 .. Len(wal)
      <3>1. wal[i].end \in Nat /\ wal[i].end <= InsertLsn
        BY <1>2, <2>2, EndFacts DEF IInv, EndOf
      <3>2. wal'[i].end = wal[i].end
        BY <1>6, <2>2
      <3>3. len \in Nat /\ InsertLsn \in Nat
        BY <1>2
      <3> HIDE DEF len
      <3>4. wal[i].end <= InsertLsn + len
        BY <3>1, <3>3
      <3> QED BY <1>7, <3>2, <3>4
    <2> QED BY <1>2, <1>6, <2>1, <2>2
  <1>9. wait' \in [Waiters -> WaitStates']
    <2>1. WaitStates \subseteq WaitStates'
      BY <1>2, <1>7 DEF WaitStates
    <2> QED BY <1>1, <1>3, <2>1
  <1>10. writer' \in [Writers -> WriterStates'] /\ rec.pc = "reserved"
    <2>1. 0 .. Len(wal) \subseteq 0 .. Len(wal') /\ Len(wal) + 1 \in 0 .. Len(wal')
      BY <1>2, <1>6
    <2>2. WriterStates \subseteq WriterStates'
      BY <2>1 DEF WriterStates
    <2>3. writer[w] \in WriterStates'
      BY <1>1, <2>2
    <2>4. rec \in WriterStates' /\ rec.pc = "reserved"
      <3> DEFINE old == writer[w]
      <3>1. old \in WriterStates' /\ rec = [old EXCEPT !.pc = "reserved", !.n = Len(wal) + 1, !.idx = pwrite]
        BY <2>3
      <3> HIDE DEF old, rec
      <3>2. rec = [pc |-> "reserved", len |-> old.len, n |-> Len(wal) + 1, idx |-> pwrite]
        BY <3>1 DEF WriterStates
      <3>3. old.len \in Lens \cup {0}
        BY <3>1 DEF WriterStates
      <3>4. rec.pc = "reserved"
        BY <3>2
      <3>5. rec \in WriterStates'
        BY <1>2, <2>1, <3>2, <3>3 DEF WriterStates
      <3> QED BY <3>4, <3>5
    <2> HIDE DEF rec
    <2> QED BY <1>1, <1>3, <2>2, <2>4
  <1>11. written' \in 0 .. InsertLsn' /\ flush' \in 0 .. written'
    BY <1>1, <1>2, <1>3, <1>7
  <1>12. saver' \in SaverStates' /\ sender' \in [Senders -> SenderStates']
    BY <1>1, <1>3 DEF SaverStates, SenderStates
  <1>13. TypeOK'
    BY <1>4, <1>6, <1>9, <1>10, <1>11, <1>12 DEF TypeOK, WalRecords, WaitStates, WriterStates,
       SaverStates, SenderStates
  <1>14. LensOK'
    <2> HIDE DEF rec
    <2> QED BY <1>1, <1>3, <1>10 DEF IInv, LensOK
  <1>15. RefsOK'
    BY <1>3, <1>4, ReadersKeep
  <1> QED BY <1>8, <1>13, <1>14, <1>15 DEF IInv

LEMMA CopyStep ==
    ASSUME IInv, NEW w \in Writers, CopyXLogRecordToWAL(w)
    PROVE  IInv'
  <1> DEFINE n == writer[w].n
             rec == [writer[w] EXCEPT !.pc = "push"]
  <1>1. /\ wal \in Seq(WalRecords) /\ written \in 0 .. InsertLsn /\ flush \in 0 .. written
        /\ wait \in [Waiters -> WaitStates] /\ writer \in [Writers -> WriterStates]
        /\ saver \in SaverStates /\ sender \in [Senders -> SenderStates]
    BY TypeParts DEF IInv
  <1>2. /\ wal' = [wal EXCEPT ![n].done = TRUE] /\ writer' = [writer EXCEPT ![w] = rec]
        /\ UNCHANGED <<ringVars, written, flush, wait, saver, sender>>
    BY DEF CopyXLogRecordToWAL
  <1>3. RingTypeOK' /\ NumsOK' /\ refNum' = refNum /\ (\A r \in Refs : Held(r) => Held(r)')
    BY <1>2, RingStays
  <1>4. wal \in [1 .. Len(wal) -> WalRecords] /\ Len(wal) \in Nat
    BY <1>1
  <1>5. /\ wal' \in [1 .. Len(wal) -> WalRecords]
        /\ \A i \in 1 .. Len(wal) : wal'[i].end = wal[i].end
    BY <1>2, <1>4 DEF WalRecords
  <1>6. wal' \in Seq(WalRecords) /\ Len(wal') = Len(wal)
    BY <1>4, <1>5
  <1>7. InsertLsn' = InsertLsn
    BY <1>4, <1>5, <1>6 DEF InsertLsn, EndOf
  <1>8. EndsOK'
    BY <1>5, <1>6, <1>7 DEF IInv, EndsOK, Records
  <1>9. rec \in WriterStates /\ rec.pc = "push"
    BY <1>1 DEF WriterStates
  <1> HIDE DEF rec
  <1>10. writer' \in [Writers -> WriterStates]
    BY <1>1, <1>2, <1>9
  <1>11. TypeOK'
    BY <1>1, <1>2, <1>3, <1>6, <1>7, <1>10 DEF TypeOK, WalRecords, WaitStates, WriterStates,
       SaverStates, SenderStates
  <1>12. LensOK'
    BY <1>1, <1>2, <1>9 DEF IInv, LensOK
  <1>13. RefsOK'
    BY <1>2, <1>3, ReadersKeep
  <1> QED BY <1>8, <1>11, <1>12, <1>13 DEF IInv

(***************************************************************************)
(* Writing WAL out.                                                        *)
(***************************************************************************)

LEMMA WaitKeeps ==
    ASSUME IInv, NEW p \in Waiters, NEW x \in WaitStates, wait' = [wait EXCEPT ![p] = x],
           UNCHANGED <<ringVars, wal, writer, saver, sender>>,
           written' \in 0 .. InsertLsn, flush' \in 0 .. written', flush <= flush'
    PROVE  IInv'
  <1>1. /\ wal \in Seq(WalRecords) /\ written \in 0 .. InsertLsn /\ flush \in 0 .. written
        /\ wait \in [Waiters -> WaitStates] /\ writer \in [Writers -> WriterStates]
        /\ saver \in SaverStates /\ sender \in [Senders -> SenderStates]
    BY TypeParts DEF IInv
  <1>2. RingTypeOK' /\ NumsOK' /\ refNum' = refNum /\ (\A r \in Refs : Held(r) => Held(r)')
    BY RingStays
  <1>3. InsertLsn' = InsertLsn /\ InsertLsn \in Nat
    BY EndFacts DEF IInv, InsertLsn, EndOf
  <1>4. wait' \in [Waiters -> WaitStates]
    BY <1>1
  <1>5. 0 .. flush \subseteq 0 .. flush'
    BY <1>1, <1>3
  <1>6. saver' \in SaverStates'
    BY <1>1, <1>5 DEF SaverStates
  <1>7. sender' \in [Senders -> SenderStates']
    <2>1. SenderStates \subseteq SenderStates'
      BY <1>5 DEF SenderStates
    <2> QED BY <1>1, <2>1
  <1>8. wal' \in Seq(WalRecords) /\ writer' \in [Writers -> WriterStates']
    BY <1>1 DEF WriterStates
  <1>9. TypeOK'
    BY <1>2, <1>3, <1>4, <1>6, <1>7, <1>8 DEF TypeOK, WalRecords, WaitStates, WriterStates,
       SaverStates, SenderStates
  <1>10. EndsOK' /\ LensOK'
    BY DEF IInv, EndsOK, LensOK, Records, InsertLsn, EndOf
  <1>11. RefsOK'
    BY <1>2, ReadersKeep
  <1> QED BY <1>9, <1>10, <1>11 DEF IInv

LEMMA WalFacts ==
    ASSUME IInv
    PROVE  /\ InsertLsn \in Nat /\ written \in Nat /\ flush \in Nat
           /\ written \in 0 .. InsertLsn /\ flush \in 0 .. written
           /\ \A p \in Waiters : wait[p] \in WaitStates
  <1>1. written \in 0 .. InsertLsn /\ flush \in 0 .. written /\ wait \in [Waiters -> WaitStates]
    BY TypeParts DEF IInv
  <1>2. InsertLsn \in Nat
    BY EndFacts DEF IInv
  <1> QED BY <1>1, <1>2

LEMMA AdvanceStep ==
    ASSUME IInv, NEW w \in Writers, AdvanceXLInsertBuffer(w)
    PROVE  IInv'
  <1> DEFINE x == [upto |-> EndOf(writer[w].n) - WalBuffers, seen |-> {w}]
  <1>1. wait' = [wait EXCEPT ![w] = x] /\ UNCHANGED <<ringVars, wal, written, flush, writer, saver, sender>>
    BY DEF AdvanceXLInsertBuffer
  <1>2. x \in WaitStates
    <2>1. EndOf(writer[w].n) - written > WalBuffers
      BY DEF AdvanceXLInsertBuffer
    <2>2. EndOf(writer[w].n) \in Nat /\ EndOf(writer[w].n) <= InsertLsn
      BY WriterFacts
    <2>3. EndOf(writer[w].n) - WalBuffers \in 0 .. InsertLsn
      BY <2>1, <2>2, WalFacts, QueueAssumption
    <2> QED BY <2>3 DEF WaitStates
  <1>3. written' \in 0 .. InsertLsn /\ flush' \in 0 .. written' /\ flush <= flush'
    BY <1>1, WalFacts
  <1>4. w \in Waiters
    BY DEF Waiters
  <1> HIDE DEF x
  <1> QED BY <1>1, <1>2, <1>3, <1>4, WaitKeeps

LEMMA FlushBeginStep ==
    ASSUME IInv, XLogFlushBegin
    PROVE  IInv'
  <1> DEFINE x == [upto |-> InsertLsn, seen |-> {}]
  <1>1. /\ wait' = [wait EXCEPT ![Flusher] = x]
        /\ UNCHANGED <<ringVars, wal, written, flush, writer, saver, sender>>
    BY DEF XLogFlushBegin
  <1>2. x \in WaitStates
    BY WalFacts DEF WaitStates
  <1>3. written' \in 0 .. InsertLsn /\ flush' \in 0 .. written' /\ flush <= flush'
    BY <1>1, WalFacts
  <1>4. Flusher \in Waiters
    BY DEF Waiters
  <1> HIDE DEF x
  <1> QED BY <1>1, <1>2, <1>3, <1>4, WaitKeeps

LEMMA SeenStep ==
    ASSUME IInv, NEW p \in Waiters, NEW w \in Writers, InsertionSeen(p, w)
    PROVE  IInv'
  <1> DEFINE x == [wait[p] EXCEPT !.seen = @ \cup {w}]
  <1>0. wait[p] \in WaitStates
    BY WalFacts
  <1>1. wait' = [wait EXCEPT ![p] = x] /\ UNCHANGED <<ringVars, wal, written, flush, writer, saver, sender>>
    BY DEF InsertionSeen
  <1>2. x \in WaitStates
    BY <1>0 DEF WaitStates
  <1>3. written' \in 0 .. InsertLsn /\ flush' \in 0 .. written' /\ flush <= flush'
    BY <1>1, WalFacts
  <1> HIDE DEF x
  <1> QED BY <1>1, <1>2, <1>3, WaitKeeps

LEMMA WriteStep ==
    ASSUME IInv, NEW p \in Waiters, XLogWrite(p)
    PROVE  IInv'
  <1>1. /\ wait' = [wait EXCEPT ![p] = NoWait] /\ UNCHANGED <<ringVars, wal, writer, saver, sender>>
        /\ written' = IF wait[p].upto > written THEN wait[p].upto ELSE written
        /\ flush' = IF DirectIO \/ p = Flusher THEN written' ELSE flush
    BY DEF XLogWrite
  <1>2. NoWait \in WaitStates
    BY WalFacts DEF NoWait, WaitStates
  <1>3. wait[p].upto \in 0 .. InsertLsn
    BY WalFacts DEF WaitStates
  <1>4. written' \in 0 .. InsertLsn /\ written <= written'
    BY <1>1, <1>3, WalFacts
  <1>5. flush' \in 0 .. written' /\ flush <= flush'
    BY <1>1, <1>4, WalFacts
  <1> QED BY <1>1, <1>2, <1>4, <1>5, WaitKeeps

(***************************************************************************)
(* The logindex saver.                                                     *)
(***************************************************************************)

LEMMA AllKept ==
    ASSUME \A r \in Refs : Held(r) => Held(r)', NEW num
    PROVE  KeptBut(num)
  BY DEF KeptBut

LEMMA SaverFacts ==
    ASSUME IInv
    PROVE  /\ saver \in SaverStates /\ RingTypeOK /\ NumsOK /\ refNum \in Nat
           /\ saver.ref \in Refs /\ saver.keep \in Refs /\ flush \in Nat
           /\ saver.ref # NoRef => saver.ref.slot \in Slots
           /\ saver.keep # NoRef => saver.keep.slot \in Slots
  <1>1. saver \in SaverStates /\ RingTypeOK /\ NumsOK /\ refNum \in Nat /\ flush \in Nat
    BY TypeParts, WalFacts DEF IInv, RefsOK, RingTypeOK
  <1>2. saver.ref \in Refs /\ saver.keep \in Refs
    BY <1>1 DEF SaverStates
  <1> QED BY <1>1, <1>2 DEF IInv, RefsOK, Held, Match

\* The content of the next packet is an LSN.
LEMMA NextCellFacts ==
    ASSUME RingTypeOK, NEW ref, ref.slot \in Slots
    PROVE  NextCell(ref).lsn \in Nat
  <1>1. slot[ref.slot].pread \in Positions
    BY DEF RingTypeOK
  <1> QED BY <1>1 DEF RingTypeOK, NextCell

LEMMA SaverAttachStep ==
    ASSUME IInv, SaverAttach
    PROVE  IInv'
  <1>1. PICK i \in Slots : LET ref == [slot |-> i, num |-> refNum + 1]
                           IN  NewRef(TRUE, ref) /\ saver' = [saver EXCEPT !.ref = ref]
    BY DEF SaverAttach
  <1> DEFINE ref == [slot |-> i, num |-> refNum + 1]
             rec == [saver EXCEPT !.ref = ref]
  <1>2. NewRef(TRUE, ref) /\ saver' = rec /\ UNCHANGED <<walVars, writer, sender>>
    BY <1>1 DEF SaverAttach
  <1>3. ref.slot = i /\ ref.num = refNum + 1
    OBVIOUS
  <1>4. /\ RingTypeOK' /\ NumsOK' /\ KeptBut(0) /\ ref \in Refs /\ refNum' = refNum + 1
        /\ HeldAfter(ref)
    BY <1>2, SaverFacts, NewRefFacts
  <1> HIDE DEF ref
  <1>5. rec \in SaverStates /\ rec.ref = ref /\ rec.keep = saver.keep
    BY <1>4, SaverFacts DEF SaverStates
  <1> HIDE DEF rec
  <1> QED BY <1>2, <1>3, <1>4, <1>5, SaverKeeps

LEMMA SaverPopStep ==
    ASSUME IInv, SaverPop
    PROVE  IInv'
  <1> DEFINE lsn == NextCell(saver.ref).lsn
             rec == [saver EXCEPT !.saved = lsn, !.count = saver.count + 1]
  <1>1. /\ saver.ref # NoRef /\ lsn <= flush /\ UpdateRef(saver.ref)
        /\ saver' = rec /\ UNCHANGED <<walVars, writer, sender>>
    BY DEF SaverPop, SaverHasNext
  <1>2. lsn \in Nat /\ flush \in Nat
    BY <1>1, SaverFacts, NextCellFacts
  <1> HIDE DEF lsn
  <1>3. rec \in SaverStates /\ rec.ref = saver.ref /\ rec.keep = saver.keep
    <2> DEFINE c == saver.count + 1
    <2>1. saver \in SaverStates
      BY SaverFacts
    <2>2. c \in Nat /\ lsn \in 0 .. flush
      BY <1>1, <1>2, <2>1 DEF SaverStates
    <2>3. rec = [saver EXCEPT !.saved = lsn, !.count = c]
      OBVIOUS
    <2> HIDE DEF rec, c
    <2> QED BY <2>1, <2>2, <2>3 DEF SaverStates
  <1>4. RingTypeOK' /\ NumsOK' /\ refNum' = refNum /\ (\A r \in Refs : Held(r) => Held(r)')
    BY <1>1, SaverFacts, UpdateRefFacts
  <1> HIDE DEF rec
  <1> QED BY <1>1, <1>3, <1>4, AllKept, SaverKeeps

LEMMA SaverKeepBeginStep ==
    ASSUME IInv, SaverKeepBegin
    PROVE  IInv'
  <1>w. UNCHANGED <<walVars, writer, sender>>
    BY DEF SaverKeepBegin
  <1>1. CASE saver.keep = NoRef
    <2>1. PICK i \in Slots : LET ref == [slot |-> i, num |-> refNum + 1]
                             IN  NewRef(TRUE, ref) /\ saver' = [saver EXCEPT !.keep = ref]
      BY <1>1 DEF SaverKeepBegin
    <2> DEFINE ref == [slot |-> i, num |-> refNum + 1]
               rec == [saver EXCEPT !.keep = ref]
    <2>2. NewRef(TRUE, ref) /\ saver' = rec
      BY <2>1
    <2>3. ref.slot = i /\ ref.num = refNum + 1
      OBVIOUS
    <2>4. /\ RingTypeOK' /\ NumsOK' /\ KeptBut(0) /\ ref \in Refs /\ refNum' = refNum + 1
          /\ HeldAfter(ref)
      BY <2>2, SaverFacts, NewRefFacts
    <2> HIDE DEF ref
    <2>5. rec \in SaverStates /\ rec.keep = ref /\ rec.ref = saver.ref
      BY <2>4, SaverFacts DEF SaverStates
    <2> HIDE DEF rec
    <2> QED BY <1>w, <2>2, <2>3, <2>4, <2>5, SaverKeeps
  <1>2. CASE saver.keep # NoRef
    <2> DEFINE rec == [saver EXCEPT !.pc = "keep", !.moved = FALSE]
    <2>1. saver' = rec /\ UNCHANGED ringVars
      BY <1>2 DEF SaverKeepBegin
    <2>2. rec \in SaverStates /\ rec.ref = saver.ref /\ rec.keep = saver.keep
      BY SaverFacts DEF SaverStates
    <2> HIDE DEF rec
    <2> QED BY <1>w, <2>1, <2>2, RingStays, AllKept, SaverKeeps
  <1> QED BY <1>1, <1>2

LEMMA SaverKeepStepStep ==
    ASSUME IInv, SaverKeepStep
    PROVE  IInv'
  <1> DEFINE rec == [saver EXCEPT !.moved = TRUE]
  <1>1. UpdateRef(saver.keep) /\ saver' = rec /\ UNCHANGED <<walVars, writer, sender>>
    BY DEF SaverKeepStep
  <1>2. rec \in SaverStates /\ rec.ref = saver.ref /\ rec.keep = saver.keep
    BY SaverFacts DEF SaverStates
  <1>3. RingTypeOK' /\ NumsOK' /\ refNum' = refNum /\ (\A r \in Refs : Held(r) => Held(r)')
    BY <1>1, SaverFacts, UpdateRefFacts
  <1> HIDE DEF rec
  <1> QED BY <1>1, <1>2, <1>3, AllKept, SaverKeeps

LEMMA SaverKeepEndStep ==
    ASSUME IInv, SaverKeepEnd
    PROVE  IInv'
  <1> DEFINE rec == [saver EXCEPT !.pc = "pop", !.moved = FALSE]
  <1>1. saver' = rec /\ UNCHANGED <<cells, pwrite, slot, refNum, walVars, writer, sender>>
    BY DEF SaverKeepEnd
  <1>2. rec \in SaverStates /\ rec.ref = saver.ref /\ rec.keep = saver.keep
    BY SaverFacts DEF SaverStates
  <1> HIDE DEF rec
  <1>3. RingTypeOK /\ NumsOK /\ slot \in [Slots -> SlotStates]
    BY SaverFacts DEF RingTypeOK, SlotStates
  <1>4. pread' \in Positions /\ minVisit' \in Nat
    <2>1. CASE saver.moved
      BY <1>3, <2>1, UpdatePreadFacts DEF SaverKeepEnd
    <2>2. CASE ~saver.moved
      BY <1>3, <2>2 DEF SaverKeepEnd, RingTypeOK
    <2> QED BY <2>1, <2>2
  <1>5. RingTypeOK' /\ NumsOK' /\ refNum' = refNum /\ (\A r \in Refs : Held(r) => Held(r)')
    BY <1>1, <1>3, <1>4 DEF RingTypeOK, NumsOK, Held, Match
  <1> QED BY <1>1, <1>2, <1>5, AllKept, SaverKeeps

(***************************************************************************)
(* The walsenders.                                                         *)
(***************************************************************************)

LEMMA SenderFacts ==
    ASSUME IInv, NEW s \in Senders
    PROVE  /\ sender[s] \in SenderStates /\ RingTypeOK /\ NumsOK /\ refNum \in Nat
           /\ sender[s].ref \in Refs /\ flush \in Nat
           /\ sender[s].pc # "gone" => sender[s].ref.num # 0
           /\ sender[s].pc \in Working => Held(sender[s].ref)
           /\ Gone \in SenderStates /\ NoRef \in Refs
  <1>1. sender[s] \in SenderStates /\ RingTypeOK /\ NumsOK /\ refNum \in Nat /\ flush \in Nat
    BY TypeParts, WalFacts DEF IInv, RefsOK, RingTypeOK
  <1>2. sender[s].ref \in Refs
    BY <1>1 DEF SenderStates
  <1>3. NoRef \in Refs
    BY DEF NoRef, Refs
  <1>4. Gone \in SenderStates
    BY <1>1, <1>3 DEF Gone, SenderStates
  <1> QED BY <1>1, <1>2, <1>3, <1>4 DEF IInv, RefsOK

\* The replica asks for flushed WAL; its reference is new and weak.
LEMMA WalSndLoopStep ==
    ASSUME IInv, NEW s \in Senders, WalSndLoop(s)
    PROVE  IInv'
  <1>1. PICK i \in Slots, start \in Boundaries \cup {EndOf(n) : n \in 0 .. Len(wal)} :
             LET ref == [slot |-> i, num |-> refNum + 1]
             IN  /\ start <= flush
                 /\ NewRef(FALSE, ref)
                 /\ Set(s, [Gone EXCEPT !.pc = "loop", !.ref = ref, !.sent = start])
    BY DEF WalSndLoop
  <1> DEFINE ref == [slot |-> i, num |-> refNum + 1]
             rec == [Gone EXCEPT !.pc = "loop", !.ref = ref, !.sent = start]
  <1>2. /\ start <= flush /\ NewRef(FALSE, ref) /\ Set(s, rec)
        /\ UNCHANGED <<walVars, writer, saver>> /\ sender[s].pc = "gone"
    BY <1>1 DEF WalSndLoop
  <1>3. ref.slot = i /\ ref.num = refNum + 1
    OBVIOUS
  <1>4. RingTypeOK' /\ NumsOK' /\ KeptBut(0) /\ ref \in Refs /\ refNum' = refNum + 1
    BY <1>2, SenderFacts, NewRefFacts
  <1> HIDE DEF ref
  <1>5. start \in 0 .. flush
    <2>1. start \in Nat
      BY EndFacts, SenderFacts DEF IInv, Boundaries
    <2> QED BY <1>2, <2>1, SenderFacts
  <1>6. rec \in SenderStates /\ rec.ref = ref /\ rec.pc = "loop"
    <2>1. Gone \in SenderStates
      BY SenderFacts
    <2> QED BY <1>4, <1>5, <2>1 DEF SenderStates
  <1> HIDE DEF rec
  <1>7. KeptBut(sender[s].ref.num)
    BY <1>4 DEF KeptBut, Held
  <1>8. rec.ref.num # 0 /\ rec.pc \notin Working
    BY <1>3, <1>6, SenderFacts DEF Working
  <1> QED BY <1>2, <1>3, <1>4, <1>6, <1>7, <1>8, SenderKeeps

LEMMA WalSndExitStep ==
    ASSUME IInv, NEW s \in Senders, WalSndExit(s)
    PROVE  IInv'
  <1>1. ReleaseRef(sender[s].ref) /\ Set(s, Gone) /\ UNCHANGED <<walVars, writer, saver>>
    BY DEF WalSndExit
  <1>2. RingTypeOK' /\ NumsOK' /\ refNum' = refNum /\ KeptBut(sender[s].ref.num)
    BY <1>1, SenderFacts, ReleaseRefFacts
  <1>3. Gone \in SenderStates /\ Gone.ref = NoRef /\ Gone.pc = "gone" /\ Gone.pc \notin Working
    BY SenderFacts DEF Gone, Working
  <1> QED BY <1>1, <1>2, <1>3, SenderKeeps

\* A step of a walsender that gets a new weak reference.
LEMMA SenderRenews ==
    ASSUME IInv, NEW s \in Senders, sender[s].pc = "loop", UNCHANGED <<walVars, writer, saver>>,
           NEW i \in Slots, NEW ref, ref = [slot |-> i, num |-> refNum + 1],
           NewRef(FALSE, ref), Set(s, [sender[s] EXCEPT !.ref = ref])
    PROVE  IInv'
  <1> DEFINE rec == [sender[s] EXCEPT !.ref = ref]
  <1>1. RingTypeOK' /\ NumsOK' /\ KeptBut(0) /\ ref \in Refs /\ refNum' = refNum + 1
    BY SenderFacts, NewRefFacts
  <1>2. rec \in SenderStates /\ rec.ref = ref /\ rec.pc = "loop"
    BY <1>1, SenderFacts DEF SenderStates
  <1> HIDE DEF rec
  <1>3. KeptBut(sender[s].ref.num)
    BY <1>1 DEF KeptBut, Held
  <1>4. ref.num = refNum + 1
    OBVIOUS
  <1>5. rec.ref.num # 0 /\ rec.pc \notin Working
    BY <1>2, <1>4, SenderFacts DEF Working
  <1>6. Set(s, rec)
    BY DEF rec
  <1> QED BY <1>1, <1>2, <1>3, <1>4, <1>5, <1>6, SenderKeeps

\* A step of a walsender that keeps its reference.
LEMMA SenderGoesOn ==
    ASSUME IInv, NEW s \in Senders, NEW rec \in SenderStates, rec.ref = sender[s].ref, sender[s].pc # "gone",
           Set(s, rec), UNCHANGED <<walVars, writer, saver>>,
           RingTypeOK', NumsOK', refNum' = refNum, KeptBut(sender[s].ref.num),
           rec.pc \in Working => HeldAfter(sender[s].ref)
    PROVE  IInv'
  <1>1. rec.ref.num # 0
    BY SenderFacts
  <1> QED BY <1>1, SenderKeeps

\* A reference is made strong for the round of work that begins, or weak at its end.
LEMMA StrongStep ==
    ASSUME IInv, NEW s \in Senders, NEW rec \in SenderStates, rec.ref = sender[s].ref, sender[s].pc # "gone",
           Set(s, rec), UNCHANGED <<walVars, writer, saver>>, NEW b \in BOOLEAN,
           Match(sender[s].ref), SetStrong(sender[s].ref, b), rec.pc \in Working => b
    PROVE  IInv'
  <1>1. sender[s].ref \in Refs /\ sender[s].ref.num # 0 /\ RingTypeOK /\ NumsOK
    BY SenderFacts
  <1>2. /\ RingTypeOK' /\ NumsOK' /\ refNum' = refNum /\ KeptBut(sender[s].ref.num)
        /\ b => HeldAfter(sender[s].ref)
    BY <1>1, SetStrongFacts
  <1> QED BY <1>2, SenderGoesOn

\* A packet is stepped over by the walsender that works with the reference.
LEMMA PassStep ==
    ASSUME IInv, NEW s \in Senders, NEW rec \in SenderStates, rec.ref = sender[s].ref,
           sender[s].pc \in Working, Set(s, rec), UNCHANGED <<walVars, writer, saver>>,
           UpdateRef(sender[s].ref)
    PROVE  IInv'
  <1>1. /\ sender[s].ref \in Refs /\ RingTypeOK /\ NumsOK /\ Held(sender[s].ref)
        /\ sender[s].pc # "gone"
    BY SenderFacts DEF Working
  <1>2. RingTypeOK' /\ NumsOK' /\ refNum' = refNum /\ (\A r \in Refs : Held(r) => Held(r)')
    BY <1>1, UpdateRefFacts
  <1>3. HeldAfter(sender[s].ref)
    BY <1>1, <1>2 DEF Held, Match, HeldAfter
  <1>4. KeptBut(sender[s].ref.num)
    BY <1>2, AllKept
  <1> QED BY <1>1, <1>2, <1>3, <1>4, SenderGoesOn

LEMMA CheckBeginStep ==
    ASSUME IInv, NEW s \in Senders, CheckBegin(s)
    PROVE  IInv'
  <1>1. sender[s].pc = "loop" /\ UNCHANGED <<walVars, writer, saver>> /\ sender[s] \in SenderStates
    BY SenderFacts DEF CheckBegin
  <1>2. CASE Match(sender[s].ref)
    <2> DEFINE rec == [sender[s] EXCEPT !.pc = "check", !.found = FALSE]
    <2>1. SetStrong(sender[s].ref, TRUE) /\ Set(s, rec)
      BY <1>2 DEF CheckBegin
    <2>2. rec \in SenderStates /\ rec.ref = sender[s].ref
      BY <1>1 DEF SenderStates
    <2> HIDE DEF rec
    <2> QED BY <1>1, <1>2, <2>1, <2>2, StrongStep
  <1>3. CASE ~Match(sender[s].ref)
    <2>1. PICK i \in Slots : LET ref == [slot |-> i, num |-> refNum + 1]
                             IN  NewRef(FALSE, ref) /\ Set(s, [sender[s] EXCEPT !.ref = ref])
      BY <1>3 DEF CheckBegin
    <2> QED BY <1>1, <2>1, SenderRenews
  <1> QED BY <1>2, <1>3

LEMMA CheckSkipStep ==
    ASSUME IInv, NEW s \in Senders, CheckSkip(s)
    PROVE  IInv'
  <1> DEFINE rec == [sender[s] EXCEPT !.found = TRUE]
  <1>1. /\ sender[s].pc \in Working /\ UpdateRef(sender[s].ref) /\ Set(s, rec)
        /\ UNCHANGED <<walVars, writer, saver>> /\ sender[s] \in SenderStates
    BY SenderFacts DEF CheckSkip, Working
  <1>2. rec \in SenderStates /\ rec.ref = sender[s].ref
    BY <1>1 DEF SenderStates
  <1> HIDE DEF rec
  <1> QED BY <1>1, <1>2, PassStep

LEMMA CheckEndStep ==
    ASSUME IInv, NEW s \in Senders, CheckEnd(s)
    PROVE  IInv'
  <1>1. PICK found \in BOOLEAN :
           /\ sender[s].pc = "check" /\ SetStrong(sender[s].ref, FALSE)
           /\ Set(s, [sender[s] EXCEPT !.pc = IF found THEN "queue" ELSE "files",
                                      !.checked = found, !.found = FALSE])
           /\ UNCHANGED <<walVars, writer, saver>>
    <2> DEFINE ready == NextReady(sender[s].ref)
               here == NextStart(sender[s].ref) <= sender[s].sent
               f == sender[s].found \/ (ready /\ here)
    <2>1. f \in BOOLEAN
      OBVIOUS
    <2> WITNESS f \in BOOLEAN
    <2> QED BY DEF CheckEnd
  <1> DEFINE rec == [sender[s] EXCEPT !.pc = IF found THEN "queue" ELSE "files",
                                      !.checked = found, !.found = FALSE]
  <1>2. sender[s] \in SenderStates /\ Match(sender[s].ref)
    BY <1>1, SenderFacts DEF Working, Held
  <1>3. rec \in SenderStates /\ rec.ref = sender[s].ref /\ rec.pc \in {"queue", "files"}
    BY <1>2 DEF SenderStates
  <1>4. Set(s, rec)
    BY <1>1
  <1> HIDE DEF rec
  <1>5. rec.pc \notin Working
    BY <1>3 DEF Working
  <1> QED BY <1>1, <1>2, <1>3, <1>4, <1>5, StrongStep

LEMMA QueueBeginStep ==
    ASSUME IInv, NEW s \in Senders, QueueBegin(s)
    PROVE  IInv'
  <1>1. sender[s].pc # "gone" /\ UNCHANGED <<walVars, writer, saver>> /\ sender[s] \in SenderStates
    BY SenderFacts DEF QueueBegin
  <1>2. CASE Match(sender[s].ref)
    <2> DEFINE rec == [sender[s] EXCEPT !.pc = "next"]
    <2>1. SetStrong(sender[s].ref, TRUE) /\ Set(s, rec)
      BY <1>2 DEF QueueBegin
    <2>2. rec \in SenderStates /\ rec.ref = sender[s].ref
      BY <1>1 DEF SenderStates
    <2> HIDE DEF rec
    <2> QED BY <1>1, <1>2, <2>1, <2>2, StrongStep
  <1>3. CASE ~Match(sender[s].ref)
    <2> DEFINE rec == [sender[s] EXCEPT !.pc = "files", !.checked = FALSE]
    <2>1. Set(s, rec) /\ UNCHANGED ringVars
      BY <1>3 DEF QueueBegin
    <2>2. rec \in SenderStates /\ rec.ref = sender[s].ref /\ rec.pc \notin Working
      BY <1>1 DEF SenderStates, Working
    <2> HIDE DEF rec
    <2>3. RingTypeOK' /\ NumsOK' /\ refNum' = refNum /\ KeptBut(sender[s].ref.num)
      BY <2>1, RingStays, AllKept
    <2> QED BY <1>1, <2>1, <2>2, <2>3, SenderGoesOn
  <1> QED BY <1>2, <1>3

LEMMA QueueNothingStep ==
    ASSUME IInv, NEW s \in Senders, QueueNothing(s)
    PROVE  IInv'
  <1> DEFINE rec == [sender[s] EXCEPT !.pc = "loop"]
  <1>1. /\ sender[s].pc = "next" /\ SetStrong(sender[s].ref, FALSE) /\ Set(s, rec)
        /\ UNCHANGED <<walVars, writer, saver>>
    BY DEF QueueNothing
  <1>2. sender[s] \in SenderStates /\ Match(sender[s].ref)
    BY <1>1, SenderFacts DEF Working, Held
  <1>3. rec \in SenderStates /\ rec.ref = sender[s].ref /\ rec.pc \notin Working
    BY <1>2 DEF SenderStates, Working
  <1> HIDE DEF rec
  <1> QED BY <1>1, <1>2, <1>3, StrongStep

LEMMA QueuePopStep ==
    ASSUME IInv, NEW s \in Senders, QueuePop(s)
    PROVE  IInv'
  <1> DEFINE lsn == NextCell(sender[s].ref).lsn
             rec == [sender[s] EXCEPT !.pc = "pop", !.max = lsn]
  <1>1. /\ sender[s].pc \in Working /\ lsn <= flush /\ UpdateRef(sender[s].ref) /\ Set(s, rec)
        /\ UNCHANGED <<walVars, writer, saver>>
    BY DEF QueuePop, SenderHasNext, Working
  <1>2. /\ sender[s] \in SenderStates /\ RingTypeOK /\ flush \in Nat /\ sender[s].ref.slot \in Slots
    BY <1>1, SenderFacts DEF Held, Match
  <1>3. lsn \in 0 .. flush
    BY <1>1, <1>2, NextCellFacts
  <1> HIDE DEF lsn
  <1>4. rec \in SenderStates /\ rec.ref = sender[s].ref
    BY <1>2, <1>3 DEF SenderStates
  <1> HIDE DEF rec
  <1> QED BY <1>1, <1>4, PassStep

LEMMA QueueSendStep ==
    ASSUME IInv, NEW s \in Senders, QueueSend(s)
    PROVE  IInv'
  <1> DEFINE max == sender[s].max
             rec == [sender[s] EXCEPT !.pc = "loop", !.sent = max, !.last = max, !.max = 0]
  <1>1. /\ sender[s].pc = "pop" /\ SetStrong(sender[s].ref, FALSE) /\ Set(s, rec)
        /\ UNCHANGED <<walVars, writer, saver>>
    BY DEF QueueSend
  <1>2. sender[s] \in SenderStates /\ Match(sender[s].ref) /\ flush \in Nat
    BY <1>1, SenderFacts DEF Working, Held
  <1>3. max \in 0 .. flush
    BY <1>2 DEF SenderStates
  <1> HIDE DEF max
  <1>4. rec \in SenderStates /\ rec.ref = sender[s].ref /\ rec.pc \notin Working
    <2> DEFINE half == [sender[s] EXCEPT !.pc = "loop", !.sent = max]
    <2>1. half \in SenderStates /\ half.ref = sender[s].ref /\ half.pc \notin Working
      BY <1>2, <1>3 DEF SenderStates, Working
    <2>2. rec = [half EXCEPT !.last = max, !.max = 0] /\ 0 \in 0 .. flush
      BY <1>2 DEF SenderStates
    <2> HIDE DEF half, rec
    <2> QED BY <1>3, <2>1, <2>2 DEF SenderStates
  <1> HIDE DEF rec
  <1> QED BY <1>1, <1>2, <1>4, StrongStep

LEMMA FilesStep ==
    ASSUME IInv, NEW s \in Senders, XLogSendPhysicalExt(s)
    PROVE  IInv'
  <1>1. PICK upto \in {flush} \cup {lsn \in Boundaries : lsn > sender[s].sent} :
           Set(s, [sender[s] EXCEPT !.pc = "loop", !.sent = upto])
    BY DEF XLogSendPhysicalExt
  <1> DEFINE rec == [sender[s] EXCEPT !.pc = "loop", !.sent = upto]
  <1>2. sender[s] \in SenderStates /\ flush \in Nat /\ sender[s].pc # "gone"
    BY SenderFacts DEF XLogSendPhysicalExt
  <1>3. upto \in 0 .. flush
    BY <1>2 DEF Boundaries
  <1>4. rec \in SenderStates /\ rec.ref = sender[s].ref /\ rec.pc \notin Working
    BY <1>2, <1>3 DEF SenderStates, Working
  <1>5. Set(s, rec) /\ UNCHANGED <<ringVars, walVars, writer, saver>>
    BY <1>1 DEF XLogSendPhysicalExt
  <1> HIDE DEF rec
  <1>6. RingTypeOK' /\ NumsOK' /\ refNum' = refNum /\ KeptBut(sender[s].ref.num)
    BY <1>5, RingStays, AllKept
  <1> QED BY <1>2, <1>4, <1>5, <1>6, SenderGoesOn

(***************************************************************************)
(* The theorems.                                                           *)
(***************************************************************************)

LEMMA Stutter ==
    ASSUME IInv, UNCHANGED vars
    PROVE  IInv'
  <1>1. UNCHANGED <<ringVars, walVars, writer, saver, sender>>
    BY DEF vars
  <1>2. RingTypeOK' /\ NumsOK' /\ refNum' = refNum /\ (\A r \in Refs : Held(r) => Held(r)')
    BY <1>1, RingStays
  <1>3. saver \in SaverStates
    BY SaverFacts
  <1> QED BY <1>1, <1>2, <1>3, AllKept, SaverKeeps

LEMMA NextKeeps ==
    ASSUME IInv, [Next]_vars
    PROVE  IInv'
  <1>1. ASSUME NEW w \in Writers, WriterStep(w) \/ \E len \in Lens : XLogInsertBegin(w, len)
        PROVE  IInv'
    <2>1. CASE \E len \in Lens : XLogInsertBegin(w, len)
      BY <2>1, BeginStep
    <2>2. CASE ReserveXLogInsertLocation(w)
      BY <2>2, ReserveStep
    <2>3. CASE QueueFull(w)
      BY <2>3, QueueFullStep
    <2>4. CASE FreeUp(w)
      BY <2>4, FreeUpStep
    <2>5. CASE SetLength(w)
      BY <2>5, SetLengthStep
    <2>6. CASE CopyXLogRecordToWAL(w)
      BY <2>6, CopyStep
    <2>7. CASE AdvanceXLInsertBuffer(w)
      BY <2>7, AdvanceStep
    <2>8. CASE PushContent(w)
      BY <2>8, PushContentStep
    <2>9. CASE PushFlag(w)
      BY <2>9, PushFlagStep
    <2> QED BY <1>1, <2>1, <2>2, <2>3, <2>4, <2>5, <2>6, <2>7, <2>8, <2>9 DEF WriterStep
  <1>2. CASE FlushStep
    BY <1>2, FlushBeginStep, SeenStep, WriteStep DEF FlushStep
  <1>3. CASE SaverStep
    BY <1>3, SaverAttachStep, SaverPopStep, SaverKeepBeginStep, SaverKeepStepStep, SaverKeepEndStep
       DEF SaverStep
  <1>4. ASSUME NEW s \in Senders, SenderStep(s) \/ WalSndLoop(s) \/ WalSndExit(s)
        PROVE  IInv'
    <2>1. CASE WalSndLoop(s)
      BY <2>1, WalSndLoopStep
    <2>2. CASE WalSndExit(s)
      BY <2>2, WalSndExitStep
    <2>3. CASE CheckBegin(s)
      BY <2>3, CheckBeginStep
    <2>4. CASE CheckSkip(s)
      BY <2>4, CheckSkipStep
    <2>5. CASE CheckEnd(s)
      BY <2>5, CheckEndStep
    <2>6. CASE QueueBegin(s)
      BY <2>6, QueueBeginStep
    <2>7. CASE QueueNothing(s)
      BY <2>7, QueueNothingStep
    <2>8. CASE QueuePop(s)
      BY <2>8, QueuePopStep
    <2>9. CASE QueueSend(s)
      BY <2>9, QueueSendStep
    <2>10. CASE XLogSendPhysicalExt(s)
      BY <2>10, FilesStep
    <2> QED BY <1>4, <2>1, <2>2, <2>3, <2>4, <2>5, <2>6, <2>7, <2>8, <2>9, <2>10 DEF SenderStep
  <1>5. CASE UNCHANGED vars
    BY <1>5, Stutter
  <1> QED BY <1>1, <1>2, <1>3, <1>4, <1>5 DEF Next

\* The inductive invariant: types, ends of records in order with the insert
\* position, and who holds which reference.
THEOREM Invariance == Spec => []IInv
  BY IInvInit, NextKeeps, PTL DEF Spec

\* Every variable of the queue keeps its type: LSNs of readers never pass the
\* flushed WAL, nor those the written WAL, nor that the reserved WAL, and every
\* read and write position stays inside the ring.
THEOREM TypeCorrect == Spec => []TypeOK
  <1>1. IInv => TypeOK
    BY DEF IInv
  <1> QED BY <1>1, Invariance, PTL

\* Between polar_ringbuf_get_ref and polar_ringbuf_clear_ref a walsender's slot
\* is its own, whatever the inserters that look for space evict and whichever
\* slots the others take and give back: the PANIC of clear_ref is not reached.
THEOREM WorkingReferencesStay == Spec => []WorkingRefHeld
  <1>1. IInv => WorkingRefHeld
    BY DEF IInv, RefsOK, Working, Held, WorkingRefHeld
  <1> QED BY <1>1, Invariance, PTL

===========================================================================
