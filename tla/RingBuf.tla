---------------------------- MODULE RingBuf ----------------------------
(***************************************************************************)
(* The ring buffer of polar_ringbuf.c: a byte ring filled with packets,    *)
(* read through references.  Each reference occupies a slot with its own   *)
(* read position; a weak reference may be evicted by a writer that needs   *)
(* space, a strong one may not.  A process keeps a handle (slot, number)   *)
(* and finds out that its slot was taken away by comparing the number.     *)
(*                                                                         *)
(* Read positions in a ring cannot be compared, so every slot counts the   *)
(* packets it passed ("visit"), and the slot with the least count is the   *)
(* one furthest behind.                                                    *)
(*                                                                         *)
(* Positions are counted in units; the first unit of a packet holds its    *)
(* flag and its length.  Every operator below is one critical section of   *)
(* the ring's LWLock, or one access made without it.                       *)
(***************************************************************************)
EXTENDS Integers, FiniteSets

CONSTANTS
    Size,       \* units of data in the ring (rbuf->size)
    Slots,      \* the slots, 1 .. POLAR_RINGBUF_MAX_SLOT
    MaxRefNum   \* bound: references ever created

ASSUME SizeAssumption == Size \in Nat /\ Size > 1
ASSUME SlotsAssumption == Slots \subseteq Nat \ {0} /\ IsFiniteSet(Slots)

VARIABLES
    cells,      \* data: what each unit holds
    pread,      \* least read position
    pwrite,     \* write position
    slot,       \* the slots; a zeroed slot is not occupied
    minVisit,   \* visit count that belongs to pread
    refNum      \* number of the newest reference

ringVars == <<cells, pread, pwrite, slot, minVisit, refNum>>

Positions == 0 .. Size - 1

\* A slot after MemSet(0).  Slots are occupied and zeroed together, so the
\* occupied bitmap is the set of slots with a number.
ZeroSlot == [strong |-> FALSE, pread |-> 0, visit |-> 0, num |-> 0]

\* A unit nobody has written.  "lsn" stands for the packet's content.
ZeroCell == [ready |-> FALSE, len |-> 0, lsn |-> 0]

\* A handle that was never filled or was released (ref->rbuf == NULL).
NoRef == [slot |-> 0, num |-> 0]

Occupied(s) == {i \in Slots : s[i].num # 0}

RingInit ==
    /\ cells = [u \in Positions |-> ZeroCell]
    /\ pread = 0 /\ pwrite = 0
    /\ slot = [i \in Slots |-> ZeroSlot]
    /\ minVisit = 0 /\ refNum = 0

\* RINGBUF_REF_MATCH: the slot still belongs to this handle.
Match(ref) == ref.slot \in Slots /\ slot[ref.slot].num = ref.num

FreeSize == (IF pread - pwrite <= 0 THEN pread - pwrite + Size ELSE pread - pwrite) - 1

Avail(ref) == (pwrite - slot[ref.slot].pread) % Size

\* The header of the next packet of a reference.
NextCell(ref) == cells[slot[ref.slot].pread]

\* polar_ringbuf_next_ready_pkt, called as everywhere after a test of avail.
NextReady(ref) == Avail(ref) > 0 /\ NextCell(ref).ready

\* The slot with the least visit count; among equals the lowest slot, which is
\* the first one the scan meets.
LeastVisited(s, S) ==
    CHOOSE i \in S : \A j \in S : s[i].visit < s[j].visit \/ (s[i].visit = s[j].visit /\ i <= j)

\* Whether polar_ringbuf_update_pread moves the least read position.
PreadMoves(s) ==
    /\ Occupied(s) # {}
    /\ s[LeastVisited(s, Occupied(s))].visit # minVisit

\* polar_ringbuf_update_pread on the slots s.
UpdatePread(s) ==
    IF PreadMoves(s)
    THEN LET m == LeastVisited(s, Occupied(s))
         IN  minVisit' = s[m].visit /\ pread' = s[m].pread
    ELSE UNCHANGED <<minVisit, pread>>

\* Slip: the count of a new reference starts at zero.
NewRefVisitZero(strong, ref) ==
    /\ refNum < MaxRefNum
    /\ ref.slot \in Slots \ Occupied(slot)
    /\ \A j \in Slots \ Occupied(slot) : ref.slot <= j
    /\ ref.num = refNum + 1
    /\ refNum' = refNum + 1
    /\ slot' = [slot EXCEPT ![ref.slot] =
                  [strong |-> strong, pread |-> pread, visit |-> 0, num |-> ref.num]]
    /\ UNCHANGED <<cells, pread, pwrite, minVisit>>

\* polar_ringbuf_new_ref: take the lowest free slot, start at the least read
\* position.  ref is the handle the caller gets.
NewRef(strong, ref) ==
    /\ refNum < MaxRefNum
    /\ ref.slot \in Slots \ Occupied(slot)
    /\ \A j \in Slots \ Occupied(slot) : ref.slot <= j
    /\ ref.num = refNum + 1
    /\ refNum' = refNum + 1
    /\ slot' = [slot EXCEPT ![ref.slot] =
                  [strong |-> strong, pread |-> pread, visit |-> minVisit, num |-> ref.num]]
    /\ UNCHANGED <<cells, pread, pwrite, minVisit>>

\* polar_ringbuf_release_ref
ReleaseRef(ref) ==
    /\ IF Match(ref)
       THEN /\ slot' = [slot EXCEPT ![ref.slot] = ZeroSlot]
            /\ UpdatePread(slot')
       ELSE UNCHANGED <<slot, pread, minVisit>>
    /\ UNCHANGED <<cells, pwrite, refNum>>

\* polar_ringbuf_get_ref and polar_ringbuf_clear_ref, when the handle matches.
SetStrong(ref, strong) ==
    /\ slot' = [slot EXCEPT ![ref.slot].strong = strong]
    /\ UNCHANGED <<cells, pread, pwrite, minVisit, refNum>>

\* Slip: the read position does not wrap.
UpdateRefNoWrap(ref) ==
    /\ slot' = [slot EXCEPT ![ref.slot].pread = @ + NextCell(ref).len,
                            ![ref.slot].visit = @ + 1]
    /\ UNCHANGED <<cells, pread, pwrite, minVisit, refNum>>

\* polar_ringbuf_update_ref: step over the packet at the read position.
UpdateRef(ref) ==
    /\ slot' = [slot EXCEPT ![ref.slot].pread = (@ + NextCell(ref).len) % Size,
                            ![ref.slot].visit = @ + 1]
    /\ UNCHANGED <<cells, pread, pwrite, minVisit, refNum>>

\* Slip: strong references are evicted too.
EvictableAny ==
    LET m == LeastVisited(slot, Occupied(slot))
    IN  IF Occupied(slot) # {} /\ slot[m].pread = pread THEN {m} ELSE {}

\* The weak slot polar_ringbuf_evict_ref would evict: the one with the least
\* visit count, if it stands at the least read position.
Evictable ==
    LET weak == {i \in Occupied(slot) : ~slot[i].strong}
        m == LeastVisited(slot, weak)
    IN  IF weak # {} /\ slot[m].pread = pread THEN {m} ELSE {}

\* One round of the loop of polar_ringbuf_free_up that found too little space.
FreeUpRound ==
    /\ \/ /\ PreadMoves(slot)
          /\ UpdatePread(slot)
          /\ UNCHANGED slot
       \/ /\ ~PreadMoves(slot)
          /\ \E m \in Evictable : slot' = [slot EXCEPT ![m] = ZeroSlot]
          /\ UNCHANGED <<pread, minVisit>>
    /\ UNCHANGED <<cells, pwrite, refNum>>

\* Slip: the flag left from the last lap stays set.
PktReserveKeepFlag(len) ==
    /\ pwrite' = (pwrite + len) % Size
    /\ UNCHANGED <<cells, pread, slot, minVisit, refNum>>

\* polar_ringbuf_pkt_reserve; the caller holds insertpos_lck.
PktReserve(len) ==
    /\ cells' = [cells EXCEPT ![pwrite].ready = FALSE]
    /\ pwrite' = (pwrite + len) % Size
    /\ UNCHANGED <<pread, slot, minVisit, refNum>>

SetPktLength(idx, len) ==
    /\ cells' = [cells EXCEPT ![idx].len = len]
    /\ UNCHANGED <<pread, pwrite, slot, minVisit, refNum>>

\* polar_ringbuf_pkt_write: the content of the packet, over the length its
\* header names; a unit of the body loses whatever header it once held.
PktWrite(idx, lsn) ==
    /\ cells' = [u \in Positions |->
                   IF u = idx THEN [cells[u] EXCEPT !.lsn = lsn]
                   ELSE IF (u - idx) % Size < cells[idx].len THEN [ZeroCell EXCEPT !.lsn = lsn]
                   ELSE cells[u]]
    /\ UNCHANGED <<pread, pwrite, slot, minVisit, refNum>>

SetPktFlag(idx) ==
    /\ cells' = [cells EXCEPT ![idx].ready = TRUE]
    /\ UNCHANGED <<pread, pwrite, slot, minVisit, refNum>>

RingTypeOK ==
    /\ cells \in [Positions -> [ready : BOOLEAN, len : Nat, lsn : Nat]]
    /\ pread \in Positions /\ pwrite \in Positions
    /\ slot \in [Slots -> [strong : BOOLEAN, pread : Positions, visit : Nat, num : Nat]]
    /\ minVisit \in Nat /\ refNum \in Nat

=============================================================================
