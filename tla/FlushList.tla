---------------------------- MODULE FlushList -----------------------------
(***************************************************************************)
(* The flush list of storage/buffer/polar_flush.c: a doubly linked list    *)
(* threaded through the buffer descriptors (flush_next, flush_prev) in     *)
(* ascending order of oldest_lsn, with a cursor (current_pos) from which   *)
(* the parallel bgwriters draw batches.  Its head gives the consistent LSN *)
(* of the instance, so a lost link or a buffer out of order would let a    *)
(* checkpoint skip changes that are not on storage.                        *)
(*                                                                         *)
(* Every function of the file runs under the spinlock flushlist_lock and   *)
(* is one action; polar_get_batch_buffer, which loops, is three actions    *)
(* that hold the lock.                                                     *)
(***************************************************************************)
EXTENDS Naturals

CONSTANTS
    Buffers,            \* buffer ids
    EndOfList,          \* POLAR_FLUSHNEXT_END_OF_LIST
    NotInList,          \* POLAR_FLUSHNEXT_NOT_IN_LIST
    FlushBatchSize,     \* polar_bgwriter_flush_batch_size: length of a batch
    RoundSize,          \* polar_bgwriter_batch_size: buffers drawn before the
                        \* cursor goes back to the head
    MaxLsn              \* bound of the model on LSNs

InvalidLsn == 0

ASSUME EndsAssumption ==
    /\ EndOfList \notin Buffers
    /\ NotInList \notin Buffers
    /\ EndOfList # NotInList

ASSUME SizesAssumption ==
    /\ FlushBatchSize \in Nat \ {0}
    /\ RoundSize \in Nat
    /\ MaxLsn \in Nat \ {0}

VARIABLES
    list,       \* first/last_flush_buffer, current_pos, flush_next, flush_prev
    flushCount, \* latest_flush_count
    oldest,     \* oldest_lsn of every buffer
    insertLsn,  \* the LSN handed to a buffer that enters the list
    walker,     \* local state of polar_get_batch_buffer while it runs
    batch,      \* the buffers of the batch being drawn or last drawn
    panicked,   \* append_one_buffer raised its PANIC
    order       \* history: the pairs <<b, c>> with b linked in before c

vars == <<list, flushCount, oldest, insertLsn, walker, batch, panicked, order>>

Ids == Buffers \cup {EndOfList, NotInList}
Idle == [running |-> FALSE, id |-> NotInList, num |-> 0]

---------------------------------------------------------------------------
(* Linking and unlinking.                                                  *)

Members(l) == {b \in Buffers : l.next[b] # NotInList}

\* polar_flush_list_is_empty()
IsEmpty(l) == l.first = EndOfList /\ l.last = EndOfList

\* Slip: remove_one_buffer leaves the back link of the successor alone.
RemovedKeepingBackLink(l, b) ==
    LET p == l.prev[b]
        n == l.next[b]
        head == IF p = EndOfList THEN n ELSE l.first
    IN  [first |-> head,
         last  |-> IF n = EndOfList THEN p ELSE l.last,
         pos   |-> IF b # l.pos THEN l.pos
                   ELSE IF n = EndOfList THEN head ELSE n,
         next  |-> [x \in Buffers |-> IF x = b THEN NotInList
                                      ELSE IF x = p THEN n ELSE l.next[x]],
         prev  |-> [l.prev EXCEPT ![b] = NotInList]]

\* remove_one_buffer().  The four cases of the code differ only in which
\* neighbours exist; a missing neighbour is EndOfList.
Removed(l, b) ==
    LET p == l.prev[b]
        n == l.next[b]
        head == IF p = EndOfList THEN n ELSE l.first
    IN  [first |-> head,
         last  |-> IF n = EndOfList THEN p ELSE l.last,
         pos   |-> IF b # l.pos THEN l.pos
                   ELSE IF n = EndOfList THEN head ELSE n,
         next  |-> [x \in Buffers |-> IF x = b THEN NotInList
                                      ELSE IF x = p THEN n ELSE l.next[x]],
         prev  |-> [x \in Buffers |-> IF x = b THEN NotInList
                                      ELSE IF x = n THEN p ELSE l.prev[x]]]

\* Slip: append_one_buffer links a new buffer in at the head.
Prepended(l, b) ==
    IF IsEmpty(l)
    THEN [l EXCEPT !.first = b, !.last = b,
                   !.next[b] = EndOfList, !.prev[b] = EndOfList]
    ELSE [l EXCEPT !.first = b, !.next[b] = l.first, !.prev[b] = EndOfList,
                   !.prev[l.first] = b]

\* append_one_buffer(), past its check of the order.
Appended(l, b) ==
    IF IsEmpty(l)
    THEN [first |-> b,
          last  |-> b,
          pos   |-> l.pos,
          next  |-> [l.next EXCEPT ![b] = EndOfList],
          prev  |-> [l.prev EXCEPT ![b] = EndOfList]]
    ELSE [first |-> l.first,
          last  |-> b,
          pos   |-> l.pos,
          next  |-> [x \in Buffers |-> IF x = b THEN EndOfList
                                       ELSE IF x = l.last THEN b ELSE l.next[x]],
          prev  |-> [l.prev EXCEPT ![b] = l.last]]

\* The PANIC of append_one_buffer: the tail has a larger LSN than b.
OutOfOrder(l, lsns, b) == ~IsEmpty(l) /\ lsns[l.last] > lsns[b]

\* The history of removing b from, and of appending b to, a list.
OrderWithout(o, b) == {pair \in o : pair[1] # b /\ pair[2] # b}
OrderWith(o, l, b) == o \cup {<<c, b>> : c \in Members(l)}

---------------------------------------------------------------------------
(* polar_init_flush_list_ctl().  Recovery hands out the start of the       *)
(* record being replayed and a primary the insert position; both only move *)
(* forward, so one clock stands for them.                                  *)
Init ==
    /\ list = [first |-> EndOfList,
               last  |-> EndOfList,
               pos   |-> NotInList,
               next  |-> [b \in Buffers |-> NotInList],
               prev  |-> [b \in Buffers |-> NotInList]]
    /\ flushCount = 0
    /\ oldest = [b \in Buffers |-> InvalidLsn]
    /\ insertLsn = 1
    /\ walker = Idle
    /\ batch = {}
    /\ panicked = FALSE
    /\ order = {}

Unlocked == ~walker.running /\ ~panicked

\* WAL is written (or replayed).
AdvanceLsn ==
    /\ insertLsn < MaxLsn
    /\ insertLsn' = insertLsn + 1
    /\ UNCHANGED <<list, flushCount, oldest, walker, batch, panicked, order>>

\* Slip: the LSN was read before the spinlock was taken.
PutBufferWithStaleLsn(b) ==
    \E stale \in 1 .. insertLsn :
    LET lsns == [oldest EXCEPT ![b] = stale] IN
    /\ Unlocked
    /\ oldest[b] = InvalidLsn
    /\ oldest' = lsns
    /\ IF OutOfOrder(list, lsns, b)
       THEN /\ panicked' = TRUE
            /\ UNCHANGED <<list, order>>
       ELSE /\ list' = Appended(list, b)
            /\ order' = OrderWith(order, list, b)
            /\ UNCHANGED panicked
    /\ UNCHANGED <<flushCount, insertLsn, walker, batch>>

\* polar_put_buffer_to_flush_list(): called for a buffer without oldest_lsn;
\* the LSN is read inside the spinlock.
PutBuffer(b) ==
    LET lsns == [oldest EXCEPT ![b] = insertLsn] IN
    /\ Unlocked
    /\ oldest[b] = InvalidLsn
    /\ oldest' = lsns
    /\ IF OutOfOrder(list, lsns, b)
       THEN /\ panicked' = TRUE
            /\ UNCHANGED <<list, order>>
       ELSE /\ list' = Appended(list, b)
            /\ order' = OrderWith(order, list, b)
            /\ UNCHANGED panicked
    /\ UNCHANGED <<flushCount, insertLsn, walker, batch>>

\* polar_remove_buffer_from_flush_list(), called when the buffer was flushed
\* or dropped and has an oldest_lsn.
RemoveBuffer(b) ==
    /\ Unlocked
    /\ oldest[b] # InvalidLsn
    /\ oldest' = [oldest EXCEPT ![b] = InvalidLsn]
    /\ list' = Removed(list, b)
    /\ order' = OrderWithout(order, b)
    /\ UNCHANGED <<flushCount, insertLsn, walker, batch, panicked>>

\* Slip: the new LSN is set but the buffer keeps its place in the list.
AdjustBufferInPlace(b) ==
    /\ Unlocked
    /\ oldest[b] # InvalidLsn
    /\ oldest' = [oldest EXCEPT ![b] = insertLsn]
    /\ UNCHANGED <<list, order, flushCount, insertLsn, walker, batch, panicked>>

\* polar_adjust_position_in_flush_list(): a copied buffer is touched again.
AdjustBuffer(b) ==
    LET lsns == [oldest EXCEPT ![b] = insertLsn]
        without == Removed(list, b)
    IN
    /\ Unlocked
    /\ oldest[b] # InvalidLsn
    /\ oldest' = lsns
    /\ IF list.next[b] = EndOfList
       THEN UNCHANGED <<list, order, panicked>>
       ELSE IF OutOfOrder(without, lsns, b)
       THEN /\ panicked' = TRUE
            /\ list' = without
            /\ order' = OrderWithout(order, b)
       ELSE /\ list' = Appended(without, b)
            /\ order' = OrderWith(OrderWithout(order, b), without, b)
            /\ UNCHANGED panicked
    /\ UNCHANGED <<flushCount, insertLsn, walker, batch>>

---------------------------------------------------------------------------
(* polar_get_batch_buffer().                                               *)

\* An empty list gives an empty batch and leaves the cursor alone.
BatchOfEmptyList ==
    /\ Unlocked
    /\ IsEmpty(list)
    /\ batch' = {}
    /\ UNCHANGED <<list, flushCount, oldest, insertLsn, walker, panicked, order>>

\* Slip: the initial cursor is not replaced by the head.
StartAtCursor == list.pos

\* current_pos_is_unavailable(): the cursor was never set.
Start == IF list.pos = NotInList THEN list.first ELSE list.pos

BatchBegin ==
    /\ Unlocked
    /\ ~IsEmpty(list)
    /\ list' = [list EXCEPT !.pos = Start]
    /\ walker' = [running |-> TRUE, id |-> Start, num |-> 0]
    /\ batch' = {}
    /\ UNCHANGED <<flushCount, oldest, insertLsn, panicked, order>>

WalkOn == walker.num < FlushBatchSize /\ walker.id # EndOfList

\* One turn of the loop.
BatchStep ==
    /\ walker.running
    /\ WalkOn
    /\ batch' = batch \cup {walker.id}
    /\ walker' = [walker EXCEPT !.id = list.next[walker.id], !.num = @ + 1]
    /\ UNCHANGED <<list, flushCount, oldest, insertLsn, panicked, order>>

\* Slip: the counter of the round is decreased.
CountedDown == flushCount - walker.num

Counted == flushCount + walker.num
RoundDone == walker.id = EndOfList \/ Counted > RoundSize

\* Slip: at the end of a round only the counter is reset.
BatchEndStayingBehind ==
    /\ walker.running
    /\ ~WalkOn
    /\ list' = [list EXCEPT !.pos = IF walker.id = EndOfList THEN list.first
                                    ELSE walker.id]
    /\ flushCount' = IF RoundDone THEN 0 ELSE Counted
    /\ walker' = Idle
    /\ UNCHANGED <<oldest, insertLsn, batch, panicked, order>>

\* Where the next batch starts: after this one, or at the head again.
BatchEnd ==
    /\ walker.running
    /\ ~WalkOn
    /\ IF RoundDone
       THEN /\ list' = [list EXCEPT !.pos = list.first]
            /\ flushCount' = 0
       ELSE /\ list' = [list EXCEPT !.pos = walker.id]
            /\ flushCount' = Counted
    /\ walker' = Idle
    /\ UNCHANGED <<oldest, insertLsn, batch, panicked, order>>

GetBatch == BatchOfEmptyList \/ BatchBegin \/ BatchStep \/ BatchEnd

Next ==
    \/ AdvanceLsn
    \/ \E b \in Buffers : PutBuffer(b) \/ RemoveBuffer(b) \/ AdjustBuffer(b)
    \/ GetBatch

Spec == Init /\ [][Next]_vars

\* The bgwriters keep calling polar_get_batch_buffer.
FairSpec == Spec /\ WF_vars(GetBatch)

---------------------------------------------------------------------------
(* Correctness.                                                            *)

TypeOK ==
    /\ list \in [first : Ids, last : Ids, pos : Ids,
                 next : [Buffers -> Ids], prev : [Buffers -> Ids]]
    /\ flushCount \in Nat
    /\ oldest \in [Buffers -> Nat]
    /\ insertLsn \in Nat \ {0}
    /\ walker \in [running : BOOLEAN, id : Ids, num : Nat]
    /\ batch \subseteq Buffers
    /\ panicked \in BOOLEAN
    /\ order \subseteq Buffers \X Buffers

\* o is a strict total order of the set M.
TotalOrder(o, M) ==
    /\ o \subseteq M \X M
    /\ \A b \in M : <<b, b>> \notin o
    /\ \A b, c \in M : b # c => <<b, c>> \in o \/ <<c, b>> \in o
    /\ \A b, c, d \in M : <<b, c>> \in o /\ <<c, d>> \in o => <<b, d>> \in o

\* b comes right before c in o.
Adjacent(o, M, b, c) ==
    /\ <<b, c>> \in o
    /\ \A d \in M : ~(<<b, d>> \in o /\ <<d, c>> \in o)

\* The links of l spell out the order o: walking flush_next from the head, or
\* flush_prev from the tail, meets every member once.
Linked(l, o) ==
    LET M == Members(l) IN
    /\ TotalOrder(o, M)
    /\ \A b \in Buffers : l.prev[b] = NotInList <=> l.next[b] = NotInList
    /\ \A b \in M : IF l.next[b] = EndOfList
                    THEN \A c \in M : <<b, c>> \notin o
                    ELSE l.next[b] \in M /\ Adjacent(o, M, b, l.next[b])
    /\ \A b \in M : IF l.prev[b] = EndOfList
                    THEN \A c \in M : <<c, b>> \notin o
                    ELSE l.prev[b] \in M /\ Adjacent(o, M, l.prev[b], b)
    /\ IF l.first = EndOfList
       THEN M = {}
       ELSE l.first \in M /\ \A c \in M : <<c, l.first>> \notin o
    /\ IF l.last = EndOfList
       THEN M = {}
       ELSE l.last \in M /\ \A c \in M : <<l.last, c>> \notin o

\* The list stays a list through every insertion, removal and move, and holds
\* exactly the buffers that have an oldest_lsn (remove_one_buffer and
\* append_one_buffer keep both directions and both ends in step).
ListIntact ==
    /\ Linked(list, order)
    /\ ~panicked => Members(list) = {b \in Buffers : oldest[b] # InvalidLsn}

\* polar_cal_cur_consistent_lsn reads only the head of the list: no dirty
\* buffer may have a smaller oldest_lsn than the head.
HeadIsOldest ==
    \A b \in Buffers : oldest[b] # InvalidLsn =>
        /\ list.first \in Buffers
        /\ oldest[list.first] <= oldest[b]

\* The PANIC of append_one_buffer ("Append buffer with a small oldest lsn
\* than last buffer in flush list") is unreachable.
NeverOutOfOrder == ~panicked

\* The assertion in the loop of polar_get_batch_buffer: neither the shared
\* cursor nor a walk ever stands on a buffer that has left the list.
CursorInList ==
    /\ list.pos \in Members(list) \cup {EndOfList, NotInList}
    /\ walker.running => walker.id \in Members(list) \cup {EndOfList}

\* The bgwriters come back to the head of the list however much the list
\* changes behind it (current_pos, latest_flush_count): the buffer that holds
\* back the consistent LSN is offered for flushing again and again.
HeadServed ==
    \A b \in Buffers : []<>(list.first # b \/ b \in batch)
===========================================================================
