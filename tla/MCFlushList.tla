--------------------------- MODULE MCFlushList ----------------------------
(* Model checking of FlushList, and its refinement of FlushQueue.          *)
EXTENDS FlushList, Sequences, FiniteSets

\* The sequence of buffers met by following flush_next from the head.
Walk ==
    LET at[i \in Nat] == IF i = 1 THEN list.first
                         ELSE IF at[i - 1] = EndOfList THEN EndOfList
                         ELSE list.next[at[i - 1]]
        len == CHOOSE n \in 0 .. Cardinality(Buffers) : at[n + 1] = EndOfList
    IN  [i \in 1 .. len |-> at[i]]

Queue == INSTANCE FlushQueue WITH queue <- Walk, now <- insertLsn

\* The linked list behaves like the queue of FlushQueue: what
\* polar_put_buffer_to_flush_list, polar_remove_buffer_from_flush_list and
\* polar_adjust_position_in_flush_list do to the pointers is what Enqueue,
\* Dequeue and Requeue do to the sequence.
RefinesQueue == Queue!Spec
===========================================================================
