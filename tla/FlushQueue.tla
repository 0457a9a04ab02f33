---------------------------- MODULE FlushQueue ----------------------------
(***************************************************************************)
(* What the flush list of polar_flush.c promises to its users: a queue of  *)
(* the dirty buffers, ordered by the LSN of their first unflushed change.  *)
(* A buffer enters at the tail with the current LSN, leaves from anywhere  *)
(* when it has been flushed, and is moved back to the tail with a new LSN  *)
(* when it is first touched after it was copied.                           *)
(***************************************************************************)
EXTENDS Naturals, Sequences, SequencesExt

CONSTANTS
    Buffers,        \* the buffers of the pool
    InvalidLsn      \* InvalidXLogRecPtr

VARIABLES
    queue,          \* the dirty buffers, oldest first
    oldest,         \* oldest[b]: LSN of the first unflushed change of b
    now             \* the current insert LSN

vars == <<queue, oldest, now>>

Queued == {queue[i] : i \in DOMAIN queue}

Init ==
    /\ queue = <<>>
    /\ oldest = [b \in Buffers |-> InvalidLsn]
    /\ now \in Nat

\* The WAL insert position moves forward.
Tick ==
    /\ now' = now + 1
    /\ UNCHANGED <<queue, oldest>>

\* A clean buffer becomes dirty.
Enqueue(b) ==
    /\ b \notin Queued
    /\ queue' = Append(queue, b)
    /\ oldest' = [oldest EXCEPT ![b] = now]
    /\ UNCHANGED now

\* A buffer has been flushed.
Dequeue(b) ==
    /\ b \in Queued
    /\ queue' = Remove(queue, b)
    /\ oldest' = [oldest EXCEPT ![b] = InvalidLsn]
    /\ UNCHANGED now

\* A copied buffer is changed again: the copy answers for its old changes.
Requeue(b) ==
    /\ b \in Queued
    /\ queue' = Append(Remove(queue, b), b)
    /\ oldest' = [oldest EXCEPT ![b] = now]
    /\ UNCHANGED now

Next ==
    \/ Tick
    \/ \E b \in Buffers : Enqueue(b) \/ Dequeue(b) \/ Requeue(b)

Spec == Init /\ [][Next]_vars
===========================================================================
