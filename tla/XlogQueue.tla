--------------------------- MODULE XlogQueue ---------------------------
(***************************************************************************)
(* The WAL-meta queue of the primary: backends that insert WAL push a      *)
(* packet per record into a ring buffer; the logindex saver pops every     *)
(* flushed record through a strong reference and keeps a share of the ring *)
(* for late readers through a second one; a walsender per replica reads    *)
(* the queue through a weak reference and falls back to announcing WAL     *)
(* positions, which the replica reads from shared storage, when its        *)
(* reference was evicted.                                                  *)
(*                                                                         *)
(* A record of len units of WAL takes a packet of len units (the constant  *)
(* headers are left out), so an LSN is a count of units and the packet of  *)
(* a record that starts at LSN s lies at s % Size.                         *)
(***************************************************************************)
EXTENDS RingBuf, Sequences

CONSTANTS
    Writers,     \* processes inside XLogInsertRecord, one insertion lock each
    Senders,     \* walsenders of replicas
    Lens,        \* sizes of records
    WalBuffers,  \* units of WAL the WAL buffers hold
    BlockSize,   \* units of WAL per page (XLOG_BLCKSZ)
    DirectIO,    \* polar_vfs_is_dio_mode
    MaxLsn       \* bound: no record is begun past this LSN

ASSUME WritersAssumption == IsFiniteSet(Writers)
ASSUME BlockAssumption == BlockSize \in Nat \ {0}
ASSUME LensAssumption == Lens \subseteq 1 .. WalBuffers

\* check_xlog_queue_size, with (Size) ((1 + 0.4) / 0.4) = 3.
CheckXlogQueueSize == 3 * WalBuffers <= Size

ASSUME QueueAssumption == WalBuffers \in Nat /\ CheckXlogQueueSize

VARIABLES
    wal,      \* the reserved records: [end, len, done]; done once copied
    written,  \* LogwrtResult.Write
    flush,    \* LogwrtResult.Flush
    wait,     \* WaitXLogInsertionsToFinish in progress: [upto, seen]
    writer,   \* [pc, len, n, idx] of each inserter
    saver,    \* [pc, ref, keep, moved, saved, count] of the logindex saver
    sender    \* [pc, ref, checked, found, sent, last, max] of each walsender

walVars == <<wal, written, flush, wait>>
vars == <<ringVars, walVars, writer, saver, sender>>

Flusher == "flusher"     \* any process in XLogFlush or the WAL writer
Waiters == Writers \cup {Flusher}
NoWait == [upto |-> 0, seen |-> {}]

\* Slip: too little is kept behind the inserters.
KeepTooLittle == (Size * 2) \div 10

\* polar_ringbuf_ref_keep_data's keep_size, with POLAR_XLOG_QUEUE_DATA_KEEP_RATIO.
KeepSize == (Size * 6) \div 10

EndOf(n) == IF n = 0 THEN 0 ELSE wal[n].end
StartOf(n) == EndOf(n - 1)
InsertLsn == EndOf(Len(wal))      \* CurrBytePos
Records == 1 .. Len(wal)

Idle == [pc |-> "idle", len |-> 0, n |-> 0, idx |-> 0]
Gone == [pc |-> "gone", ref |-> NoRef, checked |-> FALSE, found |-> FALSE,
         sent |-> 0, last |-> 0, max |-> 0]

Init ==
    /\ RingInit
    /\ wal = <<>> /\ written = 0 /\ flush = 0
    /\ wait = [p \in Waiters |-> NoWait]
    /\ writer = [w \in Writers |-> Idle]
    /\ saver = [pc |-> "pop", ref |-> NoRef, keep |-> NoRef, moved |-> FALSE,
                saved |-> 0, count |-> 0]
    /\ sender = [s \in Senders |-> Gone]

(***************************************************************************)
(* Inserting a record.                                                     *)
(***************************************************************************)

\* XLogInsertRecord up to WALInsertLockAcquire.
XLogInsertBegin(w, len) ==
    /\ writer[w].pc = "idle" /\ InsertLsn < MaxLsn
    /\ writer' = [writer EXCEPT ![w] = [Idle EXCEPT !.pc = "reserve", !.len = len]]
    /\ UNCHANGED <<ringVars, walVars, saver, sender>>

\* ReserveXLogInsertLocation under insertpos_lck: reserve WAL and the packet
\* together, or go and make space.
ReserveXLogInsertLocation(w) ==
    /\ writer[w].pc = "reserve" /\ FreeSize >= writer[w].len
    /\ PktReserve(writer[w].len)
    /\ wal' = Append(wal, [end |-> InsertLsn + writer[w].len, len |-> writer[w].len, done |-> FALSE])
    /\ writer' = [writer EXCEPT ![w] = [@ EXCEPT !.pc = "reserved", !.n = Len(wal) + 1, !.idx = pwrite]]
    /\ UNCHANGED <<written, flush, wait, saver, sender>>

QueueFull(w) ==
    /\ writer[w].pc = "reserve" /\ FreeSize < writer[w].len
    /\ writer' = [writer EXCEPT ![w].pc = "freeup"]
    /\ UNCHANGED <<ringVars, walVars, saver, sender>>

\* One round of polar_ringbuf_free_up; the round that can do nothing sleeps.
FreeUp(w) ==
    /\ writer[w].pc = "freeup"
    /\ \/ /\ FreeSize > writer[w].len
          /\ writer' = [writer EXCEPT ![w].pc = "reserve"]
          /\ UNCHANGED ringVars
       \/ /\ FreeSize <= writer[w].len
          /\ FreeUpRound
          /\ UNCHANGED writer
    /\ UNCHANGED <<walVars, saver, sender>>

\* POLAR_XLOG_QUEUE_SET_PKT_LEN, after insertpos_lck was released.
SetLength(w) ==
    /\ writer[w].pc = "reserved"
    /\ SetPktLength(writer[w].idx, writer[w].len)
    /\ writer' = [writer EXCEPT ![w].pc = "copy"]
    /\ UNCHANGED <<walVars, saver, sender>>

\* CopyXLogRecordToWAL and WALInsertLockRelease: needs the WAL buffer of its
\* last page, whose previous page was written.
CopyXLogRecordToWAL(w) ==
    /\ writer[w].pc = "copy" /\ EndOf(writer[w].n) - written <= WalBuffers
    /\ wait[w] = NoWait
    /\ wal' = [wal EXCEPT ![writer[w].n].done = TRUE]
    /\ writer' = [writer EXCEPT ![w].pc = "push"]
    /\ UNCHANGED <<ringVars, written, flush, wait, saver, sender>>

\* polar_xlog_send_queue_push, outside the insertion lock: content, then flag.
PushContent(w) ==
    /\ writer[w].pc = "push"
    /\ PktWrite(writer[w].idx, EndOf(writer[w].n))
    /\ writer' = [writer EXCEPT ![w].pc = "flag"]
    /\ UNCHANGED <<walVars, saver, sender>>

PushFlag(w) ==
    /\ writer[w].pc = "flag"
    /\ SetPktFlag(writer[w].idx)
    /\ writer' = [writer EXCEPT ![w] = Idle]
    /\ UNCHANGED <<walVars, saver, sender>>

(***************************************************************************)
(* Writing WAL out.                                                        *)
(***************************************************************************)

\* The insertion lock of w: held from XLogInsertBegin to the end of the copy.
\* Its value is 0 until the holder has to wait for a WAL buffer, when it
\* advertises how far it got.
HoldsInsertLock(w) == writer[w].pc \in {"reserve", "freeup", "reserved", "copy"}
InsertingAt(w) == IF wait[w] # NoWait THEN StartOf(writer[w].n) ELSE 0

\* AdvanceXLInsertBuffer: no WAL buffer is free, the page to replace must be
\* written first.
AdvanceXLInsertBuffer(w) ==
    /\ writer[w].pc = "copy" /\ EndOf(writer[w].n) - written > WalBuffers
    /\ wait[w] = NoWait
    /\ wait' = [wait EXCEPT ![w] = [upto |-> EndOf(writer[w].n) - WalBuffers, seen |-> {w}]]
    /\ UNCHANGED <<ringVars, wal, written, flush, writer, saver, sender>>

\* XLogFlush, which takes along everything reserved when it starts.
XLogFlushBegin ==
    /\ wait[Flusher] = NoWait /\ InsertLsn > flush
    /\ wait' = [wait EXCEPT ![Flusher] = [upto |-> InsertLsn, seen |-> {}]]
    /\ UNCHANGED <<ringVars, wal, written, flush, writer, saver, sender>>

\* WaitXLogInsertionsToFinish passes the lock of w.
InsertionSeen(p, w) ==
    /\ wait[p] # NoWait /\ w \notin wait[p].seen
    /\ ~HoldsInsertLock(w) \/ InsertingAt(w) >= wait[p].upto
    /\ wait' = [wait EXCEPT ![p].seen = @ \cup {w}]
    /\ UNCHANGED <<ringVars, wal, written, flush, writer, saver, sender>>

\* Slip: what was written with direct I/O is not taken for flushed.
XLogWriteUnflushed(p) ==
    /\ wait[p] # NoWait /\ wait[p].seen = Writers
    /\ written' = IF wait[p].upto > written THEN wait[p].upto ELSE written
    /\ flush' = IF p = Flusher THEN written' ELSE flush
    /\ wait' = [wait EXCEPT ![p] = NoWait]
    /\ UNCHANGED <<ringVars, wal, writer, saver, sender>>

\* XLogWrite.  Only XLogFlush asks for a flush, but in direct I/O mode what is
\* written is flushed.
XLogWrite(p) ==
    /\ wait[p] # NoWait /\ wait[p].seen = Writers
    /\ written' = IF wait[p].upto > written THEN wait[p].upto ELSE written
    /\ flush' = IF DirectIO \/ p = Flusher THEN written' ELSE flush
    /\ wait' = [wait EXCEPT ![p] = NoWait]
    /\ UNCHANGED <<ringVars, wal, writer, saver, sender>>

(***************************************************************************)
(* The logindex saver: polar_logindex_primary_save.                        *)
(***************************************************************************)

\* Slip: the saver's reference is weak.
SaverAttachWeak ==
    /\ saver.pc = "pop" /\ saver.ref = NoRef
    /\ \E i \in Slots : LET ref == [slot |-> i, num |-> refNum + 1]
                       IN  NewRef(FALSE, ref) /\ saver' = [saver EXCEPT !.ref = ref]
    /\ UNCHANGED <<walVars, writer, sender>>

\* The first call of polar_xlog_send_queue_record_pop.
SaverAttach ==
    /\ saver.pc = "pop" /\ saver.ref = NoRef
    /\ \E i \in Slots : LET ref == [slot |-> i, num |-> refNum + 1]
                       IN  NewRef(TRUE, ref) /\ saver' = [saver EXCEPT !.ref = ref]
    /\ UNCHANGED <<walVars, writer, sender>>

SaverHasNext == NextReady(saver.ref) /\ NextCell(saver.ref).lsn <= flush

\* polar_xlog_send_queue_record_pop: the record goes into the logindex.
SaverPop ==
    /\ saver.pc = "pop" /\ saver.ref # NoRef /\ SaverHasNext
    /\ UpdateRef(saver.ref)
    /\ saver' = [saver EXCEPT !.saved = NextCell(saver.ref).lsn, !.count = @ + 1]
    /\ UNCHANGED <<walVars, writer, sender>>

\* Nothing left to pop: polar_xlog_send_queue_keep_data, which creates its
\* reference when it is called first.
SaverKeepBegin ==
    /\ saver.pc = "pop" /\ saver.ref # NoRef /\ ~SaverHasNext
    /\ IF saver.keep = NoRef
       THEN \E i \in Slots : LET ref == [slot |-> i, num |-> refNum + 1]
                            IN  NewRef(TRUE, ref) /\ saver' = [saver EXCEPT !.keep = ref]
       ELSE /\ saver' = [saver EXCEPT !.pc = "keep", !.moved = FALSE]
            /\ UNCHANGED ringVars
    /\ UNCHANGED <<walVars, writer, sender>>

\* polar_ringbuf_ref_keep_data steps over packets without asking whether they
\* are ready.
SaverKeepStep ==
    /\ saver.pc = "keep" /\ Avail(saver.keep) > KeepSize
    /\ UpdateRef(saver.keep)
    /\ saver' = [saver EXCEPT !.moved = TRUE]
    /\ UNCHANGED <<walVars, writer, sender>>

SaverKeepEnd ==
    /\ saver.pc = "keep" /\ Avail(saver.keep) <= KeepSize
    /\ IF saver.moved THEN UpdatePread(slot) ELSE UNCHANGED <<pread, minVisit>>
    /\ saver' = [saver EXCEPT !.pc = "pop", !.moved = FALSE]
    /\ UNCHANGED <<cells, pwrite, slot, refNum, walVars, writer, sender>>

(***************************************************************************)
(* A walsender: WalSndLoop with polar_xlog_send.                           *)
(***************************************************************************)

\* Page boundaries of the flushed WAL.
Boundaries == {lsn \in 0 .. flush : lsn % BlockSize = 0}

Set(s, rec) == sender' = [sender EXCEPT ![s] = rec]

\* A replica connects and asks for WAL from the start of a record or page.
WalSndLoop(s) ==
    /\ sender[s].pc = "gone"
    /\ \E i \in Slots, start \in Boundaries \cup {EndOf(n) : n \in 0 .. Len(wal)} :
         LET ref == [slot |-> i, num |-> refNum + 1]
         IN  /\ start <= flush
             /\ NewRef(FALSE, ref)
             /\ Set(s, [Gone EXCEPT !.pc = "loop", !.ref = ref, !.sent = start])
    /\ UNCHANGED <<walVars, writer, saver>>

\* proc_exit between two rounds: polar_ringbuf_auto_release.
WalSndExit(s) ==
    /\ sender[s].pc = "loop"
    /\ ReleaseRef(sender[s].ref)
    /\ Set(s, Gone)
    /\ UNCHANGED <<walVars, writer, saver>>

\* polar_xlog_send_queue_check: make the reference strong, or replace it by a
\* new weak one when it was evicted and try again.
CheckBegin(s) ==
    /\ sender[s].pc = "loop" /\ ~sender[s].checked
    /\ IF Match(sender[s].ref)
       THEN /\ SetStrong(sender[s].ref, TRUE)
            /\ Set(s, [sender[s] EXCEPT !.pc = "check", !.found = FALSE])
       ELSE \E i \in Slots : LET ref == [slot |-> i, num |-> refNum + 1]
                            IN  NewRef(FALSE, ref) /\ Set(s, [sender[s] EXCEPT !.ref = ref])
    /\ UNCHANGED <<walVars, writer, saver>>

NextStart(ref) == NextCell(ref).lsn - NextCell(ref).len

\* A packet the replica has been told of is stepped over ...
CheckSkip(s) ==
    /\ sender[s].pc = "check"
    /\ NextReady(sender[s].ref) /\ NextStart(sender[s].ref) < sender[s].sent
    /\ UpdateRef(sender[s].ref)
    /\ Set(s, [sender[s] EXCEPT !.found = TRUE])
    /\ UNCHANGED <<walVars, writer, saver>>

\* Slip: any packet in the queue counts as the next WAL location.
CheckEndAnyPacket(s) ==
    LET ref == sender[s].ref
        found == sender[s].found \/ NextReady(ref)
    IN  /\ sender[s].pc = "check"
        /\ NextReady(ref) => NextStart(ref) >= sender[s].sent
        /\ SetStrong(ref, FALSE)
        /\ Set(s, [sender[s] EXCEPT !.pc = IF found THEN "queue" ELSE "files",
                                   !.checked = found, !.found = FALSE])
        /\ UNCHANGED <<walVars, writer, saver>>

\* ... until one that starts there or later, or none that is ready.
CheckEnd(s) ==
    LET ref == sender[s].ref
        found == sender[s].found \/ (NextReady(ref) /\ NextStart(ref) <= sender[s].sent)
    IN  /\ sender[s].pc = "check"
        /\ NextReady(ref) => NextStart(ref) >= sender[s].sent
        /\ SetStrong(ref, FALSE)
        /\ Set(s, [sender[s] EXCEPT !.pc = IF found THEN "queue" ELSE "files",
                                   !.checked = found, !.found = FALSE])
        /\ UNCHANGED <<walVars, writer, saver>>

\* polar_send_physical_by_queue up to polar_ringbuf_get_ref.
QueueBegin(s) ==
    /\ sender[s].pc = "queue" \/ (sender[s].pc = "loop" /\ sender[s].checked)
    /\ IF Match(sender[s].ref)
       THEN /\ SetStrong(sender[s].ref, TRUE)
            /\ Set(s, [sender[s] EXCEPT !.pc = "next"])
       ELSE /\ Set(s, [sender[s] EXCEPT !.pc = "files", !.checked = FALSE])
            /\ UNCHANGED ringVars
    /\ UNCHANGED <<walVars, writer, saver>>

SenderHasNext(s) == NextReady(sender[s].ref) /\ NextCell(sender[s].ref).lsn <= flush

\* Caught up: back to a weak reference.
QueueNothing(s) ==
    /\ sender[s].pc = "next" /\ (sender[s].last >= flush \/ ~SenderHasNext(s))
    /\ SetStrong(sender[s].ref, FALSE)
    /\ Set(s, [sender[s] EXCEPT !.pc = "loop"])
    /\ UNCHANGED <<walVars, writer, saver>>

\* One round of polar_xlog_send_queue_raw_data_pop.
QueuePop(s) ==
    /\ sender[s].pc = "pop" \/ (sender[s].pc = "next" /\ sender[s].last < flush)
    /\ SenderHasNext(s)
    /\ UpdateRef(sender[s].ref)
    /\ Set(s, [sender[s] EXCEPT !.pc = "pop", !.max = NextCell(sender[s].ref).lsn])
    /\ UNCHANGED <<walVars, writer, saver>>

\* The message is full or there is no more: clear the reference and send.
QueueSend(s) ==
    /\ sender[s].pc = "pop"
    /\ SetStrong(sender[s].ref, FALSE)
    /\ Set(s, [sender[s] EXCEPT !.pc = "loop", !.sent = sender[s].max,
                               !.last = sender[s].max, !.max = 0])
    /\ UNCHANGED <<walVars, writer, saver>>

\* XLogSendPhysicalExt(POLAR_REPL_REPLICA): announce flushed WAL, all of it or
\* up to a page boundary, which may lie inside a record.
XLogSendPhysicalExt(s) ==
    /\ sender[s].pc = "files"
    /\ \E upto \in {flush} \cup {lsn \in Boundaries : lsn > sender[s].sent} :
         Set(s, [sender[s] EXCEPT !.pc = "loop", !.sent = upto])
    /\ UNCHANGED <<ringVars, walVars, writer, saver>>

-----------------------------------------------------------------------------

WriterStep(w) ==
    \/ ReserveXLogInsertLocation(w) \/ QueueFull(w) \/ FreeUp(w) \/ SetLength(w)
    \/ CopyXLogRecordToWAL(w) \/ AdvanceXLInsertBuffer(w)
    \/ PushContent(w) \/ PushFlag(w)

FlushStep ==
    \/ XLogFlushBegin
    \/ \E p \in Waiters : XLogWrite(p) \/ \E w \in Writers : InsertionSeen(p, w)

SaverStep == SaverAttach \/ SaverPop \/ SaverKeepBegin \/ SaverKeepStep \/ SaverKeepEnd

SenderStep(s) ==
    \/ CheckBegin(s) \/ CheckSkip(s) \/ CheckEnd(s) \/ QueueBegin(s)
    \/ QueueNothing(s) \/ QueuePop(s) \/ QueueSend(s) \/ XLogSendPhysicalExt(s)

Next ==
    \/ \E w \in Writers : WriterStep(w) \/ \E len \in Lens : XLogInsertBegin(w, len)
    \/ FlushStep
    \/ SaverStep
    \/ \E s \in Senders : SenderStep(s) \/ WalSndLoop(s) \/ WalSndExit(s)

Spec == Init /\ [][Next]_vars

-----------------------------------------------------------------------------

\* Type invariant.
Refs == [slot : Slots \cup {0}, num : Nat]
TypeOK ==
    /\ RingTypeOK
    /\ wal \in Seq([end : Nat, len : Lens, done : BOOLEAN])
    /\ written \in 0 .. InsertLsn /\ flush \in 0 .. written
    /\ wait \in [Waiters -> [upto : 0 .. InsertLsn, seen : SUBSET Writers]]
    /\ writer \in [Writers -> [pc : {"idle", "reserve", "freeup", "reserved", "copy", "push", "flag"},
                               len : Lens \cup {0}, n : 0 .. Len(wal), idx : Positions]]
    /\ saver \in [pc : {"pop", "keep"}, ref : Refs, keep : Refs, moved : BOOLEAN,
                  saved : 0 .. flush, count : Nat]
    /\ sender \in [Senders -> [pc : {"gone", "loop", "check", "queue", "next", "pop", "files"},
                               ref : Refs, checked : BOOLEAN, found : BOOLEAN,
                               sent : 0 .. flush, last : 0 .. flush, max : 0 .. flush]]

\* Read positions in the ring cannot be compared, so polar_ringbuf_update_pread
\* trusts packet counts: the count of every slot, and min_visit for the least
\* read position, must name the packet its position points at; no slot is behind
\* the least read position; and what is unread fits in the ring.  A reference
\* that starts with a wrong count, or that steps over a packet whose length was
\* not set yet, breaks it, and free_up would then give unread space away.
VisitNamesPosition ==
    /\ pread = EndOf(minVisit) % Size
    /\ pwrite = InsertLsn % Size
    /\ InsertLsn - EndOf(minVisit) < Size
    /\ \A i \in Occupied(slot) :
          /\ slot[i].visit \in minVisit .. Len(wal)
          /\ slot[i].pread = EndOf(slot[i].visit) % Size

\* polar_ringbuf_next_ready_pkt: when a reference finds the flag of its next
\* packet set, that packet is the record it has to read next, with its own length
\* and all of its content, not a leftover of the last lap and not half written.
ReadyMeansWhole ==
    \A i \in Occupied(slot) :
        (slot[i].visit < Len(wal) /\ cells[slot[i].pread].ready) =>
            LET n == slot[i].visit + 1
            IN  /\ cells[slot[i].pread].len = wal[n].len
                /\ \A u \in StartOf(n) .. EndOf(n) - 1 : cells[u % Size].lsn = EndOf(n)

\* Between polar_ringbuf_get_ref and polar_ringbuf_clear_ref a walsender uses its
\* slot without looking at the number again (and panics if clear_ref fails): no
\* writer may take the slot away in between.
WorkingRefHeld ==
    \A s \in Senders : sender[s].pc \in {"check", "next", "pop"} => Match(sender[s].ref)

\* polar_xlog_send switches between announcing positions and sending packets, and
\* the reference may be evicted and made again at any time: a replica never gets
\* the packet of a record while the record before was not even begun.
Covered(s) == IF sender[s].max # 0 THEN sender[s].max ELSE sender[s].sent
NoGap ==
    [][\A s \in Senders : \A n \in Records :
         (sender'[s].max = EndOf(n) /\ sender'[s].max # sender[s].max) =>
            n = 1 \/ StartOf(n - 1) < Covered(s)]_vars

\* polar_logindex_primary_save: from the packet the saver starts at, no record is
\* left out of the logindex or put into it twice.
SavedInOrder ==
    [][saver'.count # saver.count =>
         \E n \in Records : /\ saver'.saved = EndOf(n)
                            /\ saver.count = 0 \/ saver.saved = StartOf(n)]_vars

\* Every process keeps running: inserters in a critical section, the process that
\* flushes, the saver's endless loop and the walsenders' loops.
FairSpec ==
    /\ Spec
    /\ \A w \in Writers : WF_vars(WriterStep(w))
    /\ WF_vars(FlushStep) /\ WF_vars(SaverStep)
    /\ \A s \in Senders : WF_vars(SenderStep(s))

\* The ring holds what the saver keeps and a record besides; and it holds what
\* cannot be flushed (the WAL buffers, a record of each inserter, and the part of
\* one that reaches into the WAL buffers) and a record besides.
\* check_xlog_queue_size demands less when records are large.
RoomForRecords ==
    \E l \in Lens :
        /\ \A k \in Lens : k <= l
        /\ KeepSize + l + 1 < Size
        /\ WalBuffers + (Cardinality(Writers) + 1) * l < Size

\* ReserveXLogInsertLocation waits for queue space with its insertion lock held;
\* space comes from the saver, which only pops flushed records; and a flush waits
\* for the insertion locks.  If the ring has room for the records, and with direct
\* I/O, the circle never closes: the inserter gets its space.
WriterServed ==
    RoomForRecords /\ DirectIO =>
        \A w \in Writers : writer[w].pc = "reserve" ~> writer[w].pc = "reserved"

=============================================================================
