--------------------------- MODULE FlushControl ---------------------------
(***************************************************************************)
(* Flush control of a PolarDB primary: when a dirty page may be written to *)
(* the shared storage, what a copy buffer preserves, how the consistent    *)
(* LSN is computed while buffers are dirtied, copied and flushed, where a  *)
(* checkpoint may put its redo point, and what a crash then replays        *)
(* (storage/buffer/bufmgr.c, polar_bufmgr.c, polar_copybuf.c and           *)
(* access/transam/xlog.c).                                                 *)
(*                                                                         *)
(* An LSN is a natural number; the record that starts at s ends at s + 1,  *)
(* and a page with LSN l contains every change of the records before l.    *)
(* Records that change no page are not given an LSN of their own, with the *)
(* exception of the hint records.  Every page stays in its buffer: a clean *)
(* page that is evicted and read again comes back as it was (EvictionSafe).*)
(***************************************************************************)
EXTENDS Naturals, Sequences, FiniteSets

CONSTANTS
    Pages,          \* blocks of permanent relations, in the main fork
    Slots,          \* copy buffers
    Writers,        \* backends that modify pages
    Hinters,        \* backends that set hint bits
    Flushers,       \* processes inside SyncOneBuffer
    Bgwriters,      \* processes inside polar_buffer_sync
    MainBgwriter,   \* the one that sets the consistent LSN
    Checkpointer,   \* computes it when nobody has yet
    None,           \* no page, no copy buffer, no lock holder
    LogHints,       \* XLogHintBitIsNeeded() with torn pages possible
    Fullpage,       \* polar_enable_fullpage_snapshot
    MaxLsn,         \* bound of the model on LSNs
    MaxImage,       \* bound of the model on the LSNs of records with images
    MaxCrashes      \* bound of the model on crashes

InvalidLsn == 0

ASSUME ProcessAssumption ==
    /\ MainBgwriter \in Bgwriters
    /\ Checkpointer \notin Bgwriters
    /\ None \notin Pages \cup Slots \cup Writers

ASSUME OptionAssumption ==
    /\ LogHints \in BOOLEAN
    /\ Fullpage \in BOOLEAN
    /\ MaxLsn \in Nat \ {0}
    /\ MaxImage \in Nat
    /\ MaxCrashes \in Nat

VARIABLES
    log,        \* WAL: log[s] is the set of pages changed by the record at s
    whole,      \* whole[s] is the set of pages it restores whatever their LSN
    flushed,    \* WAL before this LSN is on storage
    pageLsn,    \* pd_lsn of the page in its buffer
    dirty,      \* BM_DIRTY
    justDirtied,\* BM_JUST_DIRTIED
    oldest,     \* oldest_lsn; a buffer with a valid one is in the flush list
    owner,      \* the writer that holds the content lock exclusively
    copy,       \* copy_buffer
    touched,    \* POLAR_BUF_FIRST_TOUCHED_AFTER_COPY
    cOldest,    \* oldest_lsn of a copy buffer
    cLsn,       \* pd_lsn of the page in a copy buffer
    disk,       \* pd_lsn of the page on storage
    snapshot,   \* a full page snapshot accompanies the page on storage
    apply,      \* XLogCtl->oldest_apply_lsn
    consistent, \* XLogCtl->consistent_lsn
    hint,       \* local state of MarkBufferDirtyHint
    flusher,    \* local state of SyncOneBuffer
    calc,       \* local state of polar_cal_cur_consistent_lsn
    ckpt,       \* local state of CreateCheckPoint
    redoPtr,    \* RedoRecPtr
    ctlRedo,    \* ControlFile->checkPointCopy.redo
    mode,       \* "run", "recover", or "panic"
    replay,     \* start of the record being replayed
    replayed,   \* the pages of that record that redo has been through
    crashes     \* number of crashes so far

walVars == <<log, whole, flushed>>
listVars == <<oldest, copy, touched, cOldest, cLsn>>
bufVars == <<pageLsn, dirty, justDirtied, owner>>
diskVars == <<disk, snapshot>>
ckptVars == <<ckpt, redoPtr, ctlRedo>>
modeVars == <<mode, replay, replayed, crashes>>
vars == <<walVars, listVars, bufVars, diskVars, ckptVars, modeVars,
          apply, consistent, flusher, calc, hint>>

Calculators == Bgwriters \cup {Checkpointer}
InsertLsn == Len(log) + 1
Larger(a, b) == IF a < b THEN b ELSE a
Smaller(a, b) == IF a < b THEN a ELSE b

\* polar_max_valid_lsn()
MaxValidLsn == IF mode = "recover" THEN replay ELSE InsertLsn

NoHint == [page |-> None, lsn |-> InvalidLsn]
Asleep == [pc |-> "idle", page |-> None, apply |-> InvalidLsn]
NoCalc == [pc |-> "idle", cur |-> InvalidLsn, val |-> InvalidLsn, todo |-> {}]
NoCkpt == [pc |-> "idle", redo |-> InvalidLsn]

SharePcs == {"flush", "write", "written", "flushCopy", "writeCopy",
             "copyWritten", "copy"}
IoPcs == {"write", "written", "writeCopy", "copyWritten"}

\* The content lock of p is held in share mode.
Shared(p) ==
    \/ \E f \in Flushers : flusher[f].page = p /\ flusher[f].pc \in SharePcs
    \/ \E h \in Hinters : hint[h].page = p

\* BM_IO_IN_PROGRESS
IoInProgress(p) == \E f \in Flushers : flusher[f].page = p /\ flusher[f].pc \in IoPcs

FreeSlots == {c \in Slots : \A p \in Pages : copy[p] # c}

Init ==
    /\ log = <<>> /\ whole = <<>> /\ flushed = 1
    /\ pageLsn = [p \in Pages |-> 1] /\ disk = [p \in Pages |-> 1]
    /\ dirty = [p \in Pages |-> FALSE] /\ justDirtied = [p \in Pages |-> FALSE]
    /\ oldest = [p \in Pages |-> InvalidLsn] /\ owner = [p \in Pages |-> None]
    /\ copy = [p \in Pages |-> None] /\ touched = [p \in Pages |-> FALSE]
    /\ cOldest = [c \in Slots |-> InvalidLsn] /\ cLsn = [c \in Slots |-> InvalidLsn]
    /\ snapshot = [p \in Pages |-> FALSE]
    /\ apply \in {InvalidLsn, 1} /\ consistent = InvalidLsn
    /\ hint = [h \in Hinters |-> NoHint] /\ flusher = [f \in Flushers |-> Asleep]
    /\ calc = [x \in Calculators |-> NoCalc]
    /\ ckpt = NoCkpt /\ redoPtr = 1 /\ ctlRedo = 1
    /\ mode = "run" /\ replay = 1 /\ replayed = {} /\ crashes = 0

---------------------------------------------------------------------------
(* Modifying pages.                                                        *)

\* Slip: every MarkBufferDirty moves the buffer to the tail of the list.
SetOldestLsnAlways(p) ==
    /\ oldest' = [oldest EXCEPT ![p] = InsertLsn]
    /\ UNCHANGED touched

\* The flush list part of PolarMarkBufferDirty on a primary that is not in
\* recovery, polar_set_buffer_fake_oldest_lsn(): enter the list, or move to its
\* tail when this is the first touch after the page was copied.
SetFakeOldestLsn(p) ==
    \/ /\ oldest[p] = InvalidLsn
       /\ oldest' = [oldest EXCEPT ![p] = InsertLsn]
       /\ UNCHANGED touched
    \/ /\ oldest[p] # InvalidLsn
       /\ copy[p] # None /\ ~touched[p]
       /\ oldest' = [oldest EXCEPT ![p] = InsertLsn]
       /\ touched' = [touched EXCEPT ![p] = TRUE]
    \/ /\ oldest[p] # InvalidLsn
       /\ copy[p] = None \/ touched[p]
       /\ UNCHANGED <<oldest, touched>>

\* LockBuffer(BUFFER_LOCK_EXCLUSIVE) and MarkBufferDirty().
MarkBufferDirty(w, p) ==
    /\ mode = "run"
    /\ owner[p] = None /\ ~Shared(p)
    /\ InsertLsn < MaxLsn
    /\ owner' = [owner EXCEPT ![p] = w]
    /\ dirty' = [dirty EXCEPT ![p] = TRUE]
    /\ justDirtied' = [justDirtied EXCEPT ![p] = TRUE]
    /\ SetFakeOldestLsn(p)
    /\ UNCHANGED <<walVars, copy, cOldest, cLsn, pageLsn, diskVars, ckptVars,
                   modeVars, apply, consistent, flusher, calc, hint>>

\* XLogRecordAssemble(): the pages of S that redo restores without a look at their
\* LSN, because the record has an image to apply or initialises them.  This depends
\* on full_page_writes, the redo point and the kind of the record; it is left open.
WholePages(S) == IF InsertLsn <= MaxImage THEN SUBSET S ELSE {{}}

\* XLogInsert() of one record for all the pages the writer has locked and
\* marked, PageSetLSN on each of them, and the release of the locks.
XLogInsert(w) ==
    LET S == {p \in Pages : owner[p] = w} IN
    /\ mode = "run"
    /\ S # {}
    /\ log' = Append(log, S)
    /\ \E I \in WholePages(S) : whole' = Append(whole, I)
    /\ pageLsn' = [p \in Pages |-> IF p \in S THEN InsertLsn + 1 ELSE pageLsn[p]]
    /\ owner' = [p \in Pages |-> IF p \in S THEN None ELSE owner[p]]
    /\ UNCHANGED <<flushed, listVars, dirty, justDirtied, diskVars, ckptVars,
                   modeVars, apply, consistent, flusher, calc, hint>>

\* MarkBufferDirtyHint() under a share lock, up to the header lock: when hints
\* are logged, XLogSaveBufferForHint writes a record for the first change since
\* the redo point: it changes nothing, but may have an image of the page.  The
\* buffer does not enter the flush list.
HintBegin(h, p) ==
    LET logged == LogHints /\ pageLsn[p] <= redoPtr IN
    /\ mode = "run"
    /\ hint[h] = NoHint
    /\ owner[p] = None
    /\ ~(dirty[p] /\ justDirtied[p])
    /\ logged => InsertLsn < MaxLsn
    /\ \/ /\ logged
          /\ log' = Append(log, {})
          /\ \E I \in WholePages({p}) : whole' = Append(whole, I)
       \/ ~logged /\ UNCHANGED <<log, whole>>
    /\ hint' = [hint EXCEPT ![h] =
                   [page |-> p, lsn |-> IF logged THEN InsertLsn + 1 ELSE InvalidLsn]]
    /\ UNCHANGED <<flushed, listVars, bufVars, diskVars, ckptVars, modeVars,
                   apply, consistent, flusher, calc>>

\* A page that is clean by now takes the LSN of the record.
HintEnd(h) ==
    LET p == hint[h].page IN
    /\ mode = "run"
    /\ p # None
    /\ pageLsn' = IF dirty[p] \/ hint[h].lsn = InvalidLsn THEN pageLsn
                  ELSE [pageLsn EXCEPT ![p] = hint[h].lsn]
    /\ dirty' = [dirty EXCEPT ![p] = TRUE]
    /\ justDirtied' = [justDirtied EXCEPT ![p] = TRUE]
    /\ hint' = [hint EXCEPT ![h] = NoHint]
    /\ UNCHANGED <<walVars, listVars, owner, diskVars, ckptVars, modeVars,
                   apply, consistent, flusher, calc>>

\* The WAL writer, or a commit, flushes WAL.
XLogFlush ==
    /\ mode = "run"
    /\ flushed < InsertLsn
    /\ flushed' = InsertLsn
    /\ UNCHANGED <<log, whole, listVars, bufVars, diskVars, ckptVars, modeVars,
                   apply, consistent, flusher, calc, hint>>

---------------------------------------------------------------------------
(* Replicas.                                                               *)

\* polar_record_replica_lsn() and polar_set_oldest_replica_lsn(): the slowest
\* replica has applied more of the WAL on storage.
ReplicaApplies ==
    /\ mode = "run"
    /\ apply # InvalidLsn
    /\ apply < flushed
    /\ apply' = apply + 1
    /\ UNCHANGED <<walVars, listVars, bufVars, diskVars, ckptVars, modeVars,
                   consistent, flusher, calc, hint>>

\* The last slot is dropped, or polar_accept_signal_for_checkpoint() was told
\* to force the flush.
ReplicaLeaves ==
    /\ mode = "run"
    /\ apply # InvalidLsn
    /\ apply' = InvalidLsn
    /\ UNCHANGED <<walVars, listVars, bufVars, diskVars, ckptVars, modeVars,
                   consistent, flusher, calc, hint>>

---------------------------------------------------------------------------
(* SyncOneBuffer().                                                        *)

Up == mode \in {"run", "recover"}

\* polar_buffer_can_be_flushed() for the page, and for its copy buffer.
CanBeFlushed(p, lsn) == lsn = InvalidLsn \/ pageLsn[p] <= lsn
CopyCanBeFlushed(p, lsn) ==
    CanBeFlushed(p, lsn) \/ (copy[p] # None /\ cLsn[copy[p]] <= lsn)

\* polar_buffer_copy_is_satisfied(), without its thresholds on the lag.
CopyIsSatisfied(p, lsn) ==
    /\ lsn # InvalidLsn /\ pageLsn[p] > lsn
    /\ copy[p] = None
    /\ oldest[p] # InvalidLsn

\* Slip: the page is not checked against the oldest apply LSN.
ChoicesUnchecked(p, lsn) == {"flush"}

\* What SyncOneBuffer does with a page once it is locked.  The thresholds of
\* polar_buffer_need_fullpage_snapshot() and polar_buffer_copy_is_satisfied()
\* are tuning: whether they are met is left open.
Choices(p, lsn) ==
    IF CanBeFlushed(p, lsn) THEN {"flush"}
    ELSE (IF Fullpage /\ mode = "run" /\ oldest[p] # InvalidLsn
          THEN {"flush"} ELSE {})
         \cup (IF CopyCanBeFlushed(p, lsn) THEN {"flushCopy"}
               ELSE IF CopyIsSatisfied(p, lsn) THEN {"copy", "idle"}
               ELSE {"idle"})

Step(f, pc) == flusher' = [flusher EXCEPT ![f].pc = pc]
Return(f) == flusher' = [flusher EXCEPT ![f] = Asleep]

\* A dirty buffer is pinned; oldest_apply_lsn is read before its lock is held.
SyncBegin(f, p) ==
    /\ Up
    /\ flusher[f].pc = "idle"
    /\ dirty[p]
    /\ flusher' = [flusher EXCEPT ![f] = [pc |-> "lock", page |-> p, apply |-> apply]]
    /\ UNCHANGED <<walVars, listVars, bufVars, diskVars, ckptVars, modeVars,
                   apply, consistent, calc, hint>>

SyncDecide(f) ==
    LET p == flusher[f].page IN
    /\ Up
    /\ flusher[f].pc = "lock"
    /\ owner[p] = None
    /\ \E pc \in Choices(p, flusher[f].apply) :
          IF pc = "idle" THEN Return(f) ELSE Step(f, pc)
    /\ UNCHANGED <<walVars, listVars, bufVars, diskVars, ckptVars, modeVars,
                   apply, consistent, calc, hint>>

\* Slip: the WAL is not flushed before the page is written.
FlushStartWithoutWal(f) ==
    LET p == flusher[f].page IN
    /\ Up
    /\ flusher[f].pc = "flush"
    /\ ~IoInProgress(p)
    /\ dirty[p]
    /\ justDirtied' = [justDirtied EXCEPT ![p] = FALSE]
    /\ Step(f, "write")
    /\ UNCHANGED <<walVars, listVars, pageLsn, dirty, owner, diskVars,
                   ckptVars, modeVars, apply, consistent, calc, hint>>

\* FlushBuffer() up to XLogFlush: nothing to do when another flusher has
\* cleaned the page.
FlushStart(f) ==
    LET p == flusher[f].page IN
    /\ Up
    /\ flusher[f].pc = "flush"
    /\ ~IoInProgress(p)
    /\ \/ /\ ~dirty[p]
          /\ Return(f)
          /\ UNCHANGED <<justDirtied, flushed>>
       \/ /\ dirty[p]
          /\ justDirtied' = [justDirtied EXCEPT ![p] = FALSE]
          /\ flushed' = Larger(flushed, pageLsn[p])
          /\ Step(f, "write")
    /\ UNCHANGED <<log, whole, listVars, pageLsn, dirty, owner, diskVars, ckptVars,
                   modeVars, apply, consistent, calc, hint>>

\* Slip: no full page snapshot is logged for a future page.
FlushWriteBare(f) ==
    LET p == flusher[f].page IN
    /\ Up
    /\ flusher[f].pc = "write"
    /\ disk' = [disk EXCEPT ![p] = pageLsn[p]]
    /\ Step(f, "written")
    /\ UNCHANGED <<snapshot, walVars, listVars, bufVars, ckptVars, modeVars,
                   apply, consistent, calc, hint>>

\* smgrwrite(), after a full page snapshot was logged for a future page.
FlushWrite(f) ==
    LET p == flusher[f].page IN
    /\ Up
    /\ flusher[f].pc = "write"
    /\ disk' = [disk EXCEPT ![p] = pageLsn[p]]
    /\ snapshot' = [snapshot EXCEPT ![p] =
                       Fullpage /\ ~CanBeFlushed(p, flusher[f].apply)]
    /\ Step(f, "written")
    /\ UNCHANGED <<walVars, listVars, bufVars, ckptVars, modeVars,
                   apply, consistent, calc, hint>>

\* Slip: a freed copy buffer keeps its oldest_lsn.
FreeCopyKeepingLsn(p) ==
    /\ copy' = [copy EXCEPT ![p] = None]
    /\ touched' = [touched EXCEPT ![p] = FALSE]
    /\ UNCHANGED <<cOldest, cLsn>>

\* polar_free_copy_buffer()
FreeCopy(p) ==
    /\ copy' = [copy EXCEPT ![p] = None]
    /\ cOldest' = [c \in Slots |-> IF c = copy[p] THEN InvalidLsn ELSE cOldest[c]]
    /\ cLsn' = [c \in Slots |-> IF c = copy[p] THEN InvalidLsn ELSE cLsn[c]]
    /\ touched' = [touched EXCEPT ![p] = FALSE]

\* The rest of FlushBuffer(): free the copy buffer, leave the flush list, end
\* the I/O; the page stays dirty if it was dirtied meanwhile.
FlushEnd(f) ==
    LET p == flusher[f].page IN
    /\ Up
    /\ flusher[f].pc = "written"
    /\ FreeCopy(p)
    /\ oldest' = [oldest EXCEPT ![p] = InvalidLsn]
    /\ dirty' = [dirty EXCEPT ![p] = justDirtied[p]]
    /\ Return(f)
    /\ UNCHANGED <<walVars, pageLsn, justDirtied, owner, diskVars, ckptVars,
                   modeVars, apply, consistent, calc, hint>>

\* Slip: the copy buffer is written without the I/O lock of its page.
CopyFlushStartUnlocked(f) ==
    LET p == flusher[f].page IN
    /\ Up
    /\ flusher[f].pc = "flushCopy"
    /\ copy[p] # None
    /\ flushed' = Larger(flushed, cLsn[copy[p]])
    /\ Step(f, "writeCopy")
    /\ UNCHANGED <<log, whole, listVars, bufVars, diskVars, ckptVars, modeVars,
                   apply, consistent, calc, hint>>

\* polar_flush_copy_buffer() up to XLogFlush, with its second check.
CopyFlushStart(f) ==
    LET p == flusher[f].page
        ready == dirty[p] /\ copy[p] # None /\ CopyCanBeFlushed(p, apply)
    IN
    /\ Up
    /\ flusher[f].pc = "flushCopy"
    /\ ~IoInProgress(p)
    /\ \/ /\ ~ready
          /\ Return(f)
          /\ UNCHANGED flushed
       \/ /\ ready
          /\ flushed' = Larger(flushed, cLsn[copy[p]])
          /\ Step(f, "writeCopy")
    /\ UNCHANGED <<log, whole, listVars, bufVars, diskVars, ckptVars, modeVars,
                   apply, consistent, calc, hint>>

\* smgrwrite() of the copy buffer.
CopyFlushWrite(f) ==
    LET p == flusher[f].page IN
    /\ Up
    /\ flusher[f].pc = "writeCopy"
    /\ disk' = [disk EXCEPT ![p] = cLsn[copy[p]]]
    /\ snapshot' = [snapshot EXCEPT ![p] = FALSE]
    /\ Step(f, "copyWritten")
    /\ UNCHANGED <<walVars, listVars, bufVars, ckptVars, modeVars,
                   apply, consistent, calc, hint>>

\* Slip: the flush of the copy buffer marks the page itself clean.
CopyFlushEndClean(f) ==
    LET p == flusher[f].page IN
    /\ Up
    /\ flusher[f].pc = "copyWritten"
    /\ FreeCopy(p)
    /\ dirty' = [dirty EXCEPT ![p] = FALSE]
    /\ Return(f)
    /\ UNCHANGED <<walVars, oldest, pageLsn, justDirtied, owner, diskVars,
                   ckptVars, modeVars, apply, consistent, calc, hint>>

\* The original page stays dirty and in the flush list.
CopyFlushEnd(f) ==
    LET p == flusher[f].page IN
    /\ Up
    /\ flusher[f].pc = "copyWritten"
    /\ FreeCopy(p)
    /\ Return(f)
    /\ UNCHANGED <<walVars, oldest, bufVars, diskVars, ckptVars, modeVars,
                   apply, consistent, calc, hint>>

\* Slip: copy_buffer_alloc relies on the check made before it had the I/O lock.
CopyUnchecked(p, lsn) == dirty[p] /\ copy[p] = None

\* start_copy_buffer_io() and the second check of copy_buffer_alloc().
CopyAllowed(p, lsn) == dirty[p] /\ CopyIsSatisfied(p, lsn)

\* Slip: copy_buffer_alloc waits for a free copy buffer.
CopyAllocWaits(f) ==
    LET p == flusher[f].page IN
    /\ Up
    /\ flusher[f].pc = "copy"
    /\ ~IoInProgress(p)
    /\ \/ /\ ~CopyAllowed(p, flusher[f].apply)
          /\ UNCHANGED <<copy, cOldest, cLsn>>
       \/ /\ CopyAllowed(p, flusher[f].apply)
          /\ \E c \in FreeSlots :
                /\ copy' = [copy EXCEPT ![p] = c]
                /\ cOldest' = [cOldest EXCEPT ![c] = oldest[p]]
                /\ cLsn' = [cLsn EXCEPT ![c] = pageLsn[p]]
    /\ Return(f)
    /\ UNCHANGED <<walVars, oldest, touched, bufVars, diskVars, ckptVars,
                   modeVars, apply, consistent, calc, hint>>

\* copy_buffer_alloc(): nothing happens when the page was copied or flushed
\* meanwhile, or when the pool is full.
CopyAlloc(f) ==
    LET p == flusher[f].page
        ready == CopyAllowed(p, flusher[f].apply) /\ FreeSlots # {}
    IN
    /\ Up
    /\ flusher[f].pc = "copy"
    /\ ~IoInProgress(p)
    /\ \/ /\ ~ready
          /\ UNCHANGED <<copy, cOldest, cLsn>>
       \/ /\ ready
          /\ \E c \in FreeSlots :
                /\ copy' = [copy EXCEPT ![p] = c]
                /\ cOldest' = [cOldest EXCEPT ![c] = oldest[p]]
                /\ cLsn' = [cLsn EXCEPT ![c] = pageLsn[p]]
    /\ Return(f)
    /\ UNCHANGED <<walVars, oldest, touched, bufVars, diskVars, ckptVars,
                   modeVars, apply, consistent, calc, hint>>

---------------------------------------------------------------------------
(* The consistent LSN: polar_buffer_sync() and                             *)
(* polar_cal_cur_consistent_lsn().                                         *)

InList == {p \in Pages : oldest[p] # InvalidLsn}

\* oldest_lsn of the head of the flush list (HeadIsOldest of FlushList).
HeadLsn == CHOOSE lsn \in {oldest[p] : p \in InList} :
               \A p \in InList : lsn <= oldest[p]

CalcUnchanged == UNCHANGED <<walVars, listVars, bufVars, diskVars, apply, flusher, hint>>

\* polar_buffer_sync() notes the consistent LSN before it flushes.
CalcBegin(x) ==
    /\ Up
    /\ x \in Bgwriters
    /\ calc[x].pc = "idle"
    /\ calc' = [calc EXCEPT ![x].pc = "sync", ![x].cur = consistent]
    /\ CalcUnchanged
    /\ UNCHANGED <<ckptVars, modeVars, consistent>>

\* Under flushlist_lock: the head, or the end of WAL if the list is empty.
CalcHead(x) ==
    /\ Up
    /\ calc[x].pc = "sync"
    /\ \/ /\ InList = {}
          /\ calc' = [calc EXCEPT ![x].pc = "done", ![x].val = MaxValidLsn]
       \/ /\ InList # {}
          /\ calc' = [calc EXCEPT ![x].pc = "scan", ![x].val = HeadLsn,
                                  ![x].todo = Slots]
    /\ CalcUnchanged
    /\ UNCHANGED <<ckptVars, modeVars, consistent>>

\* polar_copy_buffers_get_oldest_lsn() looks at one copy buffer; no lock.
CalcScan(x) ==
    /\ Up
    /\ calc[x].pc = "scan"
    /\ \/ /\ calc[x].todo = {}
          /\ calc' = [calc EXCEPT ![x].pc = "done"]
       \/ \E c \in calc[x].todo :
             calc' = [calc EXCEPT
                         ![x].todo = @ \ {c},
                         ![x].val = IF cOldest[c] = InvalidLsn THEN @
                                    ELSE Smaller(@, cOldest[c])]
    /\ CalcUnchanged
    /\ UNCHANGED <<ckptVars, modeVars, consistent>>

\* polar_set_consistent_lsn(): a primary in recovery sets nothing.
SetConsistent(lsn) ==
    consistent' = IF mode = "run" THEN Larger(consistent, lsn) ELSE consistent

\* update_consistent_lsn_delta() and polar_bg_buffer_sync(): the new value may
\* not fall back; only the main bgwriter publishes it.
CalcEnd(x) ==
    /\ Up
    /\ x \in Bgwriters
    /\ calc[x].pc = "done"
    /\ calc' = [calc EXCEPT ![x] = NoCalc]
    /\ \/ /\ calc[x].val < calc[x].cur
          /\ mode' = "panic"
          /\ UNCHANGED consistent
       \/ /\ calc[x].val >= calc[x].cur
          /\ IF x = MainBgwriter THEN SetConsistent(calc[x].val)
             ELSE UNCHANGED consistent
          /\ UNCHANGED mode
    /\ CalcUnchanged
    /\ UNCHANGED <<ckptVars, replay, replayed, crashes>>

---------------------------------------------------------------------------
(* CreateCheckPoint().                                                     *)

\* The redo point is fixed; it may not fall back behind the last one.
FixRedo(lsn) ==
    \/ /\ lsn < ctlRedo
       /\ mode' = "panic"
       /\ UNCHANGED <<ckpt, redoPtr>>
    \/ /\ lsn >= ctlRedo
       /\ ckpt' = [pc |-> "wait", redo |-> lsn]
       /\ redoPtr' = lsn
       /\ UNCHANGED mode

CkptReady == mode = "run" /\ ckpt.pc = "idle" /\ calc[Checkpointer].pc = "idle"

\* A checkpoint asked for: redo is the insert position.
CkptNormal ==
    /\ CkptReady
    /\ FixRedo(InsertLsn)
    /\ CalcUnchanged
    /\ UNCHANGED <<ctlRedo, replay, replayed, crashes, consistent, calc>>

\* A timed checkpoint, polar_check_incremental_checkpoint(): redo is the
\* consistent LSN.
CkptIncremental ==
    /\ CkptReady
    /\ consistent # InvalidLsn
    /\ FixRedo(consistent)
    /\ CalcUnchanged
    /\ UNCHANGED <<ctlRedo, replay, replayed, crashes, consistent, calc>>

\* No consistent LSN yet: the checkpointer computes one itself ...
CkptCalcBegin ==
    /\ CkptReady
    /\ consistent = InvalidLsn
    /\ calc' = [calc EXCEPT ![Checkpointer].pc = "sync"]
    /\ CalcUnchanged
    /\ UNCHANGED <<ckptVars, modeVars, consistent>>

\* ... publishes it and uses it as redo.
CkptCalcEnd ==
    /\ mode = "run"
    /\ calc[Checkpointer].pc = "done"
    /\ calc' = [calc EXCEPT ![Checkpointer] = NoCalc]
    /\ SetConsistent(calc[Checkpointer].val)
    /\ FixRedo(calc[Checkpointer].val)
    /\ CalcUnchanged
    /\ UNCHANGED <<ctlRedo, replay, replayed, crashes>>

\* Slip: polar_wait_consistent_lsn is skipped.
CkptEndAtOnce ==
    /\ mode = "run"
    /\ ckpt.pc = "wait"
    /\ flushed' = InsertLsn
    /\ ctlRedo' = ckpt.redo
    /\ ckpt' = NoCkpt
    /\ UNCHANGED <<log, whole, listVars, bufVars, diskVars, redoPtr, modeVars,
                   apply, consistent, flusher, calc, hint>>

\* polar_wait_consistent_lsn() is over: the checkpoint record is written and
\* flushed, then the control file.
CkptEnd ==
    /\ mode = "run"
    /\ ckpt.pc = "wait"
    /\ ckpt.redo <= consistent
    /\ flushed' = InsertLsn
    /\ ctlRedo' = ckpt.redo
    /\ ckpt' = NoCkpt
    /\ UNCHANGED <<log, whole, listVars, bufVars, diskVars, redoPtr, modeVars,
                   apply, consistent, flusher, calc, hint>>

---------------------------------------------------------------------------
(* Crash and recovery.                                                     *)

\* Slip: the last flushed record is taken for lost.
WalOneShort(wal) == SubSeq(wal, 1, flushed - 2)

\* WAL found on storage.
WalOnStorage(wal) == SubSeq(wal, 1, flushed - 1)

\* Memory and the WAL that was not flushed are gone; StartupXLOG begins at the
\* redo point of the control file.
Crash ==
    /\ Up
    /\ crashes < MaxCrashes
    /\ crashes' = crashes + 1
    /\ mode' = "recover"
    /\ replay' = ctlRedo /\ replayed' = {}
    /\ log' = WalOnStorage(log) /\ whole' = WalOnStorage(whole)
    /\ pageLsn' = disk
    /\ dirty' = [p \in Pages |-> FALSE] /\ justDirtied' = [p \in Pages |-> FALSE]
    /\ oldest' = [p \in Pages |-> InvalidLsn] /\ owner' = [p \in Pages |-> None]
    /\ copy' = [p \in Pages |-> None] /\ touched' = [p \in Pages |-> FALSE]
    /\ cOldest' = [c \in Slots |-> InvalidLsn] /\ cLsn' = [c \in Slots |-> InvalidLsn]
    /\ apply' = InvalidLsn /\ consistent' = InvalidLsn
    /\ hint' = [h \in Hinters |-> NoHint] /\ flusher' = [f \in Flushers |-> Asleep]
    /\ calc' = [x \in Calculators |-> NoCalc]
    /\ ckpt' = NoCkpt /\ redoPtr' = ctlRedo
    /\ UNCHANGED <<flushed, diskVars, ctlRedo>>

\* Slip: a page whose LSN is the start of the record counts as replayed.
NeedsRedoOffByOne(p) == p \in whole[replay] \/ pageLsn[p] < replay

\* XLogReadBufferForRedoExtended(): BLK_RESTORED or BLK_NEEDS_REDO.  A page that
\* is restored whole may be newer in its buffer; it goes back to this record.
NeedsRedo(p) == p \in whole[replay] \/ pageLsn[p] <= replay

\* The pages the record being replayed refers to.
BlockRefs == log[replay] \cup whole[replay]

\* Redo of the record for one of its pages; PolarMarkBufferDirty with the start of
\* the record, polar_redo_set_buffer_oldest_lsn().
ReplayPage(p) ==
    /\ mode = "recover"
    /\ replay < InsertLsn
    /\ p \in BlockRefs \ replayed
    /\ owner[p] = None /\ ~Shared(p)
    /\ replayed' = replayed \cup {p}
    /\ \/ /\ NeedsRedo(p)
          /\ pageLsn' = [pageLsn EXCEPT ![p] = replay + 1]
          /\ dirty' = [dirty EXCEPT ![p] = TRUE]
          /\ justDirtied' = [justDirtied EXCEPT ![p] = TRUE]
          /\ oldest' = IF oldest[p] = InvalidLsn THEN [oldest EXCEPT ![p] = replay]
                       ELSE oldest
       \/ ~NeedsRedo(p) /\ UNCHANGED <<pageLsn, dirty, justDirtied, oldest>>
    /\ UNCHANGED <<walVars, copy, touched, cOldest, cLsn, owner, diskVars,
                   ckptVars, mode, replay, crashes, apply, consistent, flusher,
                   calc, hint>>

\* Slip: the next record is read before redo of this one is complete.
ReplayNextEarly ==
    /\ mode = "recover"
    /\ replay < InsertLsn
    /\ replay' = replay + 1 /\ replayed' = {}
    /\ UNCHANGED <<walVars, listVars, bufVars, diskVars, ckptVars, mode, crashes,
                   apply, consistent, flusher, calc, hint>>

\* The next record is read.
ReplayNext ==
    /\ mode = "recover"
    /\ replay < InsertLsn
    /\ BlockRefs \subseteq replayed
    /\ replay' = replay + 1 /\ replayed' = {}
    /\ UNCHANGED <<walVars, listVars, bufVars, diskVars, ckptVars, mode, crashes,
                   apply, consistent, flusher, calc, hint>>

EndRecovery ==
    /\ mode = "recover"
    /\ replay = InsertLsn
    /\ mode' = "run"
    /\ UNCHANGED <<walVars, listVars, bufVars, diskVars, ckptVars, replay, replayed,
                   crashes, apply, consistent, flusher, calc, hint>>

---------------------------------------------------------------------------
Flush(f) ==
    \/ SyncDecide(f)
    \/ FlushStart(f) \/ FlushWrite(f) \/ FlushEnd(f)
    \/ CopyFlushStart(f) \/ CopyFlushWrite(f) \/ CopyFlushEnd(f)
    \/ CopyAlloc(f)

Calculate(x) == CalcBegin(x) \/ CalcHead(x) \/ CalcScan(x) \/ CalcEnd(x)
BeginCheckPoint == CkptNormal \/ CkptIncremental \/ CkptCalcBegin
Recover == (\E p \in Pages : ReplayPage(p)) \/ ReplayNext \/ EndRecovery

Next ==
    \/ \E w \in Writers : XLogInsert(w) \/ \E p \in Pages : MarkBufferDirty(w, p)
    \/ \E h \in Hinters : HintEnd(h) \/ \E p \in Pages : HintBegin(h, p)
    \/ XLogFlush \/ ReplicaApplies \/ ReplicaLeaves
    \/ \E f \in Flushers : Flush(f) \/ \E p \in Pages : SyncBegin(f, p)
    \/ \E x \in Calculators : Calculate(x)
    \/ BeginCheckPoint \/ CkptCalcEnd \/ CkptEnd
    \/ Crash \/ Recover

Spec == Init /\ [][Next]_vars

\* The bgwriters take up the head of the flush list again and again (HeadServed
\* of FlushList); whoever has begun a step goes on; replicas keep applying.
SyncHead ==
    \E f \in Flushers : \E p \in InList : oldest[p] = HeadLsn /\ SyncBegin(f, p)

Fairness ==
    /\ SF_vars(SyncHead)
    /\ \A f \in Flushers : WF_vars(Flush(f))
    /\ \A x \in Calculators : WF_vars(Calculate(x))
    /\ \A w \in Writers : WF_vars(XLogInsert(w))
    /\ \A h \in Hinters : WF_vars(HintEnd(h))
    /\ WF_vars(XLogFlush) /\ WF_vars(ReplicaApplies) /\ WF_vars(CkptEnd)

FairSpec == Spec /\ Fairness

---------------------------------------------------------------------------
(* Correctness.                                                            *)

Lsns == Nat
TypeOK ==
    /\ log \in Seq(SUBSET Pages) /\ flushed \in 1 .. InsertLsn
    /\ whole \in Seq(SUBSET Pages) /\ Len(whole) = Len(log) /\ replayed \subseteq Pages
    /\ pageLsn \in [Pages -> Lsns] /\ disk \in [Pages -> Lsns]
    /\ dirty \in [Pages -> BOOLEAN] /\ justDirtied \in [Pages -> BOOLEAN]
    /\ oldest \in [Pages -> Lsns] /\ owner \in [Pages -> Writers \cup {None}]
    /\ copy \in [Pages -> Slots \cup {None}] /\ touched \in [Pages -> BOOLEAN]
    /\ cOldest \in [Slots -> Lsns] /\ cLsn \in [Slots -> Lsns]
    /\ snapshot \in [Pages -> BOOLEAN]
    /\ apply \in Lsns /\ consistent \in Lsns
    /\ hint \in [Hinters -> [page : Pages \cup {None}, lsn : Lsns]]
    /\ flusher \in [Flushers -> [pc : SharePcs \cup {"idle", "lock"},
                                 page : Pages \cup {None}, apply : Lsns]]
    /\ calc \in [Calculators -> [pc : {"idle", "sync", "scan", "done"},
                                 cur : Lsns, val : Lsns, todo : SUBSET Slots]]
    /\ ckpt \in [pc : {"idle", "wait"}, redo : Lsns]
    /\ redoPtr \in Lsns /\ ctlRedo \in Lsns
    /\ mode \in {"run", "recover", "panic"} /\ replay \in Lsns /\ crashes \in Nat

\* The record at s changes p, and the page on storage does not have the change.
Unwritten(p, s) == s \in 1 .. Len(log) /\ p \in log[s] /\ disk[p] <= s

\* No change that is still missing on storage is behind the consistent LSN,
\* however the bgwriter's unlocked look at the list and the copy buffers
\* interleaves with buffers being dirtied, copied and flushed.
ConsistentSafe ==
    \A p \in Pages : \A s \in 1 .. Len(log) : Unwritten(p, s) => consistent <= s

\* Recovery starts early enough: every change that is missing on storage is at
\* or after the redo point of the control file, at every moment.
RedoSafe ==
    \A p \in Pages : \A s \in 1 .. Len(log) : Unwritten(p, s) => ctlRedo <= s

\* After recovery every page has every change of the WAL that survived.
NothingLost ==
    mode = "run" =>
        \A p \in Pages : \A s \in 1 .. Len(log) : p \in log[s] => pageLsn[p] > s

\* No replica can read a page from its future: a page on storage is not newer
\* than what the slowest replica applied, unless its snapshot was logged.
NoFuturePage ==
    apply # InvalidLsn => \A p \in Pages : disk[p] <= apply \/ snapshot[p]

\* Log before data: storage never has a change whose WAL a crash can lose.
WalBeforeData == \A p \in Pages : disk[p] <= flushed

\* A clean page may be evicted: storage has the same version.
EvictionSafe == \A p \in Pages : ~dirty[p] => disk[p] = pageLsn[p]

\* A used copy buffer belongs to one page, which is in the flush list; the copy
\* is no newer than the page and newer than storage until it is written.
CopiesOwned ==
    /\ \A p, q \in Pages : copy[p] = copy[q] /\ copy[p] # None => p = q
    /\ \A p \in Pages : copy[p] # None =>
          /\ oldest[p] # InvalidLsn /\ dirty[p]
          /\ cOldest[copy[p]] # InvalidLsn
          /\ cOldest[copy[p]] <= oldest[p]
          /\ cLsn[copy[p]] <= pageLsn[p]
    /\ \A c \in FreeSlots : cOldest[c] = InvalidLsn

\* Neither PANIC is reachable: the consistent LSN computed by a bgwriter is
\* never below the published one, and the redo point never falls back.
NeverPanics == mode # "panic"

\* A change on storage is never overwritten by an older version of its page,
\* although the page and its copy buffer are flushed by different processes.  Only
\* recovery may take one back, when it restores an older image of a page and a
\* bgwriter flushes it; then the change is still to be replayed.
StorageKeepsChanges ==
    [][\A p \in Pages : \A s \in 1 .. Len(log) :
          p \in log[s] /\ disk[p] > s =>
              disk'[p] > s \/ (mode = "recover" /\ replay <= s)]_vars

\* polar_wait_consistent_lsn() comes to an end as long as replicas keep
\* applying: the head of the flush list is flushed, directly or once its page
\* is old enough for them, and the consistent LSN passes the redo point.
CheckpointCompletes == ckpt.pc = "wait" ~> ckpt.pc = "idle"
===========================================================================
