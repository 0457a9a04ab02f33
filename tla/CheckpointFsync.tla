-------------------------- MODULE CheckpointFsync --------------------------
(***************************************************************************)
(* What a checkpoint has made durable when it completes, on a storage that *)
(* buffers writes until they are fsynced.  CreateCheckPoint fixes the redo *)
(* point, CheckPointGuts writes dirty buffers and works off the fsync      *)
(* requests (ProcessSyncRequests), and only then polar_wait_consistent_lsn *)
(* waits until the bgwriters have written the rest (access/transam/xlog.c, *)
(* storage/sync/sync.c, storage/smgr/md.c).                                *)
(*                                                                         *)
(* LSNs are those of FlushControl; a record changes one page, a page is a  *)
(* segment of its own, a dirty page is in the flush list, and there are no *)
(* copy buffers.                                                           *)
(***************************************************************************)
EXTENDS Naturals, Sequences

CONSTANTS
    Pages,
    Kinds,      \* the kinds of checkpoint that are taken
    MaxLsn      \* bound of the model on LSNs

InvalidLsn == 0

ASSUME KindsAssumption == Kinds \subseteq {"normal", "incremental"}
ASSUME BoundAssumption == MaxLsn \in Nat

VARIABLES
    log,        \* log[s]: the page that the record at s changes
    pageLsn,    \* pd_lsn of the page in its buffer
    oldest,     \* oldest_lsn of a page in the flush list
    io,         \* how far FlushBuffer has come with the page
    written,    \* pd_lsn of the page as last written with smgrwrite
    stable,     \* pd_lsn of the page that is sure to survive a power loss
    apply,      \* oldest_apply_lsn
    pending,    \* segments with an fsync request that is queued
    todo,       \* requests that ProcessSyncRequests has taken up
    consistent, \* XLogCtl->consistent_lsn
    ckpt,       \* local state of CreateCheckPoint; need: BM_CHECKPOINT_NEEDED
    ctlRedo     \* ControlFile->checkPointCopy.redo

bufVars == <<log, pageLsn, oldest>>
fileVars == <<written, stable>>
reqVars == <<pending, todo>>
vars == <<bufVars, io, fileVars, apply, reqVars, consistent, ckpt, ctlRedo>>

InsertLsn == Len(log) + 1
InList == {p \in Pages : oldest[p] # InvalidLsn}
NoCkpt == [pc |-> "idle", kind |-> "none", redo |-> InvalidLsn, need |-> {}]

\* polar_buffer_can_be_flushed()
CanBeFlushed(p) == apply = InvalidLsn \/ pageLsn[p] <= apply

Init ==
    /\ log = <<>>
    /\ pageLsn = [p \in Pages |-> 1] /\ oldest = [p \in Pages |-> InvalidLsn]
    /\ io = [p \in Pages |-> "none"]
    /\ written = [p \in Pages |-> 1] /\ stable = [p \in Pages |-> 1]
    /\ apply \in {InvalidLsn, 1}
    /\ pending = {} /\ todo = {}
    /\ consistent = InvalidLsn
    /\ ckpt = NoCkpt /\ ctlRedo = 1

---------------------------------------------------------------------------
(* Backends, bgwriters, replicas.                                          *)

\* MarkBufferDirty() and XLogInsert(); FlushBuffer holds a share lock.
Modify(p) ==
    /\ InsertLsn < MaxLsn
    /\ io[p] = "none"
    /\ log' = Append(log, p)
    /\ pageLsn' = [pageLsn EXCEPT ![p] = InsertLsn + 1]
    /\ oldest' = [oldest EXCEPT ![p] = IF @ = InvalidLsn THEN InsertLsn ELSE @]
    /\ UNCHANGED <<io, fileVars, apply, reqVars, consistent, ckpt, ctlRedo>>

\* SyncOneBuffer() and FlushBuffer() up to FileWrite() in mdwrite().
FlushWrite(p) ==
    /\ p \in InList /\ io[p] = "none"
    /\ CanBeFlushed(p)
    /\ written' = [written EXCEPT ![p] = pageLsn[p]]
    /\ io' = [io EXCEPT ![p] = "written"]
    /\ UNCHANGED <<bufVars, stable, apply, reqVars, consistent, ckpt, ctlRedo>>

\* Slip: mdwrite() is told to skip the fsync request.
SkipDirtySegment(p) ==
    /\ io[p] = "written"
    /\ io' = [io EXCEPT ![p] = "registered"]
    /\ UNCHANGED <<bufVars, fileVars, apply, reqVars, consistent, ckpt, ctlRedo>>

\* register_dirty_segment(): queue an fsync request, or fsync at once when the
\* queue is full.
RegisterDirtySegment(p) ==
    /\ io[p] = "written"
    /\ \/ pending' = pending \cup {p} /\ UNCHANGED stable
       \/ stable' = [stable EXCEPT ![p] = written[p]] /\ UNCHANGED pending
    /\ io' = [io EXCEPT ![p] = "registered"]
    /\ UNCHANGED <<bufVars, written, apply, todo, consistent, ckpt, ctlRedo>>

\* The rest of FlushBuffer(): the page leaves the list and is clean.
FlushDone(p) ==
    /\ io[p] = "registered"
    /\ oldest' = [oldest EXCEPT ![p] = InvalidLsn]
    /\ ckpt' = [ckpt EXCEPT !.need = @ \ {p}]
    /\ io' = [io EXCEPT ![p] = "none"]
    /\ UNCHANGED <<log, pageLsn, fileVars, apply, reqVars, consistent, ctlRedo>>

\* The slowest replica applies more, or the last one leaves.
ReplicaApplies ==
    /\ apply # InvalidLsn
    /\ apply' \in {InvalidLsn} \cup (apply + 1 .. InsertLsn)
    /\ UNCHANGED <<bufVars, io, fileVars, reqVars, consistent, ckpt, ctlRedo>>

\* The consistent LSN any calculation may arrive at, at once or late
\* (ConsistentSafe of FlushControl): no page in the list is older.
SetConsistent ==
    /\ \E lsn \in 1 .. InsertLsn :
          /\ \A p \in InList : lsn <= oldest[p]
          /\ lsn > consistent
          /\ consistent' = lsn
    /\ UNCHANGED <<bufVars, io, fileVars, apply, reqVars, ckpt, ctlRedo>>

---------------------------------------------------------------------------
(* The checkpointer.                                                       *)

\* CreateCheckPoint() fixes the redo point.
CkptBegin(kind) ==
    LET redo == IF kind = "incremental" THEN consistent ELSE InsertLsn IN
    /\ ckpt.pc = "idle"
    /\ redo # InvalidLsn
    /\ ckpt' = [pc |-> "scan", kind |-> kind, redo |-> redo, need |-> {}]
    /\ UNCHANGED <<bufVars, io, fileVars, apply, reqVars, consistent, ctlRedo>>

\* BufferSync() marks the buffers that polar_buffer_can_be_flushed_by_checkpoint
\* accepts; an incremental checkpoint leaves them to the bgwriters.
BufferSyncScan ==
    /\ ckpt.pc = "scan"
    /\ ckpt' = [ckpt EXCEPT !.pc = "buffers",
                   !.need = IF ckpt.kind = "incremental" THEN {}
                            ELSE {p \in InList : CanBeFlushed(p)}]
    /\ UNCHANGED <<bufVars, io, fileVars, apply, reqVars, consistent, ctlRedo>>

\* A marked buffer that SyncOneBuffer() refuses, its page being newer by now.
BufferSyncSkip(p) ==
    /\ ckpt.pc = "buffers"
    /\ p \in ckpt.need /\ ~CanBeFlushed(p)
    /\ ckpt' = [ckpt EXCEPT !.need = @ \ {p}]
    /\ UNCHANGED <<bufVars, io, fileVars, apply, reqVars, consistent, ctlRedo>>

\* BufferSync() is over; ProcessSyncRequests() takes up the requests queued so
\* far, together with those of an earlier call that failed.
AbsorbSyncRequests ==
    /\ ckpt.pc = "buffers" /\ ckpt.need = {}
    /\ todo' = todo \cup pending
    /\ pending' = {}
    /\ ckpt' = [ckpt EXCEPT !.pc = "sync"]
    /\ UNCHANGED <<bufVars, io, fileVars, apply, consistent, ctlRedo>>

\* One turn of the loop of ProcessSyncRequests().
SyncFile(p) ==
    /\ ckpt.pc = "sync"
    /\ p \in todo
    /\ stable' = [stable EXCEPT ![p] = written[p]]
    /\ todo' = todo \ {p}
    /\ UNCHANGED <<bufVars, io, written, apply, pending, consistent, ckpt, ctlRedo>>

\* fsync() fails (data_sync_retry): the checkpoint is given up.
SyncFails ==
    /\ ckpt.pc = "sync"
    /\ todo # {}
    /\ ckpt' = NoCkpt
    /\ UNCHANGED <<bufVars, io, fileVars, apply, reqVars, consistent, ctlRedo>>

\* Slip: the checkpoint goes on although fsyncs are left over.
SyncDoneEarly ==
    /\ ckpt.pc = "sync"
    /\ ckpt' = [ckpt EXCEPT !.pc = "wait"]
    /\ UNCHANGED <<bufVars, io, fileVars, apply, reqVars, consistent, ctlRedo>>

\* ProcessSyncRequests() has worked off all requests it took up.
SyncDone ==
    /\ ckpt.pc = "sync"
    /\ todo = {}
    /\ ckpt' = [ckpt EXCEPT !.pc = "wait"]
    /\ UNCHANGED <<bufVars, io, fileVars, apply, reqVars, consistent, ctlRedo>>

\* polar_wait_consistent_lsn() is over; the control file is updated.
CkptEnd ==
    /\ ckpt.pc = "wait"
    /\ ckpt.redo <= consistent
    /\ ctlRedo' = ckpt.redo
    /\ ckpt' = NoCkpt
    /\ UNCHANGED <<bufVars, io, fileVars, apply, reqVars, consistent>>

Next ==
    \/ \E p \in Pages : \/ Modify(p)
                        \/ FlushWrite(p) \/ RegisterDirtySegment(p) \/ FlushDone(p)
                        \/ BufferSyncSkip(p) \/ SyncFile(p)
    \/ ReplicaApplies \/ SetConsistent
    \/ \E kind \in Kinds : CkptBegin(kind)
    \/ BufferSyncScan \/ AbsorbSyncRequests \/ SyncFails \/ SyncDone \/ CkptEnd

Spec == Init /\ [][Next]_vars

---------------------------------------------------------------------------
(* Correctness.                                                            *)

\* The types of the state; no LSN of a checkpoint or of the consistent LSN is
\* beyond the end of WAL.
TypeOK ==
    /\ log \in Seq(Pages)
    /\ pageLsn \in [Pages -> Nat] /\ oldest \in [Pages -> Nat]
    /\ io \in [Pages -> {"none", "written", "registered"}]
    /\ written \in [Pages -> Nat] /\ stable \in [Pages -> Nat]
    /\ apply \in Nat
    /\ pending \subseteq Pages /\ todo \subseteq Pages
    /\ consistent \in 0 .. InsertLsn
    /\ ckpt \in [pc : {"idle", "scan", "buffers", "sync", "wait"},
                 kind : Kinds \cup {"none"}, redo : 0 .. InsertLsn,
                 need : SUBSET Pages]
    /\ ctlRedo \in 1 .. InsertLsn

\* All "segments that have been written since the last checkpoint" are fsynced
\* "before completing the next checkpoint" (sync.c): after a power loss, replay
\* from the redo point of the control file finds every change that is not sure
\* to be on storage.
RedoDurable ==
    \A s \in 1 .. Len(log) : stable[log[s]] <= s => ctlRedo <= s

\* What is left of it when fsyncs precede polar_wait_consistent_lsn(): a
\* checkpoint that CreateCheckPoint() takes incrementally has made everything
\* before its redo point durable when it writes the control file, whatever the
\* checkpoints before it did and however often their fsyncs failed.
IncrementalDurable ==
    [][(ckpt.kind = "incremental" /\ CkptEnd) => RedoDurable']_vars

\* Changes that neither the flush list nor an fsync request accounts for are on
\* storage for good, however flushes, failed and successful rounds of fsyncs
\* interleave.
NoForgottenWrite ==
    \A s \in 1 .. Len(log) :
        \/ stable[log[s]] > s
        \/ oldest[log[s]] # InvalidLsn /\ oldest[log[s]] <= s
        \/ log[s] \in pending \cup todo
===========================================================================
