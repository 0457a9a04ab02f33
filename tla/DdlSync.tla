------------------------------ MODULE DdlSync ------------------------------
(***************************************************************************)
(* Synchronous DDL.  A transaction of the primary logs its                 *)
(* AccessExclusiveLock and waits, before it changes files on the shared    *)
(* storage, until every replica holds the lock (polar_wait_ddl_lock).  On  *)
(* a replica the startup process hands the lock to the asynchronous lock   *)
(* replay worker and goes on; the walreceiver reports how far WAL and      *)
(* locks are replayed; the walsenders keep what was reported in their      *)
(* slots, derive oldest_apply_lsn from all slots and wake the waiters.     *)
(*                                                                         *)
(* Every transaction locks one relation of its own.  LSN 1 is where the    *)
(* WAL of the model begins; record i ends at LSN i + 1.                    *)
(***************************************************************************)
EXTENDS Naturals, Sequences, FiniteSets, FiniteSetsExt

CONSTANTS
    Xacts,          \* DDL transactions, and the relations they lock
    Replicas,
    MaxData,        \* bound: data records
    MaxDisconnects  \* bound: connections that break and replicas that die

ASSUME BoundAssumption == MaxData \in Nat /\ MaxDisconnects \in Nat

VARIABLES
    wal,        \* records [kind, xact]
    ddl,        \* ddl[x]: how far transaction x is on the primary
    slot,       \* slot[n]: [in_use, active, apply_lsn, lock_lsn]
    snd,        \* snd[n]: walsender: [pc, oldest, reply], oldest its computed minimum
    oldest,     \* XLogCtl->oldest_apply_lsn
    ddlLsn,     \* WalSndCtl->lsn[POLAR_SYNC_DDL_WAIT_APPLY]
    startup,    \* startup[n]: [replayed, at]: end of what is replayed, and the step of the next record
    lock,       \* lock[n][x]: state of the lock in the tables of the replica
    running,    \* running[n][x]: alr_xact->running
    alrLsn,     \* polar_alr_ctl->lsn
    worker,     \* worker[n]: the step the lock replay worker is at
    query,      \* query[n][x]: a query that began before x's end was replayed uses the relation
    rcv,        \* rcv[n]: walreceiver: the apply LSN it has read for a reply
    msg,        \* msg[n]: reply on its way: [apply, lock]
    alive,      \* alive[n]: the node runs
    breaks      \* number of connections broken so far

prim == <<wal, ddl>>
progress == <<slot, snd, oldest, ddlLsn>>
alr == <<lock, running, alrLsn, worker>>
net == <<rcv, msg, alive, breaks>>
vars == <<prim, progress, startup, alr, query, net>>

InvalidLsn == 0
NoMsg == [apply |-> InvalidLsn, lock |-> InvalidLsn]
IdleSnd == [pc |-> "idle", oldest |-> InvalidLsn, reply |-> FALSE]

InsertLsn == Len(wal) + 1
\* End of the record of kind k of x; InvalidLsn if there is none.
RecordLsn(k, x) == LET at == {i \in 1 .. Len(wal) : wal[i] = [kind |-> k, xact |-> x]}
                   IN  IF at = {} THEN InvalidLsn ELSE 1 + CHOOSE i \in at : TRUE
LockLsn(x) == RecordLsn("lock", x)
EndLsn(x) == RecordLsn("end", x)
Log(k, x) == wal' = Append(wal, [kind |-> k, xact |-> x])

\* All replicas stream and have reported once.
Init ==
    /\ wal = <<>> /\ ddl = [x \in Xacts |-> "idle"]
    /\ slot = [n \in Replicas |-> [in_use |-> TRUE, active |-> TRUE, apply_lsn |-> 1, lock_lsn |-> 1]]
    /\ snd = [n \in Replicas |-> IdleSnd] /\ oldest = 1 /\ ddlLsn = 1
    /\ startup = [n \in Replicas |-> [replayed |-> 1, at |-> "none"]]
    /\ lock = [n \in Replicas |-> [x \in Xacts |-> "none"]]
    /\ running = [n \in Replicas |-> [x \in Xacts |-> FALSE]]
    /\ alrLsn = [n \in Replicas |-> InvalidLsn] /\ worker = [n \in Replicas |-> "acquire"]
    /\ query = [n \in Replicas |-> [x \in Xacts |-> FALSE]]
    /\ rcv = [n \in Replicas |-> InvalidLsn] /\ msg = [n \in Replicas |-> NoMsg]
    /\ alive = [n \in Replicas |-> TRUE] /\ breaks = 0

(***************************************************************************)
(* DDL transactions of the primary.                                        *)
(***************************************************************************)

\* LogAccessExclusiveLock
LogLock(x) ==
    /\ ddl[x] = "idle"
    /\ Log("lock", x) /\ ddl' = [ddl EXCEPT ![x] = "locked"]
    /\ UNCHANGED <<progress, startup, alr, query, net>>

\* Other changes of the transaction.
LogData(x) ==
    /\ ddl[x] = "locked" /\ RecordLsn("data", x) = InvalidLsn
    /\ Cardinality({y \in Xacts : RecordLsn("data", y) # InvalidLsn}) < MaxData
    /\ Log("data", x)
    /\ UNCHANGED <<ddl, progress, startup, alr, query, net>>

\* The slots that polar_get_ddl_applyptr looks at.  Slip: only those in use now.
ActiveDdlSlots == {n \in Replicas : slot[n].in_use /\ slot[n].active /\ slot[n].lock_lsn # InvalidLsn}

DdlSlots == {n \in Replicas : slot[n].in_use /\ slot[n].lock_lsn # InvalidLsn}

\* polar_wait_ddl_lock: SyncRepWaitForLSN for a DDL lock.
WaitDdlLock(x) ==
    /\ ddl[x] = "locked"
    /\ ddl' = [ddl EXCEPT ![x] = IF LockLsn(x) <= ddlLsn \/ DdlSlots = {} THEN "op" ELSE "waiting"]
    /\ UNCHANGED <<wal, progress, startup, alr, query, net>>

\* A cancel or termination request ends the wait with an ERROR: abort.
CancelWait(x) ==
    /\ ddl[x] = "waiting"
    /\ Log("end", x) /\ ddl' = [ddl EXCEPT ![x] = "done"]
    /\ UNCHANGED <<progress, startup, alr, query, net>>

\* Files changed in place are done with; the transaction commits.
Commit(x) ==
    /\ ddl[x] = "op"
    /\ Log("end", x) /\ ddl' = [ddl EXCEPT ![x] = "unlink"]
    /\ UNCHANGED <<progress, startup, alr, query, net>>

\* smgrDoPendingDeletes after the commit record was written.
PendingDeletes(x) ==
    /\ ddl[x] = "unlink"
    /\ ddl' = [ddl EXCEPT ![x] = "done"]
    /\ UNCHANGED <<wal, progress, startup, alr, query, net>>

(***************************************************************************)
(* Startup process of a replica.                                           *)
(***************************************************************************)

\* Replay of a record takes effect before lastReplayedEndRecPtr says so.
Redone(n) == startup[n].replayed + IF startup[n].at = "redone" THEN 1 ELSE 0
ReadUpTo(n) == startup[n].replayed + IF startup[n].at = "none" THEN 0 ELSE 1

\* standby_redo: polar_alr_add_async_lock.  Slip: alrLsn is left invalid.
RedoLockOnly(n, x) ==
    /\ lock' = [lock EXCEPT ![n][x] = "idle"]
    /\ running' = [running EXCEPT ![n][x] = TRUE]
    /\ UNCHANGED alrLsn

RedoLock(n, x) ==
    /\ lock' = [lock EXCEPT ![n][x] = "idle"]
    /\ running' = [running EXCEPT ![n][x] = TRUE]
    /\ alrLsn' = [alrLsn EXCEPT ![n] = IF @ = InvalidLsn THEN startup[n].replayed ELSE @]

\* xact_redo_commit and xact_redo_abort: polar_alr_release_locks.  Slip: a
\* transaction whose lock is not held yet is left alone.
RedoEndIfHeld(n, x) ==
    /\ running' = [running EXCEPT ![n][x] = @ /\ lock[n][x] # "got"]
    /\ UNCHANGED <<lock, alrLsn>>

RedoEnd(n, x) ==
    /\ running' = [running EXCEPT ![n][x] = FALSE]
    /\ UNCHANGED <<lock, alrLsn>>

\* Any other record of x waits until all locks of x were got
\* (polar_alr_xact_is_replaying); the wait looks again every 100 ms.
RedoData(n, x) ==
    /\ lock[n][x] \notin {"idle", "getting"}
    /\ UNCHANGED <<lock, running, alrLsn>>

ApplyWalRecord(n) ==
    /\ alive[n] /\ startup[n].at = "read"
    /\ LET record == wal[startup[n].replayed]
       IN  CASE record.kind = "lock" -> RedoLock(n, record.xact)
             [] record.kind = "data" -> RedoData(n, record.xact)
             [] record.kind = "end" -> RedoEnd(n, record.xact)
    /\ startup' = [startup EXCEPT ![n].at = "redone"]
    /\ UNCHANGED <<prim, progress, worker, query, net>>

\* The end of ApplyWalRecord: lastReplayedEndRecPtr.
SetReplayed(n) ==
    /\ alive[n] /\ startup[n].at = "redone"
    /\ startup' = [startup EXCEPT ![n] = [replayed |-> @.replayed + 1, at |-> "none"]]
    /\ UNCHANGED <<prim, progress, alr, query, net>>

(***************************************************************************)
(* Lock replay worker and queries of a replica.                            *)
(***************************************************************************)

\* TransactionIdDidCommit or TransactionIdDidAbort on the replica.
Finished(n, x) == EndLsn(x) # InvalidLsn /\ EndLsn(x) <= Redone(n)

\* The head of polar_alr_ctl->locks, which is in the order of LSNs.
IsHead(n, x) ==
    /\ lock[n][x] = "idle"
    /\ \A y \in Xacts : lock[n][y] = "idle" => LockLsn(x) <= LockLsn(y)

\* Slip: the worker does not wait for the lock.
PopLockNoWait(n) ==
    /\ alive[n] /\ worker[n] = "acquire"
    /\ \/ /\ \A x \in Xacts : lock[n][x] # "idle"
          /\ alrLsn' = [alrLsn EXCEPT ![n] = InvalidLsn]
          /\ UNCHANGED lock
       \/ \E x \in Xacts :
            /\ IsHead(n, x)
            /\ lock' = [lock EXCEPT ![n][x] = IF Finished(n, x) THEN "skip" ELSE "getting"]
            /\ alrLsn' = [alrLsn EXCEPT ![n] = LockLsn(x)]
    /\ worker' = [worker EXCEPT ![n] = "release"]
    /\ UNCHANGED <<prim, progress, startup, running, query, net>>

\* alr_try_to_acquire_lock up to LockAcquire.  Without transactions in its table
\* the worker has nothing to release afterwards.
PopLock(n) ==
    /\ alive[n] /\ worker[n] = "acquire"
    /\ \/ /\ \A x \in Xacts : lock[n][x] # "idle"
          /\ alrLsn' = [alrLsn EXCEPT ![n] = InvalidLsn]
          /\ worker' = [worker EXCEPT ![n] = IF \E x \in Xacts : lock[n][x] # "none" THEN "release" ELSE @]
          /\ UNCHANGED lock
       \/ \E x \in Xacts :
            /\ IsHead(n, x)
            /\ IF Finished(n, x)
               THEN /\ lock' = [lock EXCEPT ![n][x] = "skip"]
                    /\ alrLsn' = [alrLsn EXCEPT ![n] = LockLsn(x)]
                    /\ worker' = [worker EXCEPT ![n] = "release"]
               ELSE /\ lock' = [lock EXCEPT ![n][x] = "getting"]
                    /\ worker' = [worker EXCEPT ![n] = "getting"]
                    /\ UNCHANGED alrLsn
    /\ UNCHANGED <<prim, progress, startup, running, query, net>>

\* LockAcquire succeeds when no query has the relation locked.
GotLock(n, x) ==
    /\ alive[n] /\ lock[n][x] = "getting" /\ ~query[n][x]
    /\ lock' = [lock EXCEPT ![n][x] = "got"]
    /\ alrLsn' = [alrLsn EXCEPT ![n] = LockLsn(x)]
    /\ worker' = [worker EXCEPT ![n] = "release"]
    /\ UNCHANGED <<prim, progress, startup, running, query, net>>

\* alr_try_to_release_xact: every transaction that runs no longer.
ReleaseXacts(n) ==
    /\ alive[n] /\ worker[n] = "release"
    /\ lock' = [lock EXCEPT ![n] = [x \in Xacts |-> IF running[n][x] THEN lock[n][x] ELSE "none"]]
    /\ worker' = [worker EXCEPT ![n] = "acquire"]
    /\ UNCHANGED <<prim, progress, startup, running, alrLsn, query, net>>

\* A query locks the relation of x, behind a worker that waits for it.  Those
\* that begin later see what x did and are not of interest.
QueryBegin(n, x) ==
    /\ alive[n] /\ ~query[n][x] /\ ~Finished(n, x) /\ lock[n][x] \notin {"getting", "got"}
    /\ query' = [query EXCEPT ![n][x] = TRUE]
    /\ UNCHANGED <<prim, progress, startup, alr, net>>

\* It ends, or is cancelled when it delays the worker for too long.
QueryEnd(n, x) ==
    /\ query[n][x]
    /\ query' = [query EXCEPT ![n][x] = FALSE]
    /\ UNCHANGED <<prim, progress, startup, alr, net>>

(***************************************************************************)
(* Replies of the walreceiver.                                             *)
(***************************************************************************)

\* XLogWalRcvSendReply reads the apply LSN, and then polar_alr_ctl->lsn.
\* Bound: one reply of a replica is on its way or being processed at a time.
ReadApplyLsn(n) ==
    /\ alive[n] /\ slot[n].active /\ rcv[n] = InvalidLsn /\ msg[n] = NoMsg /\ snd[n].pc = "idle"
    /\ rcv' = [rcv EXCEPT ![n] = startup[n].replayed]
    /\ UNCHANGED <<prim, progress, startup, alr, query, msg, alive, breaks>>

\* What is reported as the lock LSN.  Slip: without the cap.
LockPtrUncapped(n) == IF alrLsn[n] = InvalidLsn THEN rcv[n] ELSE alrLsn[n]

LockPtr(n) == IF alrLsn[n] = InvalidLsn \/ alrLsn[n] > rcv[n] THEN rcv[n] ELSE alrLsn[n]

SendReply(n) ==
    /\ alive[n] /\ rcv[n] # InvalidLsn
    /\ msg' = [msg EXCEPT ![n] = [apply |-> rcv[n], lock |-> LockPtr(n)]]
    /\ rcv' = [rcv EXCEPT ![n] = InvalidLsn]
    /\ UNCHANGED <<prim, progress, startup, alr, query, alive, breaks>>

(***************************************************************************)
(* Walsenders: ProcessStandbyReplyMessage.                                 *)
(***************************************************************************)

MaxLsnOf(m, n) == IF m > n THEN m ELSE n

\* polar_record_replica_lsn: the slot, and whether it has changed.
Recorded(n, apply, lockLsn) ==
    [slot[n] EXCEPT !.apply_lsn = MaxLsnOf(@, apply),
                    !.lock_lsn = IF lockLsn = InvalidLsn THEN @ ELSE lockLsn]

RecordReplicaLsn(n) ==
    /\ snd[n].pc = "idle" /\ slot[n].active /\ msg[n] # NoMsg
    /\ LET new == Recorded(n, msg[n].apply, msg[n].lock)
       IN  /\ slot' = [slot EXCEPT ![n] = new]
           /\ snd' = [snd EXCEPT ![n] = [IdleSnd EXCEPT !.pc = IF new # slot[n] THEN "compute" ELSE "release",
                                                        !.reply = TRUE]]
    /\ msg' = [msg EXCEPT ![n] = NoMsg]
    /\ UNCHANGED <<prim, oldest, ddlLsn, startup, alr, query, rcv, alive, breaks>>

\* The slots whose apply LSN counts.  Slip: those of connected replicas only.
ApplySlotsActive == {n \in Replicas : slot[n].in_use /\ slot[n].active}

ApplySlots == {n \in Replicas : slot[n].in_use /\ slot[n].apply_lsn # InvalidLsn}

\* polar_compute_and_set_replica_lsn: compute the minimum, without a lock that
\* would keep other walsenders from doing the same, ...
ComputeReplicaLsn(n) ==
    /\ snd[n].pc = "compute"
    /\ snd' = [snd EXCEPT ![n] = [@ EXCEPT !.pc = "set", !.oldest =
                 IF ApplySlots = {} THEN InvalidLsn ELSE Min({slot[m].apply_lsn : m \in ApplySlots})]]
    /\ UNCHANGED <<prim, slot, oldest, ddlLsn, startup, alr, query, net>>

\* ... and set it: polar_set_oldest_replica_lsn.
SetOldestReplicaLsn(n) ==
    /\ snd[n].pc = "set"
    /\ oldest' = IF snd[n].oldest = InvalidLsn THEN InvalidLsn ELSE MaxLsnOf(oldest, snd[n].oldest)
    /\ snd' = [snd EXCEPT ![n] = [IdleSnd EXCEPT !.pc = IF snd[n].reply THEN "release" ELSE "idle"]]
    /\ UNCHANGED <<prim, slot, ddlLsn, startup, alr, query, net>>

\* polar_release_ddl_waiters, with the slots ds left: nothing while one of them
\* is inactive; everybody if there is none.
ReleaseDdlWaiters(ds) ==
    LET applyptr == IF ds = {} THEN InvalidLsn ELSE Min({slot[m].lock_lsn : m \in ds})
        raise == (\A m \in ds : slot[m].active) /\ ddlLsn < applyptr
    IN  /\ ddlLsn' = IF raise THEN applyptr ELSE ddlLsn
        /\ ddl' = [x \in Xacts |-> IF ddl[x] = "waiting" /\ (ds = {} \/ (raise /\ LockLsn(x) <= applyptr))
                                  THEN "op" ELSE ddl[x]]

WakeWaiters(n) ==
    /\ snd[n].pc = "release"
    /\ ReleaseDdlWaiters(DdlSlots)
    /\ snd' = [snd EXCEPT ![n] = IdleSnd]
    /\ UNCHANGED <<wal, slot, oldest, startup, alr, query, net>>

(***************************************************************************)
(* Connections that break, replicas that die, slots that are dropped.      *)
(***************************************************************************)

\* The walsender exits wherever it is; what was on its way is lost.
Cut(n) ==
    /\ snd' = [snd EXCEPT ![n] = IdleSnd]
    /\ msg' = [msg EXCEPT ![n] = NoMsg] /\ rcv' = [rcv EXCEPT ![n] = InvalidLsn]

Disconnect(n) ==
    /\ alive[n] /\ slot[n].active /\ breaks < MaxDisconnects
    /\ breaks' = breaks + 1
    /\ slot' = [slot EXCEPT ![n].active = FALSE]
    /\ Cut(n)
    /\ UNCHANGED <<prim, oldest, ddlLsn, startup, alr, query, alive>>

\* The startup process has a walreceiver started that streams from start, which
\* WalSndLoop records as the apply LSN of the slot.
StartStreaming(n, start) ==
    LET new == Recorded(n, start, InvalidLsn)
    IN  /\ ~slot[n].active
        /\ slot' = [slot EXCEPT ![n] = [new EXCEPT !.active = TRUE]]
        /\ snd' = [snd EXCEPT ![n].pc = IF new # slot[n] THEN "compute" ELSE "idle"]

\* polar_xlog_recv_queue_pop_ahead with nothing to read: stream from here.
Reconnect(n) ==
    /\ alive[n] /\ startup[n].at = "none"
    /\ StartStreaming(n, startup[n].replayed)
    /\ UNCHANGED <<prim, oldest, ddlLsn, startup, alr, query, net>>

\* polar_xlog_recv_queue_pop_ahead with a record: while catching up, stream from
\* its end, although it has still to be replayed.
ReadRecord(n) ==
    /\ alive[n] /\ startup[n].at = "none" /\ startup[n].replayed < InsertLsn
    /\ startup' = [startup EXCEPT ![n].at = "read"]
    /\ \/ UNCHANGED <<slot, snd>>
       \/ StartStreaming(n, startup[n].replayed + 1)
    /\ UNCHANGED <<prim, oldest, ddlLsn, alr, query, net>>

\* A replica dies with all its state.
Die(n) ==
    /\ alive[n] /\ breaks < MaxDisconnects
    /\ breaks' = breaks + 1
    /\ alive' = [alive EXCEPT ![n] = FALSE]
    /\ slot' = [slot EXCEPT ![n].active = FALSE]
    /\ Cut(n)
    /\ query' = [query EXCEPT ![n] = [x \in Xacts |-> FALSE]]
    /\ lock' = [lock EXCEPT ![n] = [x \in Xacts |-> "none"]]
    /\ running' = [running EXCEPT ![n] = [x \in Xacts |-> FALSE]]
    /\ alrLsn' = [alrLsn EXCEPT ![n] = InvalidLsn] /\ worker' = [worker EXCEPT ![n] = "acquire"]
    /\ startup' = [startup EXCEPT ![n] = [replayed |-> 1, at |-> "none"]]
    /\ UNCHANGED <<prim, oldest, ddlLsn>>

NoSlot == [in_use |-> FALSE, active |-> FALSE, apply_lsn |-> InvalidLsn, lock_lsn |-> InvalidLsn]

\* Slip: nobody is woken.
DropSlotSilently(n) ==
    /\ ~alive[n] /\ slot[n].in_use
    /\ slot' = [slot EXCEPT ![n] = NoSlot]
    /\ snd' = [snd EXCEPT ![n].pc = "compute"]
    /\ UNCHANGED <<prim, oldest, ddlLsn, startup, alr, query, net>>

\* ReplicationSlotDropAcquired for a replica that is gone: wake waiters, then
\* compute the minimum anew (snd[n] is the backend that drops the slot).
DropSlot(n) ==
    /\ ~alive[n] /\ slot[n].in_use
    /\ slot' = [slot EXCEPT ![n] = NoSlot]
    /\ ReleaseDdlWaiters(DdlSlots \ {n})
    /\ snd' = [snd EXCEPT ![n].pc = "compute"]
    /\ UNCHANGED <<wal, oldest, startup, alr, query, net>>

(***************************************************************************)
(* Specification.                                                          *)
(***************************************************************************)

Backend(x) ==
    LogLock(x) \/ LogData(x) \/ WaitDdlLock(x) \/ CancelWait(x) \/ Commit(x) \/ PendingDeletes(x)
Startup(n) == ReadRecord(n) \/ ApplyWalRecord(n) \/ SetReplayed(n)
Worker(n) == PopLock(n) \/ ReleaseXacts(n) \/ \E x \in Xacts : GotLock(n, x)
WalReceiver(n) == ReadApplyLsn(n) \/ SendReply(n)
WalSender(n) ==
    RecordReplicaLsn(n) \/ ComputeReplicaLsn(n) \/ SetOldestReplicaLsn(n) \/ WakeWaiters(n)

Next ==
    \/ \E x \in Xacts : Backend(x)
    \/ \E n \in Replicas :
         \/ Startup(n) \/ Worker(n) \/ WalReceiver(n) \/ WalSender(n)
         \/ \E x \in Xacts : QueryBegin(n, x) \/ QueryEnd(n, x)
         \/ Disconnect(n) \/ Reconnect(n) \/ Die(n) \/ DropSlot(n)

Spec == Init /\ [][Next]_vars

\* Processes are scheduled; queries end, by max_standby_streaming_delay at the
\* latest; a walreceiver that lost its connection is started again.
FairSpec ==
    /\ Spec
    /\ \A n \in Replicas :
         /\ WF_vars(Startup(n)) /\ WF_vars(Worker(n)) /\ WF_vars(WalReceiver(n)) /\ WF_vars(WalSender(n))
         /\ WF_vars(Reconnect(n)) /\ \A x \in Xacts : WF_vars(QueryEnd(n, x))

(***************************************************************************)
(* Properties.                                                             *)
(***************************************************************************)

\* No position is past the end of the WAL.
Lsns == 0 .. InsertLsn

\* Every variable has its type, and exactly one lock is being acquired while the
\* worker waits, none otherwise: Assert(alr_lock->state != POLAR_ALR_GETTING) of
\* alr_release_locks.
TypeOK ==
    /\ wal \in Seq([kind : {"lock", "data", "end"}, xact : Xacts])
    /\ ddl \in [Xacts -> {"idle", "locked", "waiting", "op", "unlink", "done"}]
    /\ slot \in [Replicas -> [in_use : BOOLEAN, active : BOOLEAN, apply_lsn : Lsns, lock_lsn : Lsns]]
    /\ snd \in [Replicas -> [pc : {"idle", "compute", "set", "release"}, oldest : Lsns, reply : BOOLEAN]]
    /\ oldest \in Lsns /\ ddlLsn \in Lsns
    /\ startup \in [Replicas -> [replayed : Lsns, at : {"none", "read", "redone"}]]
    /\ lock \in [Replicas -> [Xacts -> {"none", "idle", "getting", "got", "skip"}]]
    /\ running \in [Replicas -> [Xacts -> BOOLEAN]]
    /\ alrLsn \in [Replicas -> Lsns] /\ worker \in [Replicas -> {"acquire", "getting", "release"}]
    /\ query \in [Replicas -> [Xacts -> BOOLEAN]]
    /\ rcv \in [Replicas -> Lsns] /\ msg \in [Replicas -> [apply : Lsns, lock : Lsns]]
    /\ alive \in [Replicas -> BOOLEAN] /\ breaks \in 0 .. MaxDisconnects
    /\ \A n \in Replicas : Cardinality({x \in Xacts : lock[n][x] = "getting"})
                             = IF worker[n] = "getting" THEN 1 ELSE 0

\* While the primary changes or unlinks files of a relation on the shared storage,
\* no query of a replica uses it, except one that began after the replica replayed
\* the commit: synchronous DDL as a whole.
NoQueryDuringFileOp ==
    \A n \in Replicas, x \in Xacts : ddl[x] \in {"op", "unlink"} => ~query[n][x]

\* A lock LSN that a replica reported stands for locks it holds: until the
\* transaction ends, the worker has the lock, whatever it was doing between the
\* two reads that make up a reply.
ReportedLockHeld ==
    \A n \in Replicas, x \in Xacts :
        /\ alive[n] /\ LockLsn(x) # InvalidLsn /\ EndLsn(x) = InvalidLsn
        /\ slot[n].lock_lsn >= LockLsn(x)
        => lock[n][x] = "got"

\* oldest_apply_lsn, up to which the primary writes pages, is never past the record
\* that a replica is at, and never invalid while there is a replica, although
\* walsenders compute and set it without excluding each other, replies are late and
\* connections break.
OldestApplySafe ==
    \A n \in Replicas : slot[n].in_use /\ alive[n] =>
        oldest # InvalidLsn /\ oldest <= ReadUpTo(n)

\* The lock LSN of a slot does not go back: the Assert of
\* polar_record_replica_lsn, which relies on how the walreceiver caps it.
LockLsnMonotone ==
    [][\A n \in Replicas : slot'[n].in_use => slot[n].lock_lsn <= slot'[n].lock_lsn]_vars

\* A transaction that waits for its DDL lock goes on, unless the slot of a dead
\* replica is not dropped.
WaiterReleased ==
    \A x \in Xacts : ddl[x] = "waiting" ~>
        \/ ddl[x] # "waiting"
        \/ \E n \in Replicas : ~alive[n] /\ slot[n].in_use

\* A replica replays every transaction to its end and gives up its lock, however
\* queries delay the worker and the worker the startup process.
ReplicaCatchesUp ==
    \A n \in Replicas, x \in Xacts : EndLsn(x) # InvalidLsn ~>
        \/ ~alive[n]
        \/ (startup[n].replayed >= EndLsn(x) /\ lock[n][x] = "none")

=============================================================================
