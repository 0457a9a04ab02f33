# The shared-storage protocols of PolarDB for PostgreSQL: a TLA+ verification project

The repository is a fork of PolarDB for PostgreSQL: one primary and several
replicas share one storage. What PolarDB adds to PostgreSQL, and what this
project is about, are the rules that make this safe: when the primary may write
a page to the shared storage, how far behind storage may be, where a checkpoint
may place its redo point, what is left after a crash, how WAL metadata reaches
the logindex and the replicas, when a DDL may change files that replicas read,
and what a node may remember of the size of a file. Nearly all of the
repository's 1.6 million lines are PostgreSQL itself and vendored extensions;
the models cover a few thousand lines of what PolarDB changes.

Source paths below are relative to `src/polardb/src/backend/`.

## 1. Inventory

| Component | Source | State | Operations | Interaction | What is hard |
|---|---|---|---|---|---|
| Flush list | `storage/buffer/polar_flush.c` | doubly linked list through the buffer descriptors, cursor, batch counter | put, remove, adjust, draw a batch | called by whoever dirties or flushes; bgwriters draw batches | order by `oldest_lsn`, a cursor on an element that goes away, starvation of the head |
| Flush control, consistent LSN | `storage/buffer/polar_bufmgr.c`, `bufmgr.c` | `oldest_lsn`, dirty flags, locks; `consistent_lsn` | mark dirty, hint bits, `SyncOneBuffer`, `FlushBuffer`, compute and publish | content lock, I/O lock, header lock, list lock | decisions on values read before a lock; a computation over two structures without a common lock |
| Copy buffer pool | `storage/buffer/polar_copybuf.c` | free list, `copy_buffer` of a page, `oldest_lsn` of a copy | copy, flush a copy, free, scan | a copy lets the consistent LSN advance past a hot page | two versions of one page written by two processes |
| Checkpoint, recovery | `access/transam/xlog.c`, `storage/sync/sync.c`, `storage/smgr/md.c` | redo point, control file, fsync requests | normal and incremental checkpoint, wait for the consistent LSN, replay | waits for bgwriters, which wait for replicas | a crash at any point, fsyncs before the wait, termination |
| Replica progress | `replication/slot.c`, `walsender.c`, `walreceiver.c` | per-slot apply and lock LSN, `oldest_apply_lsn` | reply, record, compute and set the minimum, drop slot, forced flush | bounds what may be written, releases DDLs | computed and set in two steps; late replies, reconnections |
| Synchronous DDL | `replication/syncrep.c`, `storage/ipc/standby.c` | queue of waiting backends, LSN up to which they were released | log a lock, wait, release, cancel | waits for the lock LSN of every slot | lost wakeups, silent or dead replicas |
| Parallel bgwriters | `postmaster/polar_parallel_bgwriter.c` | worker slots | start, stop, flush | all run `polar_buffer_sync`; one publishes the consistent LSN | concurrent computations |
| Full page snapshots | `access/logindex/polar_fullpage.c` | snapshot files, sequence number | log a snapshot of a future page | lets a future page be written | a snapshot that is missing when a replica reads |
| Ring buffer, queue manager | `access/logindex/polar_ringbuf.c`, `polar_queue_manager.c` | ring with ready flags, references | reserve, fill, read, evict a reference, free up | WAL metadata from backends to walsenders | lock-free readers, eviction, a slow reference |
| Logindex | `access/logindex/polar_logindex*.c` | memory tables, bloom filters, saved files | insert, flush, iterate | replicas find the records of a page | table states shared by inserters and a flusher |
| Redo on replicas, mini transactions | `polar_logindex_redo.c`, `polar_mini_transaction.c` | outdated flags, page locks | mark outdated, replay on read | startup process, backends, background redo | replay by several processes |
| Relation size cache | `storage/smgr/polar_rsc.c`, `polar_rsc_replica.c`, `smgr.c` | shared entries with generations, a mapping, a pointer per backend and relation | search, update, drop, evict, replay | backends, startup process | unlocked readers, sizes read before and stored after |
| Asynchronous lock replay | `postmaster/polar_async_lock_replay.c` | transactions, their locks and their states, `polar_alr_ctl->lsn` | hand over, acquire, release, wait for the end | startup process, worker, walreceiver | hand-over, the meaning of an invalid LSN |
| VFS, monitoring, policies, vector indexes, PostgreSQL core | `polar_vfs/`, `external/` | | | | not modelled, see section 7 |

What makes the modelled ones correct, and what this project states:

* a page on storage is never ahead of a replica that might read it, unless a
  full page snapshot was logged (`NoFuturePage`);
* every change before the consistent LSN, and before the redo point, is on
  storage (`ConsistentSafe`, `RedoSafe`), also after a power loss
  (`IncrementalDurable`, `NoForgottenWrite`);
* a crash, even during recovery, loses no logged change (`NothingLost`,
  `WalBeforeData`);
* page and copy buffer never overwrite each other with older data; only recovery
  may take a change back on storage, when it restores an older image of a page,
  and then it has still to replay the change (`StorageKeepsChanges`,
  `CopiesOwned`, `EvictionSafe`);
* the PANICs guarding these rules are unreachable (`NeverPanics`,
  `NeverOutOfOrder`), and a checkpoint ends (`CheckpointCompletes`,
  `HeadServed`);
* a reader of the WAL queue gets every record once, whole and in order, though
  writers evict readers and reuse space (`VisitNamesPosition`,
  `ReadyMeansWhole`, `WorkingRefHeld`, `SavedInOrder`), a replica misses none
  when its walsender changes between queue and files (`NoGap`), and a writer
  that waits for space gets it if the ring is large enough for the records and
  WAL is written with direct I/O (`WriterServed`);
* while files of a relation are changed or unlinked no query of a replica uses
  them (`NoQueryDuringFileOp`), because what a replica reports as locked is
  locked (`ReportedLockHeld`) and is never taken back (`LockLsnMonotone`); a DDL
  does not wait for ever and a replica does not get stuck over its locks
  (`WaiterReleased`, `ReplicaCatchesUp`);
* `oldest_apply_lsn` never overtakes a replica by more than the record it is
  about to replay (`OldestApplySafe`);
* the size cache never mixes up relations (`MappingSound`), and on the primary
  what it answers covers every block handed out and nothing past the end of the
  file (`LookupSound`, `CacheCoherent`).

## 2. Modules

| Module | Models | State and actions |
|---|---|---|
| `FlushQueue` | what the flush list promises | the set of members, the order in which they entered, `oldest_lsn`; enter, leave, move to the tail |
| `FlushList` | `polar_flush.c` | `list` holds the head, the tail, the cursor and both link arrays; `PutBuffer`, `RemoveBuffer`, `AdjustBuffer` are the three exported functions, `BatchBegin/Step/End` one call of `polar_get_batch_buffer`, which holds the lock throughout |
| `FlushListProofs` | | theorems about `FlushList` |
| `FlushControl` | `bufmgr.c`, `polar_bufmgr.c`, `polar_copybuf.c`, parts of `xlog.c` | see below |
| `FlushControlProofs` | | theorems about `FlushControl` |
| `CheckpointFsync` | `CreateCheckPoint`, `ProcessSyncRequests`, `mdwrite` | what is written, what is fsynced, what is requested |
| `CheckpointFsyncProofs` | | theorems about `CheckpointFsync` |
| `RingBuf` | `polar_ringbuf.c`, `polar_ringbuf.h` | the ring, its slots and positions; one operator per critical section or unlocked access |
| `XlogQueue` | `polar_queue_manager.c`, `ReserveXLogInsertLocation` and the flush path of `xlog.c`, `polar_logindex_primary_save`, `polar_xlog_send` | composes `RingBuf` with inserters, the flush, the logindex saver and the walsenders |
| `RelSizeCache` | `polar_rsc.c`, `polar_rsc_replica.c`, callers in `smgr.c` | file sizes, the mapping, the entries, the backends' pointers; see below |
| `DdlSync` | `syncrep.c`, `standby.c`, `polar_async_lock_replay.c`, the replies in `walreceiver.c` and `walsender.c`, `slot.c` | one primary, several replicas with startup process, lock worker and walreceiver; see below |
| `RelSizeCacheProofs`, `DdlSyncProofs` | | theorems about `RelSizeCache` and `DdlSync` |
| `XlogQueueProofs`, `XlogPacketProofs` | | theorems about `XlogQueue`: who holds which slot, and what the packets are |
| `MCFlushList`, `MCFlushControl`, `MCRelSizeCache`, `MCDdlSync` | | instances for TLC |

`FlushControl` and `CheckpointFsync` use the flush list through what is shown of
it: a buffer with a valid `oldest_lsn` is in the list, and the head has the
smallest one (`HeadIsOldest`). `CheckpointFsync` in turn takes over what
`FlushControl` shows of the consistent LSN (`ConsistentSafe`) and looks at the
storage underneath.

**LSNs.** The record that starts at `s` ends at `s + 1`; `log[s]` is the set of
pages it changes; a page with LSN `l` has all changes of records before `l`.
"Insert position" is `Len(log) + 1`. Records that change no page take no LSN,
except the hint records, which matter because they move a page's LSN. `whole[s]`
are the pages that redo of this record restores without a look at their LSN: the
record has a full page image to apply, or it initialises the page
(`REGBUF_WILL_INIT`, the zero modes of `XLogReadBufferForRedoExtended`). Which
ones these are depends on `full_page_writes`, the redo point and the kind of the
record; it is left open when the record is inserted and is then the same at every
replay. `MaxImage` is the last record that may have one.

**Actions of `FlushControl`.** A handler is cut where another process can get
in between: at lock waits, at I/O, and between unlocked reads.

| Action | Code |
|---|---|
| `MarkBufferDirty`, `XLogInsert` | exclusive lock, `PolarMarkBufferDirty` with `polar_set_buffer_fake_oldest_lsn`, then the record for all pages locked and their LSNs |
| `HintBegin`, `HintEnd` | `MarkBufferDirtyHint` before and after the header lock |
| `SyncBegin`, `SyncDecide` | `SyncOneBuffer` up to the wait for the content lock, and its four-way decision |
| `FlushStart`, `FlushWrite`, `FlushEnd` | `FlushBuffer`: I/O lock and `XLogFlush`; snapshot and write; free the copy, leave the list, end the I/O |
| `CopyAlloc`, `CopyFlushStart/Write/End` | `copy_buffer_alloc`, `polar_flush_copy_buffer` |
| `CalcBegin`, `CalcHead`, `CalcScan`, `CalcEnd` | `polar_buffer_sync` reading the published value, the head under the list lock, one copy buffer at a time without a lock, `update_consistent_lsn_delta` and publication |
| `CkptNormal`, `CkptIncremental`, `CkptCalcBegin/End`, `CkptEnd` | `CreateCheckPoint` fixing redo; the wait and the control file |
| `Crash`, `ReplayPage`, `ReplayNext`, `EndRecovery` | loss of memory and unflushed WAL; redo from the control file, each page of a record once: restored whole, or changed if its LSN asks for it, or left alone |
| `XLogFlush`, `ReplicaApplies`, `ReplicaLeaves` | WAL flush; feedback of replicas; slot dropped or forced flush |

**Actions of `XlogQueue`.** An inserter reserves WAL and packet together under
`insertpos_lck` (`ReserveXLogInsertLocation`), or makes space (`QueueFull`,
`FreeUp`, one action per round of the loop) with its insertion lock held; sets
the length (`SetLength`); copies the record, for which it may have to write out
older WAL (`AdvanceXLInsertBuffer`); and after giving up the insertion lock
fills the packet and sets its flag (`PushContent`, `PushFlag`). A flush waits for
the insertion locks one by one (`InsertionSeen`) and then writes (`XLogWrite`).
The saver pops flushed records, and when there is none it moves its second
reference, packet by packet and unlocked, to within 60 % of the write position
(`SaverKeep*`). A walsender looks for its position in the queue (`Check*`), sends
packets while it finds it (`Queue*`) and otherwise announces WAL positions, for
the replica to read from storage (`XLogSendPhysicalExt`).

**Actions of `RelSizeCache`.** `smgrnblocks` is cut at each unlocked access: it
reads the size through its pointer (`SearchByRef`), compares the generation
afterwards (`CheckGeneration`), searches the mapping (`SearchByMapping`), and
otherwise updates the entry from the file: `UpdateFind` finds it, or the pool is
swept (`AllocPick`, which unlocks the entry; `AllocEvict` under the victim's
partition lock; `UpdateEnter` for the new relation), and with the partition lock
held shared the size that was read is put (`UpdatePut`). An extension goes
through the same steps with the relation extension lock (`Extend`,
`ExtendFails`); `Truncate` and `Unlink` have the relation locked. On a replica
the file grows by itself (`PrimaryExtends`) and replay follows (`Replay`,
`ReplayTruncate`). `Promote` empties the cache under the feet of everybody.
`floor` in a call remembers what was handed out, or replayed, when it began.

**Actions of `DdlSync`.**

| Action | Code |
|---|---|
| `LogLock`, `LogData`, `WaitDdlLock`, `CancelWait`, `Commit`, `PendingDeletes` | a DDL transaction: `LogAccessExclusiveLock`, `polar_wait_ddl_lock`, interrupts, the end record, the files unlinked after it |
| `ReadRecord`, `ApplyWalRecord`, `SetReplayed` | the startup process: a record decoded ahead, its redo (`polar_add_lock_to_alr`, or waiting for the worker to have the transaction's locks and ending it), publication of the replayed LSN |
| `PopLock`, `GotLock`, `ReleaseXacts` | the worker: takes the lock with the smallest LSN and says so in `alrLsn`, gets it when no query has it, gives up the locks of ended transactions |
| `ReadApplyLsn`, `SendReply` | `XLogWalRcvSendReply` reading first the apply LSN, then the lock LSN, which it caps |
| `RecordReplicaLsn`, `ComputeReplicaLsn`, `SetOldestReplicaLsn`, `WakeWaiters` | a walsender that got a reply: slot, minimum over slots, `oldest_apply_lsn`, `polar_release_ddl_waiters` |
| `Disconnect`, `Reconnect`, `Die`, `DropSlot` | failures, the walreceiver started again by the startup process, a slot dropped by hand |

**Abstractions.**

* Pages stay in their buffers. `EvictionSafe` (a clean page equals storage) is
  what eviction and re-reading need.
* A flusher is any process in `SyncOneBuffer`: bgwriters, the checkpointer's
  `BufferSync`, backends that need a victim.
* Thresholds (`polar_buffer_copy_is_satisfied`, `need_fullpage_snapshot`) are
  tuning: whether they are met is a free choice.
* The copy pool's free list is the set of unused copy buffers.
* A replica that attaches later is not modelled: `oldest_apply_lsn` only
  advances or becomes invalid.
* Replay is that of the startup process alone, without background redo; the
  end-of-recovery checkpoint is any later checkpoint.
* `CheckpointFsync` leaves out that the local fsync of a full request queue
  (`md.c:1567`) can fail; the checkpointer's fsync can.
* `CheckpointFsync` has one page per record and per segment, no copy buffers,
  and one action for a modification; the interleavings inside are those of
  `FlushControl`.
* In `XlogQueue` a record takes as many units of the ring as of WAL, so the
  constant packet headers and the payload that stays out of the queue are left
  out. No record is larger than the WAL buffers, while in the code
  `GetXLogBuffer` may have to evict pages of the very record being copied. Every
  inserter has an insertion lock of its own. A flush takes everything
  reserved when it starts. The flush at the end of a WAL segment is left out. A
  switch of WAL files reserves as any record does. Memory accesses are
  sequentially consistent.
* In `RelSizeCache` a relation is one fork; usage counts of the clock sweep are
  left open, so any entry may be picked; dropping by database or
  tablespace and `polar_rsc_check_consistent` are left out. A replica's restart
  loses the cache and is the initial state. An invalidation (`inval.c`) reaches
  the other backends at once. Every record replayed has a callback; those of
  resource managers without one (`polar_rsc_replica.c:265`) do not touch the cache.
* In `DdlSync` every transaction locks one relation of its own, and a query is
  whatever uses this relation on a replica. At most one reply per replica is on
  its way. Slots are dropped only when their replica is dead. A dead replica does
  not return, and the primary does not restart. Query conflicts by timeout are
  queries that end. Left out are the end of a wait by the death of the postmaster
  (`syncrep.c:396`) and the PANIC for a record of a transaction that has ended
  (`polar_async_lock_replay.c:542`): the model's WAL has no such record.

Operators marked "Slip" are mistakes a programmer could have made at that place;
no specification uses them. Each property is tested by replacing a definition by
one of them, which must violate it (`mutants` in `PROJECT.json`).

## 3. Runs

| Run | Instance | Shows |
|---|---|---|
| `flush_list` | 4 buffers, batches of 2 in rounds of 2, LSNs up to 3 | links, order, cursor, refinement of `FlushQueue`, service of the head |
| `flush_control_crash` | 2 pages, 1 copy buffer, 1 flusher, 1 bgwriter, 2 records, the first with or without images, 2 crashes | consistent LSN, redo point, recovery, log before data; what an image takes back on storage is still to be replayed |
| `flush_control_race` | 1 page, 2 flushers, 1 hint setter, hints logged, snapshots on | future pages, eviction, copy buffers, storage never going back |
| `flush_control_live` | 2 pages, 1 copy buffer, 1 bgwriter and the checkpointer, no snapshots, no logged hints, fairness | no PANIC when two compute at once; no future page; a waiting checkpoint ends, also when the pool is full and the page at the head cannot be copied |
| `checkpoint_fsync` | 2 pages, both kinds of checkpoint | no write without a request or a list entry; incremental checkpoints are durable when they complete |
| `checkpoint_fsync_normal` | 2 pages, both kinds | **violation**, section 4 |
| `xlog_queue_senders` | ring of 6, 1 inserter, 1 walsender, 3 slots, 4 references ever | counts and positions, whole packets, eviction, no gap for replica and logindex |
| `xlog_queue_live` | ring of 9, 2 inserters, WAL buffers of 2, records of 2, direct I/O, fairness | records completed out of order; the unchecked steps of the keep reference; an inserter gets queue space |
| `rel_size_cache` | 2 relations, 2 entries, 2 backends, 1 block, a promotion | one entry per relation, sizes right on the primary |
| `rel_size_cache_replica` | 1 relation, 1 entry, 2 backends | **violation**, section 4 |
| `ddl_sync` | 1 transaction, 2 replicas, 1 failure | no query during a file operation; `oldest_apply_lsn` with two walsenders |
| `ddl_sync_live` | 1 transaction, 1 replica, data records, 2 failures, fairness | reports are true and monotone; DDLs and replay go on |

**Bounds.** The properties are about one page, or about one page and one other
process at a time. Two pages are needed where a page must hold back a value
computed from another (crash run); one page is enough where two processes fight
over it (race run). Two records suffice for "modified, copied, modified again",
three for a further round after the flush. One copy buffer makes the pool full
as soon as one page is copied. Two crashes give a crash during recovery. In the
crash run the first record may have images, so that restoring it can take back
what the second one changed; images do nothing without crashes, so `MaxImage` is
0 elsewhere.

Several bgwriters compute, but only the first publishes; the others can at most
reach the PANIC of `update_consistent_lsn_delta`. `flush_control_live` has one and
the checkpointer, which also publishes. With one page and two bgwriters
`NeverPanics` and `NoFuturePage` were checked as well; the theorem `NoPanic` is
about any number.
`MaxLsn` stops new records; flushing, computing and checkpoints go on.

`xlog_queue_senders` uses the smallest ring `check_xlog_queue_size` allows for WAL
buffers of two units, `xlog_queue_live` the smallest that satisfies
`RoomForRecords` for two inserters with records as large as the WAL buffers
(section 4). `MaxLsn` lets the write position go once round
the ring, so that space is reused and old flags lie under new packets. WAL pages
of three units and records of two put page boundaries inside records.
`MaxRefNum` counts references ever made: the saver's two, the walsender's first
and one after an eviction or a reconnection. Slots beyond the references alive at
a time are never used.

In `rel_size_cache` two relations and two entries give full pools, empty pools
and a victim that two backends fight over. `MaxGen` bounds how often entries
change their relation: up to four times in all, once of these on a replica, so an
entry can be taken away and given back while a backend is between its two reads.
One block suffices to tell "before" from "after" an extension.

One transaction and two replicas show how two walsenders and a slow or dead
replica interfere; two transactions on one replica (locks handed over while
another is acquired, with a failure, and without one for the liveness properties)
were checked without a violation before the step `ReadRecord` was told apart, and
are too large to keep with it. One failure with two replicas; one more with one.

**Fairness** (`flush_control_live`, `flush_list`). Weak fairness of the steps of
a process that has started something: no loop in these functions waits for
anything but locks that are released. Strong fairness of taking up the head of
the list: a bgwriter comes back to it in every round (`HeadServed`), although it
may find it locked. Replicas keep applying what is flushed, and the WAL writer
keeps flushing. A page that is modified for ever can delay a checkpoint for ever
if it can never be copied; that modifications stop is the model's bound.
`xlog_queue_live` assumes weak fairness of every process: an inserter is in a
critical section, the WAL writer wakes up by a timeout, as do the saver and the
walsenders. `ddl_sync_live` assumes weak fairness of the startup process, the
worker, the walreceiver and the walsender, all endless loops with timeouts; that
the walreceiver is started again, which the startup process does in its wait for
WAL; and that a query ends, which `max_standby_streaming_delay` enforces. Nobody
has to drop the slot of a dead replica: `WaiterReleased` excepts this.

`xlog_queue_senders` switches off the deadlock check, since the bound on
references can keep the saver from attaching. So do the runs of `RelSizeCache`,
where the bound on generations can stop everybody who needs an entry, and of
`DdlSync`, where all transactions end and nothing is left to do. No other run does.

## 4. Where code and documents disagree

* **fsync before the wait** (`checkpoint_fsync_normal`). `sync.c` says segments
  written since the last checkpoint are fsynced before the next one completes.
  A normal checkpoint fsyncs in `CheckPointGuts` and then waits, in
  `polar_wait_consistent_lsn`, for bgwriters to write the pages that replicas held
  back. These writes are requested to be fsynced, but the control file moves the
  redo point past them first. Incremental checkpoints are not affected: their redo
  point was consistent before the fsyncs (`checkpoint_fsync`, and a theorem), even
  after a normal one that completed too early. The
  gap matters on storage that buffers writes; it does not with direct I/O.
* **A late lookup on a replica** (`rel_size_cache_replica`). `xlogrecovery.c` has
  a replica redo records "to keep RSC entries in shared memory accurate". A lookup
  that misses enters an entry with `InvalidBlockNumber`, reads the size of the
  file, and stores it. Replay of an extension that comes in between compares its
  size with `InvalidBlockNumber`, the largest number, in
  `polar_rsc_update_if_exists_and_greater_than`; so it neither stores it nor marks
  the entry dirty, and the lookup stores the size from before the extension. Both
  hold the partition lock shared. Later lookups miss the replayed block until
  another record of the relation is replayed. The primary is not affected: there
  an extension stores its size in any case and marks the entry (`CacheCoherent`).

Observations from instances other than the ones kept as runs:

* **Hint bits.** `buffer-management.md` says the primary checks each page against
  the replicas before it writes it. The check and the write are separated by steps
  under a share lock. If another flusher cleans the page in between,
  `MarkBufferDirtyHint`, also under a share lock, may log a hint and give the page
  a newer LSN; the first flusher then writes a page that replicas have not
  reached. With the constants of `flush_control_race` and `Fullpage = FALSE`,
  TLC finds `NoFuturePage` violated. With full page snapshots on, `FlushBuffer`
  looks at the LSN again and logs a snapshot (`flush_control_race` passes).
* **A saver that attaches late.** `logindex.md` says the logindex knows all LSNs
  of updates of a page. The saver takes its reference when it first runs, at the
  least read position of that moment. If two walsenders were there before, one of
  which read packets, and the other leaves, `polar_ringbuf_release_ref` frees
  these packets and the saver never sees them (two senders in `XlogQueue`). Once
  it is attached it misses nothing (`SavedInOrder`).
* **Streaming restarted one record ahead.** `buffer-management.md` derives
  `oldest_apply_lsn` from what replicas have replayed. While it catches up,
  `polar_xlog_recv_queue_pop_ahead` restarts the walreceiver at the end of the
  record it has decoded, and the walsender takes the start of streaming as the
  apply LSN. A comment in `polar_record_replica_lsn` admits that the requested LSN
  "could be larger than it's replayed lsn". `oldest_apply_lsn` can therefore be one record ahead of a replica, and stay so if this record waits for
  a lock. `OldestApplySafe` states the bound that holds.
* Without direct I/O an inserter may wait for ever (`WriterServed` excepts this). WAL written to make room in the WAL
  buffers is not flushed; an inserter that waits for queue space holds an
  insertion lock, which the flush waits for, and the saver pops only flushed
  records. In the code the flush at a segment's end may end this.
* With direct I/O `WriterServed` needs a ring large enough for the records
  (`RoomForRecords`), which `check_xlog_queue_size` does not demand: it compares
  the ring with the WAL buffers only. `polar_ringbuf_free_up` waits until more
  than the length of the packet is free. So what the saver keeps (60 % of the
  ring), one record and one unit have to fit; and so has what cannot be flushed
  while an inserter waits with its insertion lock held, namely the WAL buffers,
  a record of every inserter and the part of one that reaches into the WAL
  buffers. In a ring of 7 with WAL buffers and records of 2, which is admitted but
  does not satisfy it (4 + 2 + 1 < 7 is false), one inserter waits for queue space
  and another for a WAL buffer, and the second waits for the first:
  `WaitXLogInsertionsToFinish` waits for a lock holder that has not said where it
  inserts, and the first has not reserved yet. The run shows that the
  condition is enough for records of one size in the smallest such ring; that it
  is enough in general is not proved. Packets of large records leave out the page
  images, so the queue holds far more WAL than the model's.
* The keep reference steps over packets without checking them. That their lengths
  are set follows from sizes: what it leaves, 60 % of the ring, must hold all
  records between reservation and `SetLength`. A ring of exactly three times the
  WAL buffers does not always give this: with a ring of 6, WAL buffers of 2 and
  records of 1 and 2 units TLC finds a step over a packet without a length.
  Rings in practice are far larger.
* After a return from files to the queue a walsender may send packets the replica
  has been told of. The receiver drops them by their LSN.

## 5. Proofs

`FlushListProofs`, for any set of buffers, any batch sizes and any bound:

* `TypeCorrect`, `ListStaysIntact`, `HeadGivesMinimum`, `NoPanic`, `CursorStays`.
  `ListIntact` alone is not inductive: that unlinking keeps the head the oldest
  needs the order of entry. The history variable `order` holds the pairs
  "linked in before", and the invariant says that it is a total order on the
  members, that `next` is its successor relation, and that `oldest_lsn` is
  monotone in it and bounded by the insert position. `Invariance` proves it,
  one step per action.

`FlushControlProofs`, for any pages, copy buffers, writers, hint setters,
flushers, bgwriters and numbers of records and crashes:

* `ConsistentStaysSafe`, `RedoStaysSafe`, `RecoveryComplete` (`NothingLost`),
  `LogBeforeData`, `CleanPagesOnStorage` (`EvictionSafe`), `CopiesStayOwned`,
  `NoPanic`, `NoPageFromFuture`, `TypeCorrect`, and the action property
  `StorageNeverGoesBack` (`StorageKeepsChanges`). All follow from one invariant, `IInv`, proved by one
  lemma per action; what several actions share (a flusher's step, the I/O lock, a
  write, the WAL growing) is a lemma of its own.
* `ChangeOK` says where every change of the WAL is: in the page of the running
  primary, or still to be replayed; and if it is missing on storage, at or after
  the redo point, and at or after the `oldest_lsn` of its buffer, or of its copy
  if there is one. After the copy the page itself covers only what came later;
  that is why a page touched again after it was copied may move to the tail.
* `PageOK`, `CopyOK`: the consistent LSN and the redo point are past no
  `oldest_lsn`, of a buffer in the list or of a copy. With `ChangeOK` this gives
  `ConsistentSafe`.
* `CalcOK` is about a computation under way, which holds no lock over its two
  looks: its value is past no `oldest_lsn` in the list, and past that of no copy
  except those it has still to look at. A copy made behind the scan takes the
  `oldest_lsn` of a buffer in the list, so it is covered; a buffer that enters the
  list has the insert position, which no computed value is past. So publishing
  keeps `PageOK` and `CopyOK`, and the value cannot be below what the process
  noted before (`NoPanic`).
* `FlusherOK`: one process at a time has the I/O lock of a page, what it is going
  to write has its WAL flushed, and for a copy is old enough for the replicas;
  between the write and the end of the I/O storage has what was written. The last
  part of `ChangeOK` excludes that a copy older than storage is written.
* Images: redo of the record at `r` that restores a page gives it the LSN `r + 1`,
  whatever it had, so a page in its buffer can lose changes. By the first part of
  `ChangeOK` they are at or after the record being replayed; the `replayed` part
  of `LsnsOK` says that the pages done have this record, so going on to the next
  one keeps it. A bgwriter may write such a page over a newer one, which is the
  exception `StorageKeepsChanges` makes; the control file's redo point does not
  move in recovery, so after another crash the change is replayed
  (`RecoveryComplete`).
* `NoPageFromFuture` assumes `Fullpage \/ ~LogHints`. Without it the invariant is
  not inductive at the step where a hint setter gives a clean page the LSN of its
  record, and the counterexample is real (section 4, hint bits).

`CheckpointFsyncProofs`, for any set of pages:

* `RequestsKept`: `NoForgottenWrite` holds with checkpoints of any kind.
* `IncrementalCheckpointDurable`: when an incremental checkpoint completes,
  `RedoDurable` holds, whatever checkpoints went before (`IncrementalDurable`).
  The invariant relates three bounds: changes not written are in the flush list
  at or before them, the consistent LSN is not beyond anything in the list, and
  the redo point of a running incremental checkpoint is not beyond the consistent
  LSN. So a change before redo that is not durable is already written, and its
  request was queued before the checkpoint absorbed the requests.

`RelSizeCacheProofs`, for any relations, backends, entries and references:

* `TypeCorrect`, `MappingStaysSound`, `LookupsSound`, `CacheStaysCoherent`.
  None of the properties is inductive alone. The invariant `IInv` adds: what the
  position of a call says about its other fields (`Shape`); a truncation is alone
  with its relation and extensions come one at a time (`Exclusive`); `known` never passes the file (`KnownInFile`); an entry in
  the mapping holds a size between `known` and the file unless it is being entered
  or its relation truncated (`CacheBound`); a backend's pointer with the entry's
  current generation names the relation it was stored for (`RefSound`), which is
  what makes the unlocked read of `SearchByRef` followed by the generation check
  sound; and the number a call carries covers its `floor` (`CallSound`), where
  the floor is what was handed out when the call began.

`DdlSyncProofs`, for any transactions and replicas and any bound on failures;
replicas disconnect, reconnect, die and lose their slot, but none is restarted
(section 7):

* `TypeCorrect`, `SynchronousDdl`, `ReportsStandForLocks`,
  `OldestApplyStaysSafe`, `LockLsnsInOrder`.
  The argument goes round the loop of a reply. `WalSound`: lock and end records
  lie where the state of their transaction says. `LocksSound`, `WorkersSound`: a
  lock that the startup process has passed is queued, being taken or taken until
  its transaction's end is replayed, and `polar_alr_ctl->lsn` is not beyond one
  that is not taken. `ReportsSound`: every value on its way to the slot (read by
  the walreceiver, in the reply, in the slot, the minimum the primary has
  computed) is bounded by that LSN and by what has been replayed, so what is
  reported is held (lemma `ReportedHeld`). `ProgressSound`: the primary's
  `oldest_apply_lsn`, and a walsender's minimum still to be set, are not past any
  slot. A DDL goes on only when the slots have its lock, so every replica holds
  it and no query runs (`NoQueryDuringFileOp`). `MinOf` is the lemma about the
  minimum over a set of LSNs that the walsender computes: a
  nonempty set of naturals has a least member, since `<` is well founded.

`XlogQueueProofs`, for any ring, slots, inserters, walsenders and sizes of records
up to that of the WAL buffers (`LensAssumption`):

* `TypeCorrect`, `WorkingReferencesStay` (`WorkingRefHeld`). That a slot is not
  taken away from a walsender at work depends on every other user of the slots,
  so the invariant is about all handles (`RefsOK`): nobody has the number of
  another, slots carry numbers that were given out, and who works with a
  reference, as the saver always does, has its slot and has it strong. One lemma
  per critical section of the ring says which handles keep their slots: an
  eviction finds weak ones only (`FreeUpFacts`, where the least visit count exists
  because `<` on the naturals is well founded), a new reference takes a free one,
  a release or a switch to weak touches the caller's own.

`XlogPacketProofs`, for any such instance with `KeepsEnough`:

* `CountsNamePositions` (`VisitNamesPosition`), `ReadyPacketsWhole`
  (`ReadyMeansWhole`), `SaverInOrder` (`SavedInOrder`) and `SendersLeaveNoGap`
  (`NoGap`), from the invariant `PInv` (`PacketInvariance`).
* `KeepsEnough` compares sizes only: the 60 % of the ring that the keep reference
  leaves holds the WAL buffers and one record of every inserter but one. Both runs
  satisfy it (2 + 0 of 3 units and 2 + 2 of 5). The code compares the ring with the WAL
  buffers only, but without such a bound the properties fail, because the keep
  reference does not ask whether a packet is ready (section 4).
* What has to be shown of the sizes is `LengthsInTime`: the keep reference never
  steps over a packet whose length is not set. A record that is not copied keeps
  all later ones but those that fit with it into the WAL buffers from being copied,
  so each of these is in the hands of another inserter, and these have at most one
  each. The lemma `InTime` counts them.
* `PInv` says that the records follow each other without a gap (`WalOK`); that a
  packet under construction has one inserter, its place in the ring and no ready
  flag (`PushOK`), and that nobody but the keep reference is past it (`PushAhead`);
  that every packet that is not given up has its length and its content as soon as
  its inserter says so (`PacketsOK`); and that the saver's count belongs to what it
  saved (`SaverOK`). That an inserter writes over nothing that is still counted
  follows from `VisitNamesPosition`: what is unread is less than the ring.
* `NoGap` needs `FollowOK` as well: a walsender that takes packets from the queue
  has a reference whose last packet starts before what its replica knows, as long
  as it has this reference; after an eviction it must check again.

Assumptions are the named `ASSUME`s of the modules: distinctness of the list
markers, of `None` and of the checkpointer from the bgwriters, positive batch
sizes, known kinds of checkpoint, records not larger than the WAL buffers, natural
bounds.

Only model-checked: liveness (`HeadServed`, `CheckpointCompletes`, `WriterServed`,
`WaiterReleased`, `ReplicaCatchesUp`), and the refinement of `FlushQueue`,
whose sequences are computed by recursion (`Walk`, `Remove`), so that a proof would
need induction over data. `ReplicaLookupSound` is violated (section 4).

## 6. Plan

1. (done) Flush list, its abstract queue and its proofs.
2. (done) Flush control with copy buffers, checkpoints and crashes.
3. (done) fsync requests, with a proof for incremental checkpoints.
4. (done) `RingBuf` and `XlogQueue`, the send side of the WAL queue.
5. (done) `RelSizeCache`; `DdlSync` with slots, replies and lock replay.
6. (done) Proofs about `FlushControl`, `RelSizeCache`, `DdlSync` and `XlogQueue`.
7. The restart of the primary in `DdlSync`, with replicas that attach.
8. The receive queue of a replica, with the hand-over between queue and files.
9. `LogIndexTable`: memory table states against inserters and the flusher.
10. Outdated marks and replay on read; mini transaction locks.

## 7. Not modelled

Per-record parsers (`*_idx.c`) are data formats. The VFS is I/O dispatch.
Monitoring, audit, masking and the other extensions read state of others. The
vector indexes are a vendored extension. Of the buffer manager, relation-wide
flush and drop, prefetch and the sync-rate heuristics are left out; of
checkpoints, shutdown, restartpoints and timelines; of the WAL queue, the receive
side, pushing during recovery and the reset at promotion.

Of replica progress and synchronous DDL, these situations are known and left out:

* after a restart of the primary `oldest_apply_lsn` and the lock LSNs of the slots
  are invalid until the first reply; until then pages are flushed unchecked and a
  DDL does not wait (`xlog.c:9707`, `slot.c:2117`);
* `polar_compute_and_set_replica_lsn` finds no slot and sets an invalid LSN while
  a new replica reports its first one; and a flusher reads an invalid
  `oldest_apply_lsn` and writes the page after a replica has attached;
* a replica that restarts from an earlier LSN, whose slot keeps the larger apply
  LSN it had (`walsender.c:4173`), and the slot of a living replica dropped while
  it is disconnected;
* records with several locks, of which the lock table, keyed by LSN, keeps one;
* the shutdown of the lock replay worker.
