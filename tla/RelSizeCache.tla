---------------------------- MODULE RelSizeCache ----------------------------
(***************************************************************************)
(* The relation size cache (RSC): a fixed pool of shared entries holding   *)
(* the number of blocks of relations, a mapping table from relations to    *)
(* entries under partition locks, and in each backend a pointer to the     *)
(* entry with the generation it had, which is used without any lock.       *)
(*                                                                         *)
(* The node starts as a replica, whose files are grown by the primary, and *)
(* may be promoted.  A relation stands for one fork of it, every relation  *)
(* has a partition lock of its own, and the clock sweep picks any entry.   *)
(* Critical sections of an entry's spinlock are single steps; the shared   *)
(* partition lock that is held over the read of the file size is a state.  *)
(***************************************************************************)
EXTENDS Naturals, Functions

CONSTANTS
    Rels,       \* relations
    Entries,    \* the pool: polar_rsc_shared_relations
    Backends,
    None,
    MaxBlocks,  \* bound: blocks of a file
    MaxGen,     \* bound: entries are taken for other relations while the generations
                \* of the pool add up to less
    ReplicaGen  \* the same bound until the promotion

ASSUME NoneAssumption == None \notin Rels \cup Entries
ASSUME BlocksAssumption == MaxBlocks \in Nat

VARIABLES
    primary,    \* promoted; else a replica
    file,       \* file[r]: blocks of the file on shared storage
    known,      \* known[r]: blocks handed out by finished extensions; on a replica, replayed
    mapping,    \* mapping[r]: the entry of r, or None
    entry,      \* entry[e]: [valid, dirty, generation, rnode, nblocks]
    ref,        \* ref[b][r]: rsc_ref and rsc_generation of an SMgrRelation
    proc        \* proc[b]: what a backend is doing with which relation

vars == <<primary, file, known, mapping, entry, ref, proc>>

\* Larger than every size, as in the code.
InvalidBlockNumber == MaxBlocks + 1
NBlocks == 0 .. InvalidBlockNumber

NoRef == [sr |-> None, generation |-> 0]
Idle == [pc |-> "idle", op |-> "none", rel |-> None, n |-> 0, sr |-> None, victim |-> None, floor |-> 0]

\* polar_rsc_shmem_init
Init ==
    /\ primary = FALSE
    /\ file = [r \in Rels |-> 0] /\ known = file
    /\ mapping = [r \in Rels |-> None]
    /\ entry = [e \in Entries |-> [valid |-> FALSE, dirty |-> FALSE, generation |-> 0,
                                   rnode |-> None, nblocks |-> 0]]
    /\ ref = [b \in Backends |-> [r \in Rels |-> NoRef]]
    /\ proc = [b \in Backends |-> Idle]

Busy(r) == \E b \in Backends : proc[b].rel = r
\* Relation locks and the relation extension lock.
Locked(r) == \E b \in Backends : proc[b].rel = r /\ proc[b].op = "truncate"
Extending(r) == \E b \in Backends : proc[b].rel = r /\ proc[b].op \in {"extend", "publish"}
\* Somebody holds the partition lock of r in shared mode.
Shared(r) == \E b \in Backends : proc[b].rel = r /\ proc[b].pc = "put"

MaxOf(m, n) == IF m > n THEN m ELSE n

(***************************************************************************)
(* smgrnblocks: polar_rsc_search_entry.                                    *)
(***************************************************************************)

\* A backend asks for the size of r, to scan it or, under the relation
\* extension lock, to extend it.
Smgrnblocks(b, r) ==
    /\ proc[b] = Idle /\ ~Locked(r)
    /\ \E op \in {"lookup", "extend"} :
         /\ op = "extend" => primary /\ ~Extending(r)
         /\ proc' = [proc EXCEPT ![b] = [Idle EXCEPT !.pc = "ref", !.op = op, !.rel = r,
                                                     !.floor = known[r]]]
    /\ UNCHANGED <<primary, file, known, mapping, entry, ref>>

\* What follows when n is the answer of smgrnblocks.
Answer(b, n) == [proc[b] EXCEPT !.n = n, !.pc = IF proc[b].op = "extend" THEN "write" ELSE "done"]

Return(b) ==
    /\ proc[b].pc = "done"
    /\ proc' = [proc EXCEPT ![b] = Idle]
    /\ UNCHANGED <<primary, file, known, mapping, entry, ref>>

\* polar_rsc_search_by_ref: read the size, then compare the generation.
SearchByRef(b) ==
    LET my == ref[b][proc[b].rel]
    IN  /\ proc[b].pc = "ref"
        /\ proc' = [proc EXCEPT ![b] = IF my.sr = None
                                       THEN [@ EXCEPT !.pc = "map"]
                                       ELSE [@ EXCEPT !.pc = "check", !.n = entry[my.sr].nblocks]]
        /\ UNCHANGED <<primary, file, known, mapping, entry, ref>>

CheckGeneration(b) ==
    LET r == proc[b].rel
        my == ref[b][r]
        same == entry[my.sr].generation = my.generation
    IN  /\ proc[b].pc = "check"
        /\ ref' = IF same THEN ref ELSE [ref EXCEPT ![b][r] = NoRef]
        /\ proc' = [proc EXCEPT ![b] = IF same /\ @.n # InvalidBlockNumber THEN Answer(b, @.n)
                                       ELSE [@ EXCEPT !.pc = "map"]]
        /\ UNCHANGED <<primary, file, known, mapping, entry>>

\* polar_rsc_search_by_mapping
SearchByMapping(b) ==
    LET r == proc[b].rel
        e == mapping[r]
    IN  /\ proc[b].pc = "map"
        /\ IF e = None
           THEN /\ proc' = [proc EXCEPT ![b].pc = "upd"]
                /\ UNCHANGED ref
           ELSE /\ ref' = [ref EXCEPT ![b][r] = [sr |-> e, generation |-> entry[e].generation]]
                /\ proc' = [proc EXCEPT ![b] = IF entry[e].nblocks # InvalidBlockNumber
                                               THEN Answer(b, entry[e].nblocks)
                                               ELSE [@ EXCEPT !.pc = "upd"]]
        /\ UNCHANGED <<primary, file, known, mapping, entry>>

(***************************************************************************)
(* polar_rsc_update_entry.                                                 *)
(***************************************************************************)

Publishing(b) == proc[b].op \in {"publish", "truncate"}

\* rsc_nblocks_update: with a mapping, keep the shared lock; a lookup reads
\* the size of the file now.
UpdateFind(b) ==
    /\ proc[b].pc = "upd"
    /\ proc' = [proc EXCEPT ![b] =
                  IF mapping[@.rel] = None THEN [@ EXCEPT !.pc = "alloc"]
                  ELSE [@ EXCEPT !.pc = "put", !.n = IF Publishing(b) THEN proc[b].n ELSE file[proc[b].rel]]]
    /\ UNCHANGED <<primary, file, known, mapping, entry, ref>>

\* What an update leaves in the entry sr.  Slip: the dirty flag is ignored.
UpdatedIgnoringDirty(sr, n, is_extend) ==
    [sr EXCEPT !.nblocks = n, !.dirty = @ \/ is_extend]

Updated(sr, n, is_extend) ==
    [sr EXCEPT !.nblocks = IF is_extend \/ ~sr.dirty THEN n ELSE @, !.dirty = @ \/ is_extend]

\* The entry is updated and the partition lock released.  An extension is
\* over: its blocks are handed out.
UpdatePut(b) ==
    LET r == proc[b].rel
        n == proc[b].n
    IN  /\ proc[b].pc = "put"
        /\ entry' = [entry EXCEPT ![mapping[r]] = Updated(@, n, Publishing(b))]
        /\ proc' = [proc EXCEPT ![b] = IF Publishing(b) THEN Idle ELSE Answer(b, n)]
        /\ known' = IF proc[b].op = "publish" THEN [known EXCEPT ![r] = MaxOf(@, n)] ELSE known
        /\ UNCHANGED <<primary, file, mapping, ref>>

Generations == FoldFunction(LAMBDA g, sum : g + sum, 0, [e \in Entries |-> entry[e].generation])

\* rsc_lru_pool_sweep, and rsc_alloc_entry up to the unlock of the entry.
AllocPick(b) ==
    /\ proc[b].pc = "alloc"
    /\ Generations < IF primary THEN MaxGen ELSE ReplicaGen
    /\ \E e \in Entries :
         proc' = [proc EXCEPT ![b] = IF entry[e].valid
                                     THEN [@ EXCEPT !.pc = "evict", !.sr = e, !.victim = entry[e].rnode]
                                     ELSE [@ EXCEPT !.pc = "enter", !.sr = e]]
    /\ UNCHANGED <<primary, file, known, mapping, entry, ref>>

\* Slip: the generation stays.
EvictKeepingGeneration(b) ==
    LET e == proc[b].sr
        victim == proc[b].victim
    IN  /\ proc[b].pc = "evict" /\ ~Shared(victim)
        /\ IF mapping[victim] # e
           THEN /\ proc' = [proc EXCEPT ![b] = [@ EXCEPT !.pc = "alloc", !.sr = None, !.victim = None]]
                /\ UNCHANGED <<mapping, entry>>
           ELSE /\ mapping' = [mapping EXCEPT ![victim] = None]
                /\ entry' = [entry EXCEPT ![e].valid = FALSE]
                /\ proc' = [proc EXCEPT ![b] = [@ EXCEPT !.pc = "enter", !.victim = None]]
        /\ UNCHANGED <<primary, file, known, ref>>

\* The rest of rsc_alloc_entry, under the victim's partition lock.
AllocEvict(b) ==
    LET e == proc[b].sr
        victim == proc[b].victim
    IN  /\ proc[b].pc = "evict" /\ ~Shared(victim)
        /\ IF mapping[victim] # e
           THEN /\ proc' = [proc EXCEPT ![b] = [@ EXCEPT !.pc = "alloc", !.sr = None, !.victim = None]]
                /\ UNCHANGED <<mapping, entry>>
           ELSE /\ mapping' = [mapping EXCEPT ![victim] = None]
                /\ entry' = [entry EXCEPT ![e] = [@ EXCEPT !.valid = FALSE, !.generation = entry[e].generation + 1]]
                /\ proc' = [proc EXCEPT ![b] = [@ EXCEPT !.pc = "enter", !.victim = None]]
        /\ UNCHANGED <<primary, file, known, ref>>

\* Slip: nobody looks whether the entry was taken meanwhile.
EnterUnchecked(b) ==
    LET r == proc[b].rel
        e == proc[b].sr
    IN  /\ proc[b].pc = "enter" /\ ~Shared(r)
        /\ IF mapping[r] # None
           THEN /\ entry' = [entry EXCEPT ![e] = [@ EXCEPT !.valid = FALSE, !.dirty = FALSE]]
                /\ UNCHANGED mapping
           ELSE /\ mapping' = [mapping EXCEPT ![r] = e]
                /\ entry' = [entry EXCEPT ![e] = [valid |-> TRUE, dirty |-> FALSE, rnode |-> r,
                                generation |-> @.generation + 1, nblocks |-> InvalidBlockNumber]]
        /\ proc' = [proc EXCEPT ![b] = [@ EXCEPT !.pc = "upd", !.sr = None]]
        /\ UNCHANGED <<primary, file, known, ref>>

\* Enter the entry for r under r's partition lock, unless the entry was taken
\* (back to rsc_evict) or another backend entered r first.
UpdateEnter(b) ==
    LET r == proc[b].rel
        e == proc[b].sr
    IN  /\ proc[b].pc = "enter" /\ ~Shared(r)
        /\ IF entry[e].valid
           THEN /\ proc' = [proc EXCEPT ![b] = [@ EXCEPT !.pc = "alloc", !.sr = None]]
                /\ UNCHANGED <<mapping, entry>>
           ELSE /\ proc' = [proc EXCEPT ![b] = [@ EXCEPT !.pc = "upd", !.sr = None]]
                /\ IF mapping[r] # None
                   THEN /\ entry' = [entry EXCEPT ![e].dirty = FALSE]
                        /\ UNCHANGED mapping
                   ELSE /\ mapping' = [mapping EXCEPT ![r] = e]
                        /\ entry' = [entry EXCEPT ![e] =
                                       [valid |-> TRUE, dirty |-> FALSE, rnode |-> r,
                                        generation |-> @.generation + 1,
                                        nblocks |-> InvalidBlockNumber]]
        /\ UNCHANGED <<primary, file, known, ref>>

(***************************************************************************)
(* Extending, truncating and dropping relations.                           *)
(***************************************************************************)

\* smgrextend, smgrzeroextend and polar_smgrbulkextend at the block that
\* smgrnblocks answered: write, then update the cache.
Extend(b) ==
    LET r == proc[b].rel
    IN  /\ proc[b].pc = "write"
        /\ \E n \in (proc[b].n + 1) .. MaxBlocks :
             /\ file' = [file EXCEPT ![r] = MaxOf(@, n)]
             /\ proc' = [proc EXCEPT ![b] = [@ EXCEPT !.pc = "upd", !.op = "publish", !.n = n]]
        /\ UNCHANGED <<primary, known, mapping, entry, ref>>

\* The write fails, and may have grown the file before; the transaction aborts.
ExtendFails(b) ==
    LET r == proc[b].rel
    IN  /\ proc[b].pc = "write"
        /\ \E n \in proc[b].n .. MaxBlocks : file' = [file EXCEPT ![r] = MaxOf(@, n)]
        /\ proc' = [proc EXCEPT ![b] = Idle]
        /\ UNCHANGED <<primary, known, mapping, entry, ref>>

\* The invalidation message makes every backend close its SMgrRelation of r.
CacheInvalidateSmgr(r) == ref' = [b \in Backends |-> [ref[b] EXCEPT ![r] = NoRef]]

\* smgrtruncate2 on the primary, under AccessExclusiveLock.
Truncate(b, r) ==
    /\ primary /\ proc[b] = Idle /\ ~Busy(r)
    /\ \E n \in 0 .. file[r] :
         /\ file' = [file EXCEPT ![r] = n]
         /\ known' = [known EXCEPT ![r] = IF @ > n THEN n ELSE @]
         /\ proc' = [proc EXCEPT ![b] = [Idle EXCEPT !.pc = "upd", !.op = "truncate", !.rel = r, !.n = n]]
    /\ CacheInvalidateSmgr(r)
    /\ UNCHANGED <<primary, mapping, entry>>

\* polar_rsc_drop_entry, under r's partition lock.
DropEntry(r) ==
    /\ ~Shared(r)
    /\ IF mapping[r] = None THEN UNCHANGED <<mapping, entry>>
       ELSE /\ entry' = [entry EXCEPT ![mapping[r]] = [@ EXCEPT !.valid = FALSE,
                                                                !.nblocks = InvalidBlockNumber]]
            /\ mapping' = [mapping EXCEPT ![r] = None]

\* smgrdounlinkall under AccessExclusiveLock, replayed by a replica too.  The
\* name of the file may be given to a new relation.
Unlink(r) ==
    /\ ~Busy(r)
    /\ DropEntry(r)
    /\ CacheInvalidateSmgr(r)
    /\ file' = [file EXCEPT ![r] = 0] /\ known' = [known EXCEPT ![r] = 0]
    /\ UNCHANGED <<primary, proc>>

(***************************************************************************)
(* Replica.                                                                *)
(***************************************************************************)

\* The primary extends a file on shared storage.
PrimaryExtends(r) ==
    /\ ~primary /\ file[r] < MaxBlocks
    /\ file' = [file EXCEPT ![r] = @ + 1]
    /\ UNCHANGED <<primary, known, mapping, entry, ref, proc>>

\* polar_rsc_update_if_exists_and_greater_than
UpdateIfGreater(r, n) ==
    IF mapping[r] # None /\ n > entry[mapping[r]].nblocks
    THEN entry' = [entry EXCEPT ![mapping[r]] = [@ EXCEPT !.nblocks = n, !.dirty = TRUE]]
    ELSE UNCHANGED entry

\* The next record that adds a block is replayed: by a routine that knows the
\* block, or by the default, which drops the entry.
Replay(r) ==
    /\ ~primary /\ known[r] < file[r]
    /\ known' = [known EXCEPT ![r] = @ + 1]
    /\ \/ UpdateIfGreater(r, known[r] + 1) /\ UNCHANGED mapping
       \/ DropEntry(r)
    /\ UNCHANGED <<primary, file, ref, proc>>

\* rsc_replica_redo_smgr: the primary truncated r while the replica held the
\* lock for it, so that no query was using r.
ReplayTruncate(r) ==
    /\ ~primary /\ ~Busy(r) /\ known[r] = file[r]
    /\ \E n \in 0 .. file[r] :
         file' = [file EXCEPT ![r] = n] /\ known' = [known EXCEPT ![r] = n]
    /\ DropEntry(r)
    /\ UNCHANGED <<primary, ref, proc>>

\* polar_rsc_promote, holding all partition locks, when all WAL was replayed.
\* A query that asked before is still a query of the replica: its floor goes.
Promote ==
    /\ ~primary /\ known = file /\ \A r \in Rels : ~Shared(r)
    /\ primary' = TRUE
    /\ mapping' = [r \in Rels |-> None]
    /\ entry' = [e \in Entries |-> [entry[e] EXCEPT !.valid = FALSE, !.dirty = FALSE,
                                      !.generation = @ + 1, !.nblocks = InvalidBlockNumber]]
    /\ proc' = [b \in Backends |-> [proc[b] EXCEPT !.floor = 0]]
    /\ UNCHANGED <<file, known, ref>>

Step(b) ==
    \/ \E r \in Rels : Smgrnblocks(b, r) \/ Truncate(b, r)
    \/ Return(b) \/ SearchByRef(b) \/ CheckGeneration(b) \/ SearchByMapping(b)
    \/ UpdateFind(b) \/ UpdatePut(b) \/ AllocPick(b) \/ AllocEvict(b) \/ UpdateEnter(b)
    \/ Extend(b) \/ ExtendFails(b)

Next ==
    \/ \E b \in Backends : Step(b)
    \/ \E r \in Rels : Unlink(r) \/ PrimaryExtends(r) \/ Replay(r) \/ ReplayTruncate(r)
    \/ Promote

Spec == Init /\ [][Next]_vars

(***************************************************************************)
(* Properties.                                                             *)
(***************************************************************************)

PCs == {"idle", "ref", "check", "map", "upd", "alloc", "evict", "enter", "put", "write", "done"}
Ops == {"none", "lookup", "extend", "publish", "truncate"}
SharedRelations == [valid : BOOLEAN, dirty : BOOLEAN, generation : Nat,
                    rnode : Rels \cup {None}, nblocks : NBlocks]
Refs == [sr : Entries \cup {None}, generation : Nat]
Procs == [pc : PCs, op : Ops, rel : Rels \cup {None}, n : NBlocks,
          sr : Entries \cup {None}, victim : Rels \cup {None}, floor : 0 .. MaxBlocks]

\* The shared and the local state of the cache have their types, and smgrnblocks
\* never answers InvalidBlockNumber, which an entry holds when it is entered and
\* after it was dropped.
TypeOK ==
    /\ primary \in BOOLEAN
    /\ file \in [Rels -> 0 .. MaxBlocks] /\ known \in [Rels -> 0 .. MaxBlocks]
    /\ mapping \in [Rels -> Entries \cup {None}]
    /\ entry \in [Entries -> SharedRelations]
    /\ ref \in [Backends -> [Rels -> Refs]]
    /\ proc \in [Backends -> Procs]
    /\ \A b \in Backends : proc[b].pc \in {"done", "write"} => proc[b].n # InvalidBlockNumber

\* The mapping and the valid entries name each other, whatever backends allocate,
\* evict and drop at once: no two relations share an entry, no valid entry leaks,
\* and Assert(flags & RSC_VALID) of rsc_alloc_entry and polar_rsc_drop_entry holds.
MappingSound ==
    \A r \in Rels, e \in Entries : mapping[r] = e <=> entry[e].valid /\ entry[e].rnode = r

\* On the primary smgrnblocks answers with a size that is not past the end of
\* the file and covers every block handed out before the call: a scan misses no
\* block, and an extension overwrites none.
LookupSound ==
    primary => \A b \in Backends : proc[b].pc \in {"done", "write"} =>
        proc[b].floor <= proc[b].n /\ proc[b].n <= file[proc[b].rel]

\* On the primary the cached size of a relation that nobody is truncating covers
\* every block handed out, however lookups and extensions overtake each other.
CacheCoherent ==
    primary => \A r \in Rels :
        LET e == mapping[r]
        IN  e # None /\ ~Locked(r) /\ entry[e].nblocks # InvalidBlockNumber =>
              known[r] <= entry[e].nblocks /\ entry[e].nblocks <= file[r]

\* On a replica, too, the answer of smgrnblocks covers every block whose record
\* was replayed before the call, as the redo routines are there to keep "RSC
\* entries in shared memory accurate" (xlogrecovery.c).
ReplicaLookupSound ==
    \A b \in Backends : proc[b].pc = "done" => proc[b].floor <= proc[b].n

=============================================================================
