------------------------ MODULE RelSizeCacheProofs ------------------------
(***************************************************************************)
(* Proofs about the relation size cache, for any numbers of relations,     *)
(* entries, backends, blocks and generations.                              *)
(*                                                                         *)
(* The properties are about answers; what makes them inductive is what a   *)
(* backend may rely on between the steps of a call.                        *)
(***************************************************************************)
EXTENDS RelSizeCache, TLAPS

(***************************************************************************)
(* The inductive invariant.                                                *)
(***************************************************************************)

Updating == {"upd", "alloc", "evict", "enter", "put"}

\* What the program counter of a backend says about its other fields.
ProcShape(p) ==
    /\ p.pc = "idle" => p = Idle
    /\ p.pc # "idle" => p.rel \in Rels
    /\ p.pc \in {"ref", "check", "map"} => p.op \in {"lookup", "extend"}
    /\ p.pc = "done" => p.op = "lookup"
    /\ p.pc = "write" => p.op = "extend"
    /\ p.pc \in Updating => p.op # "none"
    /\ p.op \in {"publish", "truncate"} => p.pc \in Updating
    /\ p.pc \in {"evict", "enter"} => p.sr \in Entries
    /\ p.pc = "evict" => p.victim \in Rels
    /\ p.op \in {"extend", "publish", "truncate"} => primary
Shape ==
    /\ \A b \in Backends : ProcShape(proc[b])
    /\ \A e \in Entries : entry[e].valid => entry[e].rnode \in Rels

\* A truncation is alone with its relation; one extension at a time.
Exclusive ==
    \A b, c \in Backends : b # c /\ proc[b].rel = proc[c].rel /\ proc[b].rel \in Rels =>
        /\ proc[b].op # "truncate"
        /\ ~ (proc[b].op \in {"extend", "publish"} /\ proc[c].op \in {"extend", "publish"})

KnownInFile == \A r \in Rels : known[r] <= file[r]

\* A cached size is within the file, and on the primary covers what was handed out.
CacheBound ==
    \A r \in Rels : \A e \in Entries :
        mapping[r] = e /\ ~Locked(r) /\ entry[e].nblocks # InvalidBlockNumber =>
            /\ entry[e].nblocks <= file[r]
            /\ primary => known[r] <= entry[e].nblocks

\* A pointer whose generation is still that of its entry points to the entry of
\* its relation, or to one that was dropped and holds no size.
RefOK(my, r) ==
    my.sr # None =>
        /\ my.generation <= entry[my.sr].generation
        /\ my.generation = entry[my.sr].generation =>
             \/ mapping[r] = my.sr
             \/ ~entry[my.sr].valid /\ entry[my.sr].nblocks = InvalidBlockNumber
RefSound == \A b \in Backends, r \in Rels : RefOK(ref[b][r], r)

\* What backend b, at step p with relation r, may rely on.
CallBounds(p, r) ==
    /\ p.floor <= known[r]
    /\ p.op = "extend" => p.floor = known[r]
    /\ p.op = "publish" => known[r] <= p.n /\ p.n <= file[r]
    /\ p.op = "truncate" => known[r] <= p.n /\ p.n = file[r]
    /\ p.pc \in {"done", "write"} => p.n <= file[r] /\ (primary => p.floor <= p.n)
\* The size in hand while the partition lock is held shared.
PutBounds(p, r) ==
    /\ mapping[r] # None
    /\ p.op \in {"lookup", "extend"} =>
         /\ p.floor <= p.n /\ p.n <= file[r]
         /\ primary /\ ~entry[mapping[r]].dirty => known[r] <= p.n
\* The size that was read through the pointer my, before the generation is compared.
CheckBounds(p, r, my) ==
    /\ my.sr # None
    /\ entry[my.sr].generation = my.generation /\ p.n # InvalidBlockNumber =>
         p.n <= file[r] /\ (primary => p.floor <= p.n)
CallOK(b, p) ==
    /\ p.pc # "idle" => CallBounds(p, p.rel)
    /\ p.pc = "put" => PutBounds(p, p.rel)
    /\ p.pc = "check" => CheckBounds(p, p.rel, ref[b][p.rel])
CallSound == \A b \in Backends : CallOK(b, proc[b])

IInv == TypeOK /\ Shape /\ Exclusive /\ KnownInFile /\ MappingSound /\ CacheBound /\ RefSound /\ CallSound

\* Two backends at steps p and q may be at work at the same time.
Compatible(p, q) ==
    p.rel = q.rel /\ p.rel \in Rels =>
        /\ p.op # "truncate" /\ q.op # "truncate"
        /\ ~ (p.op \in {"extend", "publish"} /\ q.op \in {"extend", "publish"})

\* Sizes are numbers; InvalidBlockNumber is the largest and no size of a file.
LEMMA Blocks ==
    /\ NBlocks \subseteq Nat /\ 0 .. MaxBlocks \subseteq NBlocks /\ 0 .. MaxBlocks \subseteq Nat
    /\ InvalidBlockNumber \in NBlocks /\ InvalidBlockNumber \notin 0 .. MaxBlocks
    /\ \A n \in NBlocks : n # InvalidBlockNumber => n \in 0 .. MaxBlocks
    /\ 0 \in 0 .. MaxBlocks
  BY BlocksAssumption DEF NBlocks, InvalidBlockNumber

LEMMA IdleProc ==
    /\ Idle \in Procs /\ ProcShape(Idle)
    /\ Idle.pc = "idle" /\ Idle.op = "none" /\ Idle.rel = None
  <1>1. Idle.n \in NBlocks /\ Idle.floor \in 0 .. MaxBlocks
    BY Blocks DEF Idle
  <1> QED BY <1>1 DEF Idle, Procs, PCs, Ops, ProcShape, Updating

(***************************************************************************)
(* Steps that change nothing but the backend's own state.                  *)
(***************************************************************************)

\* A backend's own state moves from proc[b] to q.
LEMMA LocalStep ==
    ASSUME IInv, NEW b \in Backends, NEW q \in Procs,
           proc' = [proc EXCEPT ![b] = q],
           UNCHANGED <<primary, file, known, mapping, entry, ref>>,
           ProcShape(q), q.pc \in {"done", "write"} => q.n # InvalidBlockNumber,
           \A c \in Backends \ {b} : Compatible(q, proc[c]),
           proc[b].op = "truncate" => q.op = "truncate" /\ q.rel = proc[b].rel,
           CallOK(b, q)
    PROVE  IInv'
  <1>1. /\ proc'[b] = q
        /\ \A c \in Backends \ {b} : proc'[c] = proc[c]
    BY DEF IInv, TypeOK
  <1>2. TypeOK'
    BY <1>1 DEF IInv, TypeOK
  <1>3. Shape'
    BY <1>1 DEF IInv, Shape, ProcShape
  <1>4. Exclusive'
    BY <1>1 DEF IInv, Exclusive, Compatible
  <1>5. CacheBound'
    BY <1>1 DEF IInv, CacheBound, Locked
  <1>6. CallSound'
    BY <1>1 DEF IInv, CallSound, CallOK, CallBounds, PutBounds, CheckBounds
  <1>7. KnownInFile' /\ MappingSound' /\ RefSound'
    BY DEF IInv, KnownInFile, MappingSound, RefSound, RefOK
  <1> QED BY <1>2, <1>3, <1>4, <1>5, <1>6, <1>7 DEF IInv

\* The same with a new pointer my to an entry of the relation r at hand.
LEMMA LocalRefStep ==
    ASSUME IInv, NEW b \in Backends, NEW q \in Procs, NEW r \in Rels, NEW my \in Refs,
           proc' = [proc EXCEPT ![b] = q],
           ref' = [ref EXCEPT ![b][r] = my],
           UNCHANGED <<primary, file, known, mapping, entry>>,
           RefOK(my, r), q.pc # "check",
           ProcShape(q), q.pc \in {"done", "write"} => q.n # InvalidBlockNumber,
           \A c \in Backends \ {b} : Compatible(q, proc[c]),
           proc[b].op = "truncate" => q.op = "truncate" /\ q.rel = proc[b].rel,
           CallOK(b, q)
    PROVE  IInv'
  <1>1. /\ proc'[b] = q
        /\ \A c \in Backends \ {b} : proc'[c] = proc[c] /\ ref'[c] = ref[c]
        /\ ref'[b] = [ref[b] EXCEPT ![r] = my]
    BY DEF IInv, TypeOK
  <1>2. TypeOK'
    BY <1>1 DEF IInv, TypeOK
  <1>3. Shape'
    BY <1>1 DEF IInv, Shape, ProcShape
  <1>4. Exclusive'
    BY <1>1 DEF IInv, Exclusive, Compatible
  <1>5. CacheBound'
    BY <1>1 DEF IInv, CacheBound, Locked
  <1>6. CallSound'
    <2>1. CallOK(b, proc[b])'
      BY <1>1 DEF CallOK, CallBounds, PutBounds, CheckBounds
    <2>2. ASSUME NEW c \in Backends \ {b}
          PROVE  CallOK(c, proc[c])'
      <3>1. CallOK(c, proc[c]) /\ proc'[c] = proc[c] /\ ref'[c] = ref[c]
        BY <1>1 DEF IInv, CallSound
      <3> QED BY <3>1 DEF CallOK, CallBounds, PutBounds, CheckBounds
    <2> QED BY <2>1, <2>2 DEF CallSound
  <1>7. KnownInFile' /\ MappingSound'
    BY DEF IInv, KnownInFile, MappingSound
  <1>8. RefSound'
    BY <1>1 DEF IInv, TypeOK, RefSound, RefOK
  <1> QED BY <1>2, <1>3, <1>4, <1>5, <1>6, <1>7, <1>8 DEF IInv

\* A backend that goes on with its relation and operation stays compatible.
LEMMA SameCall ==
    ASSUME IInv, NEW b \in Backends, NEW q \in Procs,
           q.rel = proc[b].rel, q.op = proc[b].op
    PROVE  \A c \in Backends \ {b} : Compatible(q, proc[c])
  BY DEF IInv, Exclusive, Compatible

\* What the invariant says of a backend at work.
LEMMA Working ==
    ASSUME IInv, NEW b \in Backends, proc[b].pc # "idle"
    PROVE  /\ proc[b] \in Procs /\ ProcShape(proc[b]) /\ CallOK(b, proc[b])
           /\ proc[b].rel \in Rels /\ CallBounds(proc[b], proc[b].rel)
           /\ ref[b][proc[b].rel] \in Refs
           /\ file[proc[b].rel] \in 0 .. MaxBlocks /\ known[proc[b].rel] \in 0 .. MaxBlocks
           /\ known[proc[b].rel] <= file[proc[b].rel]
           /\ proc[b].floor \in 0 .. MaxBlocks /\ proc[b].n \in NBlocks
           /\ proc[b].op \in {"lookup", "extend", "publish", "truncate"}
           /\ proc[b].op # "truncate" => ~Locked(proc[b].rel)
  <1>1. proc[b] \in Procs /\ ProcShape(proc[b]) /\ CallOK(b, proc[b])
    BY DEF IInv, TypeOK, Shape, CallSound
  <1>2. proc[b].rel \in Rels
    BY <1>1 DEF ProcShape
  <1>3. proc[b].op # "truncate" => ~Locked(proc[b].rel)
    BY <1>2 DEF IInv, Exclusive, Locked
  <1>4. proc[b].op \in {"lookup", "extend", "publish", "truncate"}
    <2>1. proc[b].pc \in {"ref", "check", "map", "done", "write"} \cup Updating /\ proc[b].op \in Ops
      BY <1>1 DEF Procs, PCs, Updating
    <2> QED BY <1>1, <2>1 DEF ProcShape, Ops
  <1> QED BY <1>1, <1>2, <1>3, <1>4 DEF IInv, TypeOK, KnownInFile, Procs, CallOK

LEMMA SmgrnblocksIInv ==
    ASSUME IInv, NEW b \in Backends, NEW r \in Rels, Smgrnblocks(b, r)
    PROVE  IInv'
  <1>1. PICK op \in {"lookup", "extend"} :
          /\ op = "extend" => primary /\ ~Extending(r)
          /\ proc' = [proc EXCEPT ![b] = [Idle EXCEPT !.pc = "ref", !.op = op, !.rel = r,
                                                      !.floor = known[r]]]
    BY DEF Smgrnblocks
  <1> DEFINE q == [Idle EXCEPT !.pc = "ref", !.op = op, !.rel = r, !.floor = known[r]]
  <1>2. /\ q \in Procs /\ ProcShape(q)
        /\ q.pc = "ref" /\ q.op = op /\ q.rel = r /\ q.floor = known[r]
    <2>1. known[r] \in 0 .. MaxBlocks
      BY DEF IInv, TypeOK
    <2>2. /\ q \in Procs
          /\ q.pc = "ref" /\ q.op = op /\ q.rel = r /\ q.floor = known[r]
      BY <2>1, IdleProc DEF Idle, Procs, PCs, Ops
    <2> QED BY <1>1, <2>2 DEF ProcShape, Updating
  <1>3. \A c \in Backends \ {b} : Compatible(q, proc[c])
    BY <1>1, <1>2 DEF Compatible, Smgrnblocks, Locked, Extending
  <1>4. CallOK(b, q)
    BY <1>2 DEF CallOK, CallBounds, IInv, TypeOK
  <1>5. proc[b].op # "truncate"
    BY DEF Smgrnblocks, Idle
  <1> HIDE DEF q
  <1> QED BY <1>1, <1>2, <1>3, <1>4, <1>5, LocalStep DEF Smgrnblocks, q

LEMMA ReturnIInv ==
    ASSUME IInv, NEW b \in Backends, Return(b)
    PROVE  IInv'
  <1>2. \A c \in Backends \ {b} : Compatible(Idle, proc[c])
    BY IdleProc, NoneAssumption DEF Compatible
  <1>3. proc[b].op # "truncate"
    BY DEF Return, IInv, Shape, ProcShape
  <1>4. CallOK(b, Idle)
    BY IdleProc DEF CallOK
  <1> QED BY IdleProc, <1>2, <1>3, <1>4, LocalStep DEF Return

LEMMA SearchByRefIInv ==
    ASSUME IInv, NEW b \in Backends, SearchByRef(b)
    PROVE  IInv'
  <1> DEFINE p == proc[b]
             r == p.rel
             my == ref[b][r]
             q == IF my.sr = None THEN [p EXCEPT !.pc = "map"]
                  ELSE [p EXCEPT !.pc = "check", !.n = entry[my.sr].nblocks]
  <1>1. /\ p \in Procs /\ p.pc = "ref" /\ r \in Rels /\ my \in Refs
        /\ p.op \in {"lookup", "extend"} /\ ProcShape(p) /\ CallBounds(p, r)
    BY DEF SearchByRef, IInv, TypeOK, Shape, ProcShape, CallSound, CallOK
  <1>2. my.sr # None => my.sr \in Entries /\ entry[my.sr] \in SharedRelations
    BY <1>1 DEF IInv, TypeOK, Refs
  <1>3. /\ q \in Procs /\ q.rel = r /\ q.op = p.op /\ q.floor = p.floor
        /\ q.pc \in {"map", "check"}
        /\ q.pc = "check" => my.sr # None /\ q.n = entry[my.sr].nblocks
    BY <1>1, <1>2 DEF Procs, PCs, SharedRelations
  <1>4. ProcShape(q)
    BY <1>1, <1>3 DEF ProcShape, Updating
  <1>5. ~Locked(r)
    BY <1>1 DEF IInv, Exclusive, Locked
  <1>6. CallOK(b, q)
    <2>1. CallBounds(q, r)
      BY <1>1, <1>3 DEF CallBounds
    <2>2. CASE q.pc = "check"
      <3>1. SUFFICES ASSUME entry[my.sr].generation = my.generation, q.n # InvalidBlockNumber
                     PROVE  q.n <= file[r] /\ (primary => q.floor <= q.n)
        BY <1>3, <2>1, <2>2 DEF CallOK, CheckBounds
      <3>2. mapping[r] = my.sr
        BY <1>1, <1>2, <1>3, <2>2, <3>1 DEF IInv, RefSound, RefOK
      <3>3. q.n <= file[r] /\ (primary => known[r] <= q.n)
        BY <1>1, <1>2, <1>3, <1>5, <2>2, <3>1, <3>2 DEF IInv, CacheBound
      <3>4. q.floor <= known[r] /\ q.floor \in Nat /\ known[r] \in Nat /\ q.n \in Nat
        <4>1. q.floor \in 0 .. MaxBlocks /\ known[r] \in 0 .. MaxBlocks /\ q.n \in NBlocks
          BY <1>1, <1>3 DEF IInv, TypeOK, Procs
        <4> QED BY <4>1, <2>1, Blocks DEF CallBounds
      <3> QED BY <3>3, <3>4
    <2>3. CASE q.pc = "map"
      BY <1>3, <2>1, <2>3 DEF CallOK
    <2> QED BY <1>3, <2>2, <2>3
  <1>7. proc' = [proc EXCEPT ![b] = q]
    BY DEF SearchByRef
  <1>8. \A c \in Backends \ {b} : Compatible(q, proc[c])
    BY <1>3, SameCall
  <1> HIDE DEF q
  <1> QED BY <1>1, <1>3, <1>4, <1>6, <1>7, <1>8, LocalStep DEF SearchByRef

\* An answer that fits the call ends the search.
LEMMA AnswerOK ==
    ASSUME IInv, NEW b \in Backends, proc[b].pc # "idle", proc[b].op \in {"lookup", "extend"},
           NEW n \in 0 .. MaxBlocks, n <= file[proc[b].rel], primary => proc[b].floor <= n
    PROVE  /\ Answer(b, n) \in Procs /\ ProcShape(Answer(b, n)) /\ CallOK(b, Answer(b, n))
           /\ Answer(b, n).rel = proc[b].rel /\ Answer(b, n).op = proc[b].op
           /\ Answer(b, n).n = n /\ Answer(b, n).pc \in {"done", "write"}
           /\ n # InvalidBlockNumber
  <1> DEFINE p == proc[b]
             q == Answer(b, n)
  <1>1. /\ q \in Procs /\ q.rel = p.rel /\ q.op = p.op /\ q.n = n /\ q.floor = p.floor
        /\ q.pc = IF p.op = "extend" THEN "write" ELSE "done"
    BY Working, Blocks DEF Answer, Procs, PCs
  <1>2. ProcShape(q)
    BY <1>1, Working DEF ProcShape, Updating
  <1>3. CallOK(b, q)
    BY <1>1, Working DEF CallOK, CallBounds
  <1> QED BY <1>1, <1>2, <1>3, Blocks

LEMMA CheckGenerationIInv ==
    ASSUME IInv, NEW b \in Backends, CheckGeneration(b)
    PROVE  IInv'
  <1> DEFINE p == proc[b]
             r == p.rel
             my == ref[b][r]
             same == entry[my.sr].generation = my.generation
             q == IF same /\ p.n # InvalidBlockNumber THEN Answer(b, p.n)
                  ELSE [p EXCEPT !.pc = "map"]
  <1>1. p.pc = "check" /\ p.op \in {"lookup", "extend"} /\ CheckBounds(p, r, my)
    BY Working DEF CheckGeneration, ProcShape, CallOK
  <1>2. /\ q \in Procs /\ ProcShape(q) /\ CallOK(b, q) /\ q.rel = r /\ q.op = p.op
        /\ q.pc # "check" /\ (q.pc \in {"done", "write"} => q.n # InvalidBlockNumber)
    <2>1. CASE same /\ p.n # InvalidBlockNumber
      <3>1. p.n \in 0 .. MaxBlocks
        BY <1>1, <2>1, Working, Blocks
      <3> QED BY <1>1, <2>1, <3>1, AnswerOK DEF CheckBounds
    <2>2. CASE ~(same /\ p.n # InvalidBlockNumber)
      <3>1. q \in Procs /\ q.pc = "map" /\ q.rel = r /\ q.op = p.op /\ q.floor = p.floor
        BY <1>1, <2>2, Working DEF Procs, PCs
      <3>2. ProcShape(q)
        BY <1>1, <3>1, Working DEF ProcShape, Updating
      <3>3. CallOK(b, q)
        BY <1>1, <3>1, Working DEF CallOK, CallBounds
      <3> QED BY <3>1, <3>2, <3>3
    <2> QED BY <2>1, <2>2
  <1>3. proc' = [proc EXCEPT ![b] = q]
    BY DEF CheckGeneration
  <1>4. \A c \in Backends \ {b} : Compatible(q, proc[c])
    BY <1>2, SameCall
  <1> HIDE DEF q
  <1>5. CASE same
    BY <1>1, <1>2, <1>3, <1>4, <1>5, LocalStep DEF CheckGeneration
  <1>6. CASE ~same
    <2>1. NoRef \in Refs /\ RefOK(NoRef, r)
      BY DEF NoRef, Refs, RefOK
    <2> QED BY <1>1, <1>2, <1>3, <1>4, <1>6, <2>1, Working, LocalRefStep DEF CheckGeneration
  <1> QED BY <1>5, <1>6

LEMMA SearchByMappingIInv ==
    ASSUME IInv, NEW b \in Backends, SearchByMapping(b)
    PROVE  IInv'
  <1> DEFINE p == proc[b]
             r == p.rel
             e == mapping[r]
             my == [sr |-> e, generation |-> entry[e].generation]
             upd == [p EXCEPT !.pc = "upd"]
  <1>1. p.pc = "map" /\ p.op \in {"lookup", "extend"} /\ r \in Rels
    BY Working DEF SearchByMapping, ProcShape
  <1>2. /\ upd \in Procs /\ ProcShape(upd) /\ CallOK(b, upd)
        /\ upd.rel = r /\ upd.op = p.op /\ upd.pc = "upd"
    <2>1. upd \in Procs /\ upd.pc = "upd" /\ upd.rel = r /\ upd.op = p.op /\ upd.floor = p.floor
      BY <1>1, Working DEF Procs, PCs
    <2>2. ProcShape(upd)
      BY <1>1, <2>1, Working DEF ProcShape, Updating
    <2>3. CallOK(b, upd)
      BY <1>1, <2>1, Working DEF CallOK, CallBounds
    <2> QED BY <2>1, <2>2, <2>3
  <1>3. \A c \in Backends \ {b} : Compatible(upd, proc[c])
    BY <1>2, SameCall
  <1> HIDE DEF upd
  <1>4. CASE e = None
    <2>1. proc' = [proc EXCEPT ![b] = upd] /\ UNCHANGED ref
      BY <1>4 DEF SearchByMapping, upd
    <2> QED BY <1>1, <1>2, <1>3, <2>1, LocalStep DEF SearchByMapping
  <1>5. CASE e # None
    <2>1. e \in Entries /\ entry[e] \in SharedRelations
      BY <1>1, <1>5 DEF IInv, TypeOK
    <2>2. /\ my \in Refs /\ RefOK(my, r)
          /\ entry[e].nblocks \in NBlocks
      BY <2>1 DEF Refs, SharedRelations, RefOK
    <2>3. ref' = [ref EXCEPT ![b][r] = my]
      BY <1>5 DEF SearchByMapping
    <2> HIDE DEF my
    <2>4. CASE entry[e].nblocks = InvalidBlockNumber
      <3>1. proc' = [proc EXCEPT ![b] = upd]
        BY <1>5, <2>4 DEF SearchByMapping, upd
      <3> QED BY <1>1, <1>2, <1>3, <2>2, <2>3, <3>1, LocalRefStep DEF SearchByMapping
    <2>5. CASE entry[e].nblocks # InvalidBlockNumber
      <3> DEFINE n == entry[e].nblocks
                 q == Answer(b, n)
      <3>1. proc' = [proc EXCEPT ![b] = q]
        BY <1>5, <2>5 DEF SearchByMapping
      <3>2. n <= file[r] /\ (primary => known[r] <= n)
        BY <1>1, <1>5, <2>1, <2>5, Working DEF IInv, CacheBound
      <3>3. n \in 0 .. MaxBlocks /\ (primary => p.floor <= n)
        <4>1. n \in 0 .. MaxBlocks
          BY <2>2, <2>5, Blocks
        <4>2. p.floor <= known[r] /\ p.floor \in Nat /\ known[r] \in Nat /\ n \in Nat
          BY <1>1, <4>1, Working, Blocks DEF CallBounds
        <4> QED BY <3>2, <4>1, <4>2
      <3> HIDE DEF n
      <3>4. /\ q \in Procs /\ ProcShape(q) /\ CallOK(b, q) /\ q.rel = r /\ q.op = p.op
            /\ q.pc \in {"done", "write"} /\ q.n # InvalidBlockNumber
        BY <1>1, <3>2, <3>3, AnswerOK
      <3>5. \A c \in Backends \ {b} : Compatible(q, proc[c])
        BY <3>4, SameCall
      <3> HIDE DEF q
      <3> QED BY <1>1, <2>2, <2>3, <3>1, <3>4, <3>5, LocalRefStep DEF SearchByMapping
    <2> QED BY <2>4, <2>5
  <1> QED BY <1>4, <1>5

LEMMA UpdateFindIInv ==
    ASSUME IInv, NEW b \in Backends, UpdateFind(b)
    PROVE  IInv'
  <1> DEFINE p == proc[b]
             r == p.rel
             q == IF mapping[r] = None THEN [p EXCEPT !.pc = "alloc"]
                  ELSE [p EXCEPT !.pc = "put", !.n = IF Publishing(b) THEN p.n ELSE file[r]]
  <1>1. p.pc = "upd" /\ r \in Rels
    BY Working DEF UpdateFind
  <1>2. /\ q \in Procs /\ q.rel = r /\ q.op = p.op /\ q.floor = p.floor
        /\ q.pc = IF mapping[r] = None THEN "alloc" ELSE "put"
        /\ q.n = IF Publishing(b) \/ mapping[r] = None THEN p.n ELSE file[r]
    <2>1. p \in Procs /\ file[r] \in NBlocks
      BY <1>1, Working, Blocks
    <2>2. CASE mapping[r] = None
      BY <2>1, <2>2 DEF Procs, PCs
    <2>3. CASE mapping[r] # None
      BY <2>1, <2>3 DEF Procs, PCs
    <2> QED BY <2>2, <2>3
  <1>3. ProcShape(q)
    BY <1>1, <1>2, Working DEF ProcShape, Updating
  <1>4. CallOK(b, q)
    <2>1. CallBounds(q, r)
      BY <1>1, <1>2, Working DEF CallBounds, Publishing
    <2>2. q.pc = "put" => PutBounds(q, r)
      <3> SUFFICES ASSUME q.pc = "put", q.op \in {"lookup", "extend"}
                   PROVE  /\ q.floor <= q.n /\ q.n <= file[r]
                          /\ primary /\ ~entry[mapping[r]].dirty => known[r] <= q.n
        BY <1>2 DEF PutBounds
      <3>1. q.n = file[r]
        BY <1>2 DEF Publishing
      <3>2. file[r] \in Nat /\ known[r] \in Nat /\ q.floor \in Nat /\ q.floor <= known[r] /\ known[r] <= file[r]
        BY <1>1, <1>2, Working, Blocks DEF CallBounds
      <3> QED BY <3>1, <3>2
    <2> QED BY <1>2, <2>1, <2>2 DEF CallOK
  <1>5. proc' = [proc EXCEPT ![b] = q]
    BY DEF UpdateFind
  <1>6. \A c \in Backends \ {b} : Compatible(q, proc[c])
    BY <1>2, SameCall
  <1> HIDE DEF q
  <1> QED BY <1>1, <1>2, <1>3, <1>4, <1>5, <1>6, LocalStep DEF UpdateFind

LEMMA AllocPickIInv ==
    ASSUME IInv, NEW b \in Backends, AllocPick(b)
    PROVE  IInv'
  <1> DEFINE p == proc[b]
             q(e) == IF entry[e].valid
                     THEN [p EXCEPT !.pc = "evict", !.sr = e, !.victim = entry[e].rnode]
                     ELSE [p EXCEPT !.pc = "enter", !.sr = e]
  <1>1. PICK e \in Entries : proc' = [proc EXCEPT ![b] = q(e)]
    BY DEF AllocPick
  <1>2. p.pc = "alloc"
    BY DEF AllocPick
  <1>3. /\ q(e) \in Procs /\ q(e).rel = p.rel /\ q(e).op = p.op /\ q(e).floor = p.floor
        /\ q(e).n = p.n /\ q(e).sr = e /\ q(e).pc \in {"evict", "enter"}
        /\ q(e).pc = "evict" => q(e).victim \in Rels
    <2>1. entry[e] \in SharedRelations /\ (entry[e].valid => entry[e].rnode \in Rels)
      BY DEF IInv, TypeOK, Shape
    <2>2. p \in Procs
      BY <1>2, Working
    <2>3. CASE entry[e].valid
      BY <2>1, <2>2, <2>3 DEF Procs, PCs, SharedRelations
    <2>4. CASE ~entry[e].valid
      BY <2>2, <2>4 DEF Procs, PCs
    <2> QED BY <2>3, <2>4
  <1>4. ProcShape(q(e))
    BY <1>2, <1>3, Working DEF ProcShape, Updating
  <1>5. CallOK(b, q(e))
    BY <1>2, <1>3, Working DEF CallOK, CallBounds
  <1>6. \A c \in Backends \ {b} : Compatible(q(e), proc[c])
    BY <1>3, SameCall
  <1> HIDE DEF q
  <1> QED BY <1>1, <1>2, <1>3, <1>4, <1>5, <1>6, LocalStep DEF AllocPick

(***************************************************************************)
(* Steps that change the cache.                                            *)
(***************************************************************************)

\* The mapping is one to one, and mapped entries are valid.
LEMMA Mapped ==
    ASSUME IInv, NEW r \in Rels, mapping[r] # None
    PROVE  /\ mapping[r] \in Entries /\ entry[mapping[r]] \in SharedRelations
           /\ entry[mapping[r]].valid /\ entry[mapping[r]].rnode = r
           /\ \A s \in Rels : mapping[s] = mapping[r] => s = r
  <1>1. mapping[r] \in Entries /\ entry[mapping[r]] \in SharedRelations
    BY DEF IInv, TypeOK
  <1> QED BY <1>1 DEF IInv, MappingSound

LEMMA UpdatePutIInv ==
    ASSUME IInv, NEW b \in Backends, UpdatePut(b)
    PROVE  IInv'
  <1> DEFINE p == proc[b]
             r == p.rel
             n == p.n
             e == mapping[r]
             sr == Updated(entry[e], n, Publishing(b))
             q == IF Publishing(b) THEN Idle ELSE Answer(b, n)
  <1>1. /\ p.pc = "put" /\ r \in Rels /\ PutBounds(p, r) /\ e # None
        /\ p.op \in {"lookup", "extend", "publish", "truncate"}
    BY Working DEF UpdatePut, CallOK, PutBounds
  <1>2. /\ e \in Entries /\ entry[e] \in SharedRelations /\ entry[e].valid
        /\ \A s \in Rels : mapping[s] = e => s = r
    BY <1>1, Mapped
  <1>3. /\ n \in Nat /\ n \in 0 .. MaxBlocks /\ n <= file[r]
        /\ p.op = "publish" \/ p.op = "truncate" => known[r] <= n
        /\ known[r] \in Nat /\ file[r] \in Nat
    <2>1. n \in Nat /\ file[r] \in 0 .. MaxBlocks /\ known[r] \in 0 .. MaxBlocks /\ n <= file[r]
      <3>1. n \in Nat /\ file[r] \in 0 .. MaxBlocks /\ known[r] \in 0 .. MaxBlocks
        BY <1>1, Working, Blocks
      <3>2. CallBounds(p, r) /\ file[r] \in Nat
        BY <1>1, <3>1, Working
      <3> QED BY <1>1, <3>1, <3>2 DEF PutBounds, CallBounds
    <2>2. n \in 0 .. MaxBlocks
      BY <2>1, BlocksAssumption
    <2> QED BY <1>1, <2>1, <2>2, Working, Blocks DEF CallBounds
  <1>4. /\ sr \in SharedRelations /\ sr.valid = entry[e].valid /\ sr.rnode = entry[e].rnode
        /\ sr.generation = entry[e].generation
        /\ sr.nblocks = IF Publishing(b) \/ ~entry[e].dirty THEN n ELSE entry[e].nblocks
        /\ sr.dirty <=> entry[e].dirty \/ Publishing(b)
    <2>1. n \in NBlocks /\ Publishing(b) \in BOOLEAN
      BY <1>3, Blocks DEF Publishing
    <2> QED BY <1>2, <2>1 DEF Updated, SharedRelations
  <1>5. /\ entry' = [entry EXCEPT ![e] = sr] /\ proc' = [proc EXCEPT ![b] = q]
        /\ UNCHANGED <<primary, file, mapping, ref>>
        /\ entry'[e] = sr /\ \A d \in Entries \ {e} : entry'[d] = entry[d]
        /\ proc'[b] = q /\ \A c \in Backends \ {b} : proc'[c] = proc[c]
    BY <1>2 DEF UpdatePut, IInv, TypeOK
  <1>6. /\ known' \in [Rels -> 0 .. MaxBlocks]
        /\ known'[r] = IF p.op = "publish" THEN n ELSE known[r]
        /\ \A s \in Rels \ {r} : known'[s] = known[s]
    BY <1>1, <1>3 DEF UpdatePut, MaxOf, IInv, TypeOK
  <1>7. /\ q \in Procs /\ ProcShape(q) /\ q.pc \in {"idle", "done", "write"}
        /\ q.pc \in {"done", "write"} => q.n # InvalidBlockNumber
        /\ q.pc = "idle" => Publishing(b) /\ q.rel = None
        /\ q.pc # "idle" => q.rel = r /\ q.op = p.op /\ ~Publishing(b) /\ CallOK(b, q)
    <2>1. CASE Publishing(b)
      BY <2>1, IdleProc
    <2>2. CASE ~Publishing(b)
      <3>1. p.op \in {"lookup", "extend"} /\ p.floor <= n
        BY <1>1, <2>2 DEF Publishing, PutBounds
      <3> QED BY <1>1, <1>3, <2>2, <3>1, AnswerOK
    <2> QED BY <2>1, <2>2
  <1> HIDE DEF q, sr
  <1>8. TypeOK'
    <2>1. entry' \in [Entries -> SharedRelations] /\ proc' \in [Backends -> Procs]
      BY <1>4, <1>5, <1>7 DEF IInv, TypeOK
    <2> QED BY <1>5, <1>6, <1>7, <2>1 DEF IInv, TypeOK
  <1>9. Shape'
    BY <1>4, <1>5, <1>7 DEF IInv, Shape, ProcShape
  <1>10. Exclusive'
    BY <1>5, <1>7, NoneAssumption DEF IInv, Exclusive
  <1>11. KnownInFile'
    BY <1>1, <1>3, <1>5, <1>6 DEF IInv, KnownInFile
  <1>12. MappingSound'
    BY <1>4, <1>5 DEF IInv, MappingSound
  <1>13. CacheBound'
    <2> SUFFICES ASSUME NEW s \in Rels, NEW d \in Entries, mapping[s] = d, ~Locked(s)',
                        entry'[d].nblocks # InvalidBlockNumber
                 PROVE  entry'[d].nblocks <= file[s] /\ (primary => known'[s] <= entry'[d].nblocks)
      BY <1>5 DEF CacheBound
    <2>1. CASE s # r
      <3>1. ~Locked(s) /\ d # e
        BY <1>2, <1>5, <2>1 DEF Locked
      <3> QED BY <1>5, <1>6, <2>1, <3>1 DEF IInv, CacheBound
    <2>2. CASE s = r /\ Publishing(b)
      BY <1>3, <1>4, <1>5, <1>6, <2>2 DEF Publishing
    <2>3. CASE s = r /\ ~Publishing(b) /\ ~entry[e].dirty
      <3>1. p.op \in {"lookup", "extend"} /\ entry'[d].nblocks = n /\ known'[s] = known[s]
        BY <1>1, <1>4, <1>5, <1>6, <2>3 DEF Publishing
      <3> QED BY <1>1, <1>3, <2>3, <3>1 DEF PutBounds
    <2>4. CASE s = r /\ ~Publishing(b) /\ entry[e].dirty
      <3>1. /\ p.op \in {"lookup", "extend"} /\ entry'[d].nblocks = entry[d].nblocks
            /\ known'[s] = known[s]
        BY <1>1, <1>4, <1>5, <1>6, <2>4 DEF Publishing
      <3>2. ~Locked(s)
        BY <1>1, <2>4, <3>1, Working
      <3> QED BY <2>4, <3>1, <3>2 DEF IInv, CacheBound
    <2> QED BY <2>1, <2>2, <2>3, <2>4
  <1>14. RefSound'
    BY <1>2, <1>4, <1>5 DEF IInv, TypeOK, Refs, RefSound, RefOK
  <1>15. CallSound'
    <2> SUFFICES ASSUME NEW c \in Backends
                 PROVE  CallOK(c, proc[c])'
      BY DEF CallSound
    <2>1. CASE c = b
      <3>1. q.pc # "idle" => known' = known
        BY <1>5, <1>7 DEF UpdatePut, Publishing
      <3> QED BY <1>5, <1>7, <2>1, <3>1 DEF CallOK, CallBounds
    <2>2. CASE c # b /\ proc[c].pc # "idle"
      <3> DEFINE s == proc[c].rel
      <3>1. proc'[c] = proc[c] /\ CallOK(c, proc[c]) /\ s \in Rels /\ ref[c][s] \in Refs
        BY <1>5, <2>2, Working
      <3>2. CallBounds(proc[c], s)'
        <4>1. proc[c].floor <= known'[s]
          <5>1. proc[c].floor \in Nat /\ proc[c].floor <= known[s]
            BY <2>2, Working, Blocks DEF CallBounds
          <5> QED BY <1>3, <1>6, <3>1, <5>1
        <4>2. s = r /\ p.op = "publish" => proc[c].op = "lookup"
          <5>1. proc[c].op \in {"lookup", "extend", "publish", "truncate"}
            BY <2>2, Working
          <5> QED BY <1>1, <2>2, <5>1 DEF IInv, Exclusive
        <4> QED BY <1>5, <1>6, <2>2, <3>1, <4>1, <4>2, Working DEF CallBounds
      <3>3. proc[c].pc = "put" => PutBounds(proc[c], s)'
        <4> SUFFICES ASSUME proc[c].pc = "put"
                     PROVE  PutBounds(proc[c], s)'
          OBVIOUS
        <4>1. PutBounds(proc[c], s) /\ mapping[s] # None
          BY <3>1 DEF CallOK, PutBounds
        <4>2. mapping[s] \in Entries /\ (mapping[s] = e => s = r)
          BY <1>2, <3>1, <4>1, Mapped
        <4>3. ~entry'[mapping[s]].dirty => ~entry[mapping[s]].dirty /\ known'[s] = known[s]
          BY <1>4, <1>5, <1>6, <3>1, <4>2 DEF Publishing
        <4> QED BY <1>5, <3>1, <4>1, <4>3 DEF PutBounds
      <3>4. proc[c].pc = "check" => CheckBounds(proc[c], s, ref[c][s])'
        <4> SUFFICES ASSUME proc[c].pc = "check"
                     PROVE  CheckBounds(proc[c], s, ref[c][s])'
          OBVIOUS
        <4>1. CheckBounds(proc[c], s, ref[c][s])
          BY <3>1 DEF CallOK
        <4>2. ref[c][s].sr \in Entries
          BY <3>1, <4>1 DEF CheckBounds, Refs
        <4>3. entry'[ref[c][s].sr].generation = entry[ref[c][s].sr].generation
          BY <1>4, <1>5, <4>2
        <4> QED BY <1>5, <3>1, <4>1, <4>3 DEF CheckBounds
      <3> QED BY <3>1, <3>2, <3>3, <3>4 DEF CallOK
    <2>3. CASE c # b /\ proc[c].pc = "idle"
      BY <1>5, <2>3 DEF CallOK
    <2> QED BY <2>1, <2>2, <2>3
  <1> QED BY <1>8, <1>9, <1>10, <1>11, <1>12, <1>13, <1>14, <1>15 DEF IInv

\* Mapping and entries change for the relation r only, and afterwards no size is
\* cached for r that was not before.
CacheChanged(r) ==
    /\ mapping' \in [Rels -> Entries \cup {None}] /\ entry' \in [Entries -> SharedRelations]
    /\ \A e \in Entries : entry'[e].valid => entry'[e].rnode \in Rels
    /\ MappingSound'
    /\ \A s \in Rels \ {r} : /\ mapping'[s] = mapping[s]
                             /\ mapping[s] # None => entry'[mapping[s]] = entry[mapping[s]]
    /\ \/ mapping'[r] = None
       \/ mapping'[r] # None /\ entry'[mapping'[r]].nblocks = InvalidBlockNumber
       \/ mapping'[r] = mapping[r] /\ entry'[mapping[r]] = entry[mapping[r]]
    /\ \A e \in Entries : entry[e].generation <= entry'[e].generation
    /\ \A my \in Refs, s \in Rels : RefOK(my, s) => RefOK(my, s)'

\* An entry is taken away from r, with a new generation or without a size.
LEMMA Unmapped ==
    ASSUME IInv, NEW r \in Rels, NEW e \in Entries, mapping[r] = e,
           NEW sr \in SharedRelations, ~sr.valid,
           \/ sr.generation = entry[e].generation + 1
           \/ sr.generation = entry[e].generation /\ sr.nblocks = InvalidBlockNumber,
           mapping' = [mapping EXCEPT ![r] = None], entry' = [entry EXCEPT ![e] = sr]
    PROVE  CacheChanged(r)
  <1>1. mapping \in [Rels -> Entries \cup {None}] /\ entry \in [Entries -> SharedRelations]
    BY DEF IInv, TypeOK
  <1>2. /\ mapping'[r] = None /\ \A s \in Rels \ {r} : mapping'[s] = mapping[s]
        /\ entry'[e] = sr /\ \A d \in Entries \ {e} : entry'[d] = entry[d]
    BY <1>1
  <1>3. \A s \in Rels \ {r} : mapping[s] # e
    BY Mapped, NoneAssumption
  <1>4. mapping' \in [Rels -> Entries \cup {None}] /\ entry' \in [Entries -> SharedRelations]
    BY <1>1
  <1>5. \A d \in Entries : entry'[d].valid => entry'[d].rnode \in Rels
    BY <1>2 DEF IInv, Shape
  <1>6. MappingSound'
    BY <1>2, <1>3, NoneAssumption DEF IInv, MappingSound
  <1>7. \A s \in Rels \ {r} : mapping[s] # None => entry'[mapping[s]] = entry[mapping[s]]
    BY <1>1, <1>2, <1>3
  <1>8. \A d \in Entries : entry[d].generation \in Nat /\ entry[d].generation <= entry'[d].generation
    BY <1>1, <1>2 DEF SharedRelations
  <1>9. ASSUME NEW my \in Refs, NEW s \in Rels, RefOK(my, s)
        PROVE  RefOK(my, s)'
    <2>1. CASE my.sr = None
      BY <2>1 DEF RefOK
    <2>2. CASE my.sr = e
      BY <1>2, <1>8, <1>9, <2>2, NoneAssumption DEF RefOK, Refs
    <2>3. CASE my.sr \in Entries \ {e}
      BY <1>2, <1>9, <2>3 DEF RefOK
    <2> QED BY <2>1, <2>2, <2>3 DEF Refs
  <1> QED BY <1>2, <1>4, <1>5, <1>6, <1>7, <1>8, <1>9 DEF CacheChanged

\* Generations only grow: one that a pointer agrees with now was the same before.
LEMMA SameGeneration ==
    ASSUME IInv, NEW r \in Rels, CacheChanged(r), NEW c \in Backends, NEW s \in Rels,
           ref[c][s].sr # None, entry'[ref[c][s].sr].generation = ref[c][s].generation
    PROVE  entry[ref[c][s].sr].generation = ref[c][s].generation
  <1> DEFINE my == ref[c][s]
             g == entry[my.sr].generation
  <1>1. my.sr \in Entries /\ my.generation \in Nat /\ g \in Nat
    BY DEF IInv, TypeOK, Refs, SharedRelations
  <1>2. my.generation <= g /\ g <= entry'[my.sr].generation
    BY <1>1 DEF IInv, RefSound, RefOK, CacheChanged
  <1>3. my.generation <= g /\ g <= my.generation
    BY <1>2
  <1> HIDE DEF my, g
  <1>4. g = my.generation
    BY <1>1, <1>3
  <1> QED BY <1>4 DEF my, g

\* Somebody's partition lock keeps the entry of his relation as it is; others
\* find their bounds as before.
LEMMA CacheStep ==
    ASSUME IInv, NEW r \in Rels, CacheChanged(r), ~Shared(r),
           NEW b \in Backends, NEW q \in Procs,
           proc' = [proc EXCEPT ![b] = q],
           UNCHANGED <<primary, file, known, ref>>,
           ProcShape(q), q.pc \in {"upd", "alloc", "enter"}, q.rel = proc[b].rel, q.op = proc[b].op,
           CallBounds(q, q.rel)
    PROVE  IInv'
  <1>1. /\ proc'[b] = q
        /\ \A c \in Backends \ {b} : proc'[c] = proc[c]
    BY DEF IInv, TypeOK
  <1>2. TypeOK'
    BY <1>1 DEF IInv, TypeOK, CacheChanged
  <1>3. Shape'
    BY <1>1 DEF IInv, Shape, ProcShape, CacheChanged
  <1>4. Exclusive'
    BY <1>1 DEF IInv, Exclusive
  <1>5. KnownInFile'
    BY DEF IInv, KnownInFile
  <1>6. CacheBound'
    <2> SUFFICES ASSUME NEW s \in Rels, NEW e \in Entries, mapping'[s] = e, ~Locked(s)',
                        entry'[e].nblocks # InvalidBlockNumber
                 PROVE  entry'[e].nblocks <= file[s] /\ (primary => known[s] <= entry'[e].nblocks)
      BY DEF CacheBound
    <2>1. mapping[s] = e /\ entry'[e] = entry[e]
      BY NoneAssumption DEF CacheChanged
    <2>2. ~Locked(s)
      BY <1>1 DEF Locked
    <2> QED BY <2>1, <2>2 DEF IInv, CacheBound
  <1>7. RefSound'
    <2>1. \A c \in Backends, s \in Rels : ref[c][s] \in Refs
      BY DEF IInv, TypeOK
    <2> QED BY <2>1 DEF IInv, RefSound, RefOK, CacheChanged
  <1>8. CallSound'
    <2> SUFFICES ASSUME NEW c \in Backends
                 PROVE  CallOK(c, proc[c])'
      BY DEF CallSound
    <2>1. CASE c = b
      BY <1>1, <2>1 DEF CallOK, CallBounds
    <2>2. CASE c # b /\ proc[c].pc # "idle"
      <3> DEFINE s == proc[c].rel
                 my == ref[c][s]
      <3>1. proc'[c] = proc[c] /\ CallOK(c, proc[c]) /\ s \in Rels /\ my \in Refs
        BY <1>1, <2>2, Working
      <3>2. CallBounds(proc[c], s)'
        BY <1>1, <2>2, <3>1 DEF CallOK, CallBounds
      <3>3. proc[c].pc = "put" => PutBounds(proc[c], s)'
        <4>1. proc[c].pc = "put" => s # r
          BY DEF Shared
        <4> QED BY <3>1, <4>1 DEF CallOK, PutBounds, CacheChanged
      <3>4. proc[c].pc = "check" => CheckBounds(proc[c], s, my)'
        BY <3>1, SameGeneration DEF CallOK, CheckBounds
      <3> QED BY <3>1, <3>2, <3>3, <3>4 DEF CallOK
    <2>3. CASE c # b /\ proc[c].pc = "idle"
      BY <1>1, <2>3 DEF CallOK
    <2> QED BY <2>1, <2>2, <2>3
  <1> QED BY <1>2, <1>3, <1>4, <1>5, <1>6, <1>7, <1>8 DEF IInv, CacheChanged

LEMMA AllocEvictIInv ==
    ASSUME IInv, NEW b \in Backends, AllocEvict(b)
    PROVE  IInv'
  <1> DEFINE p == proc[b]
             e == p.sr
             victim == p.victim
             again == [p EXCEPT !.pc = "alloc", !.sr = None, !.victim = None]
             enter == [p EXCEPT !.pc = "enter", !.victim = None]
  <1>1. /\ p.pc = "evict" /\ e \in Entries /\ victim \in Rels /\ entry[e] \in SharedRelations
        /\ ~Shared(victim)
    BY Working DEF AllocEvict, ProcShape, IInv, TypeOK
  <1>2. CASE mapping[victim] # e
    <2>1. proc' = [proc EXCEPT ![b] = again] /\ UNCHANGED <<mapping, entry>>
      BY <1>2 DEF AllocEvict
    <2>2. /\ again \in Procs /\ again.pc = "alloc" /\ again.rel = p.rel /\ again.op = p.op
          /\ again.floor = p.floor /\ again.n = p.n
      BY <1>1, Working DEF Procs, PCs
    <2>3. ProcShape(again) /\ CallOK(b, again)
      BY <1>1, <2>2, Working DEF ProcShape, Updating, CallOK, CallBounds
    <2>4. \A c \in Backends \ {b} : Compatible(again, proc[c])
      BY <2>2, SameCall
    <2> HIDE DEF again
    <2> QED BY <2>1, <2>2, <2>3, <2>4, LocalStep DEF AllocEvict
  <1>3. CASE mapping[victim] = e
    <2> DEFINE sr == [entry[e] EXCEPT !.valid = FALSE, !.generation = entry[e].generation + 1]
    <2>1. /\ proc' = [proc EXCEPT ![b] = enter]
          /\ mapping' = [mapping EXCEPT ![victim] = None] /\ entry' = [entry EXCEPT ![e] = sr]
      BY <1>3 DEF AllocEvict
    <2>2. sr \in SharedRelations /\ ~sr.valid /\ sr.generation = entry[e].generation + 1
      <3>1. entry[e].generation + 1 \in Nat /\ FALSE \in BOOLEAN
        BY <1>1 DEF SharedRelations
      <3>2. sr \in SharedRelations
        BY <1>1, <3>1 DEF SharedRelations
      <3>3. ~sr.valid
        BY <1>1, Zenon DEF SharedRelations
      <3>4. sr.generation = entry[e].generation + 1
        BY <1>1 DEF SharedRelations
      <3> QED BY <3>2, <3>3, <3>4
    <2> HIDE DEF sr
    <2>3. CacheChanged(victim)
      BY <1>1, <1>3, <2>1, <2>2, Unmapped
    <2>4. /\ enter \in Procs /\ enter.pc = "enter" /\ enter.rel = p.rel /\ enter.op = p.op
          /\ enter.floor = p.floor /\ enter.n = p.n /\ enter.sr = e
      BY <1>1, Working DEF Procs, PCs
    <2>5. ProcShape(enter) /\ CallBounds(enter, enter.rel)
      BY <1>1, <2>4, Working DEF ProcShape, Updating, CallBounds
    <2> HIDE DEF enter
    <2> QED BY <1>1, <2>1, <2>3, <2>4, <2>5, CacheStep DEF AllocEvict
  <1> QED BY <1>2, <1>3

LEMMA UpdateEnterIInv ==
    ASSUME IInv, NEW b \in Backends, UpdateEnter(b)
    PROVE  IInv'
  <1> DEFINE p == proc[b]
             r == p.rel
             e == p.sr
             again == [p EXCEPT !.pc = "alloc", !.sr = None]
             upd == [p EXCEPT !.pc = "upd", !.sr = None]
  <1>1. /\ p.pc = "enter" /\ e \in Entries /\ r \in Rels /\ entry[e] \in SharedRelations /\ ~Shared(r)
        /\ mapping \in [Rels -> Entries \cup {None}] /\ entry \in [Entries -> SharedRelations]
    BY Working DEF UpdateEnter, ProcShape, IInv, TypeOK
  <1>2. CASE entry[e].valid
    <2>1. proc' = [proc EXCEPT ![b] = again] /\ UNCHANGED <<mapping, entry>>
      BY <1>2 DEF UpdateEnter
    <2>2. /\ again \in Procs /\ again.pc = "alloc" /\ again.rel = p.rel /\ again.op = p.op
          /\ again.floor = p.floor /\ again.n = p.n
      BY <1>1, Working DEF Procs, PCs
    <2>3. ProcShape(again) /\ CallOK(b, again)
      BY <1>1, <2>2, Working DEF ProcShape, Updating, CallOK, CallBounds
    <2>4. \A c \in Backends \ {b} : Compatible(again, proc[c])
      BY <2>2, SameCall
    <2> HIDE DEF again
    <2> QED BY <2>1, <2>2, <2>3, <2>4, LocalStep DEF UpdateEnter
  <1>3. CASE ~entry[e].valid
    <2>1. proc' = [proc EXCEPT ![b] = upd]
      BY <1>3 DEF UpdateEnter
    <2>2. /\ upd \in Procs /\ upd.pc = "upd" /\ upd.rel = p.rel /\ upd.op = p.op
          /\ upd.floor = p.floor /\ upd.n = p.n
      BY <1>1, Working DEF Procs, PCs
    <2>3. ProcShape(upd) /\ CallBounds(upd, upd.rel)
      BY <1>1, <2>2, Working DEF ProcShape, Updating, CallBounds
    <2> HIDE DEF upd
    <2>4. \A s \in Rels : mapping[s] # e
      BY <1>1, <1>3, Mapped, NoneAssumption
    <2>5. CASE mapping[r] # None
      <3> DEFINE sr == [entry[e] EXCEPT !.dirty = FALSE]
      <3>1. entry' = [entry EXCEPT ![e] = sr] /\ mapping' = mapping
        BY <1>1, <1>3, <2>5 DEF UpdateEnter
      <3>2. /\ sr \in SharedRelations /\ sr.valid = entry[e].valid /\ sr.rnode = entry[e].rnode
            /\ sr.generation = entry[e].generation /\ sr.nblocks = entry[e].nblocks
        BY <1>1 DEF SharedRelations
      <3> HIDE DEF sr
      <3>3. entry'[e] = sr /\ \A d \in Entries \ {e} : entry'[d] = entry[d]
        BY <1>1, <3>1
      <3>4. \A s \in Rels : mapping[s] # None => entry'[mapping[s]] = entry[mapping[s]]
        BY <1>1, <2>4, <3>3
      <3>5. entry' \in [Entries -> SharedRelations]
        BY <1>1, <3>1, <3>2
      <3>6. \A d \in Entries : entry'[d].valid => entry'[d].rnode \in Rels
        BY <1>3, <3>2, <3>3 DEF IInv, Shape
      <3>7. MappingSound'
        BY <3>1, <3>2, <3>3 DEF IInv, MappingSound
      <3>8. \A d \in Entries : entry[d].generation <= entry'[d].generation
        BY <1>1, <3>2, <3>3 DEF SharedRelations
      <3>9. \A my \in Refs, s \in Rels : RefOK(my, s) => RefOK(my, s)'
        BY <3>1, <3>2, <3>3 DEF RefOK, Refs
      <3>10. CacheChanged(r)
        BY <1>1, <2>5, <3>1, <3>4, <3>5, <3>6, <3>7, <3>8, <3>9 DEF CacheChanged
      <3> QED BY <1>1, <2>1, <2>2, <2>3, <3>10, CacheStep DEF UpdateEnter
    <2>6. CASE mapping[r] = None
      <3> DEFINE sr == [valid |-> TRUE, dirty |-> FALSE, rnode |-> r,
                        generation |-> entry[e].generation + 1, nblocks |-> InvalidBlockNumber]
      <3>1. entry' = [entry EXCEPT ![e] = sr] /\ mapping' = [mapping EXCEPT ![r] = e]
        BY <1>1, <1>3, <2>6 DEF UpdateEnter
      <3>2. entry[e].generation \in Nat
        BY <1>1 DEF SharedRelations
      <3>3. /\ sr \in SharedRelations /\ sr.rnode = r
            /\ sr.generation = entry[e].generation + 1 /\ sr.nblocks = InvalidBlockNumber
        BY <1>1, <3>2, Blocks DEF SharedRelations
      <3>4. sr.valid
        OBVIOUS
      <3> HIDE DEF sr
      <3>5. /\ entry'[e] = sr /\ \A d \in Entries \ {e} : entry'[d] = entry[d]
            /\ mapping'[r] = e /\ \A s \in Rels \ {r} : mapping'[s] = mapping[s]
        BY <1>1, <3>1
      <3>6. \A s \in Rels \ {r} : mapping[s] # None => entry'[mapping[s]] = entry[mapping[s]]
        BY <1>1, <2>4, <3>5
      <3>7. entry' \in [Entries -> SharedRelations] /\ mapping' \in [Rels -> Entries \cup {None}]
        BY <1>1, <3>1, <3>3
      <3>8. \A d \in Entries : entry'[d].valid => entry'[d].rnode \in Rels
        BY <1>1, <3>3, <3>5 DEF IInv, Shape
      <3>9. MappingSound'
        BY <1>1, <2>4, <2>6, <3>3, <3>4, <3>5, NoneAssumption DEF IInv, MappingSound
      <3>10. \A d \in Entries : entry[d].generation <= entry'[d].generation
        BY <1>1, <3>2, <3>3, <3>5 DEF SharedRelations
      <3>11. ASSUME NEW my \in Refs, NEW s \in Rels, RefOK(my, s)
             PROVE  RefOK(my, s)'
        <4>1. CASE my.sr = None
          BY <4>1 DEF RefOK
        <4>2. CASE my.sr = e
          BY <3>2, <3>3, <3>5, <3>11, <4>2, NoneAssumption DEF RefOK, Refs
        <4>3. CASE my.sr \in Entries \ {e}
          BY <2>6, <3>5, <3>11, <4>3, NoneAssumption DEF RefOK
        <4> QED BY <4>1, <4>2, <4>3 DEF Refs
      <3>12. mapping'[r] # None /\ entry'[mapping'[r]].nblocks = InvalidBlockNumber
        BY <1>1, <3>3, <3>5, NoneAssumption
      <3>13. CacheChanged(r)
        BY <3>5, <3>6, <3>7, <3>8, <3>9, <3>10, <3>11, <3>12 DEF CacheChanged
      <3> QED BY <1>1, <2>1, <2>2, <2>3, <3>13, CacheStep DEF UpdateEnter
    <2> QED BY <2>5, <2>6
  <1> QED BY <1>2, <1>3

LEMMA DropEntryChange ==
    ASSUME IInv, NEW r \in Rels, DropEntry(r)
    PROVE  CacheChanged(r) /\ mapping'[r] = None
  <1>1. CASE mapping[r] = None
    <2>1. UNCHANGED <<mapping, entry>>
      BY <1>1 DEF DropEntry
    <2>2. \A e \in Entries : entry[e].generation \in Nat
      BY DEF IInv, TypeOK, SharedRelations
    <2> QED BY <1>1, <2>1, <2>2 DEF CacheChanged, IInv, TypeOK, Shape, MappingSound, RefOK
  <1>2. CASE mapping[r] # None
    <2> DEFINE e == mapping[r]
               sr == [entry[e] EXCEPT !.valid = FALSE, !.nblocks = InvalidBlockNumber]
    <2>1. entry' = [entry EXCEPT ![e] = sr] /\ mapping' = [mapping EXCEPT ![r] = None]
      BY <1>2 DEF DropEntry
    <2>2. e \in Entries /\ entry[e] \in SharedRelations
      BY <1>2, Mapped
    <2>3. ~sr.valid
      BY <2>2, Zenon DEF SharedRelations
    <2>4. /\ sr \in SharedRelations
          /\ sr.generation = entry[e].generation /\ sr.nblocks = InvalidBlockNumber
      BY <2>2, Blocks DEF SharedRelations
    <2> HIDE DEF sr
    <2>5. mapping'[r] = None
      BY <2>1 DEF IInv, TypeOK
    <2> QED BY <2>1, <2>2, <2>3, <2>4, <2>5, Unmapped
  <1> QED BY <1>1, <1>2

(***************************************************************************)
(* Steps that change files.                                                *)
(***************************************************************************)

\* Files grow, but not one that is being truncated; the calls that move on are
\* within their bounds.
LEMMA FileGrows ==
    ASSUME IInv, TypeOK', Exclusive',
           UNCHANGED <<primary, known, mapping, entry, ref>>,
           \A s \in Rels : file[s] <= file'[s],
           \A c \in Backends :
              \/ /\ proc'[c] = proc[c]
                 /\ proc[c].op = "truncate" => file'[proc[c].rel] = file[proc[c].rel]
              \/ /\ ProcShape(proc[c])' /\ CallOK(c, proc[c])'
                 /\ proc[c].op # "truncate" /\ proc'[c].op # "truncate"
    PROVE  IInv'
  <1>1. \A s \in Rels : file[s] \in Nat /\ file'[s] \in Nat /\ known[s] \in Nat
    BY Blocks DEF IInv, TypeOK
  <1>2. Shape'
    BY DEF IInv, Shape, ProcShape
  <1>3. KnownInFile'
    BY <1>1 DEF IInv, KnownInFile
  <1>4. MappingSound' /\ RefSound'
    BY DEF IInv, MappingSound, RefSound, RefOK
  <1>5. CacheBound'
    <2> SUFFICES ASSUME NEW s \in Rels, NEW e \in Entries, mapping[s] = e, ~Locked(s)',
                        entry[e].nblocks # InvalidBlockNumber
                 PROVE  entry[e].nblocks <= file'[s] /\ (primary => known[s] <= entry[e].nblocks)
      BY DEF CacheBound
    <2>1. ~Locked(s)
      BY DEF Locked
    <2>2. entry[e].nblocks \in Nat
      BY Blocks DEF IInv, TypeOK, SharedRelations
    <2>3. entry[e].nblocks <= file[s] /\ (primary => known[s] <= entry[e].nblocks)
      BY <2>1 DEF IInv, CacheBound
    <2> QED BY <1>1, <2>2, <2>3
  <1>6. CallSound'
    <2> SUFFICES ASSUME NEW c \in Backends, proc'[c] = proc[c], proc[c].pc # "idle",
                        proc[c].op = "truncate" => file'[proc[c].rel] = file[proc[c].rel]
                 PROVE  CallOK(c, proc[c])'
      BY DEF CallSound, CallOK
    <2>1. CallOK(c, proc[c]) /\ proc[c].rel \in Rels /\ proc[c].n \in Nat
      BY Working, Blocks
    <2>2. /\ file[proc[c].rel] <= file'[proc[c].rel]
          /\ file[proc[c].rel] \in Nat /\ file'[proc[c].rel] \in Nat
      BY <1>1, <2>1
    <2>3. \A n \in Nat : n <= file[proc[c].rel] => n <= file'[proc[c].rel]
      BY <2>2
    <2>4. CallBounds(proc[c], proc[c].rel)'
      BY <2>1, <2>3, Working DEF CallBounds
    <2>5. proc[c].pc = "put" => PutBounds(proc[c], proc[c].rel)'
      BY <2>1, <2>3 DEF CallOK, PutBounds
    <2>6. proc[c].pc = "check" => CheckBounds(proc[c], proc[c].rel, ref[c][proc[c].rel])'
      BY <2>1, <2>3 DEF CallOK, CheckBounds
    <2> QED BY <2>4, <2>5, <2>6 DEF CallOK
  <1> QED BY <1>2, <1>3, <1>4, <1>5, <1>6 DEF IInv

LEMMA PrimaryExtendsIInv ==
    ASSUME IInv, NEW r \in Rels, PrimaryExtends(r)
    PROVE  IInv'
  <1>1. file[r] \in 0 .. MaxBlocks /\ file \in [Rels -> 0 .. MaxBlocks]
    BY DEF IInv, TypeOK
  <1>2. /\ file' \in [Rels -> 0 .. MaxBlocks]
        /\ \A s \in Rels : file[s] <= file'[s]
    BY <1>1, BlocksAssumption DEF PrimaryExtends
  <1>3. TypeOK' /\ Exclusive'
    BY <1>2 DEF PrimaryExtends, IInv, TypeOK, Exclusive
  <1>4. \A c \in Backends : proc[c].op # "truncate"
    BY DEF PrimaryExtends, IInv, Shape, ProcShape
  <1> QED BY <1>2, <1>3, <1>4, FileGrows DEF PrimaryExtends

\* An extension is within the file as it is afterwards.
LEMMA ExtendIInv ==
    ASSUME IInv, NEW b \in Backends, Extend(b)
    PROVE  IInv'
  <1> DEFINE p == proc[b]
             r == p.rel
             q(n) == [p EXCEPT !.pc = "upd", !.op = "publish", !.n = n]
  <1>1. /\ p.pc = "write" /\ p.op = "extend" /\ r \in Rels /\ primary
        /\ p.floor = known[r] /\ p.floor <= p.n
        /\ known[r] \in Nat /\ p.n \in Nat /\ file[r] \in Nat
    <2>1. p.pc = "write" /\ p.op = "extend" /\ r \in Rels /\ primary /\ CallBounds(p, r)
      BY Working DEF Extend, ProcShape
    <2> QED BY <2>1, Working, Blocks DEF CallBounds
  <1>2. PICK n \in (p.n + 1) .. MaxBlocks :
          file' = [file EXCEPT ![r] = MaxOf(file[r], n)] /\ proc' = [proc EXCEPT ![b] = q(n)]
    BY DEF Extend
  <1>3. n \in Nat /\ n \in 0 .. MaxBlocks /\ known[r] <= n
    BY <1>1, <1>2, BlocksAssumption
  <1>4. /\ file' \in [Rels -> 0 .. MaxBlocks] /\ n <= file'[r]
        /\ \A s \in Rels : file[s] <= file'[s] /\ (s # r => file'[s] = file[s])
    <2>1. file \in [Rels -> 0 .. MaxBlocks]
      BY DEF IInv, TypeOK
    <2>2. MaxOf(file[r], n) \in 0 .. MaxBlocks /\ n <= MaxOf(file[r], n) /\ file[r] <= MaxOf(file[r], n)
      BY <1>1, <1>3, <2>1 DEF MaxOf
    <2>3. \A s \in Rels : file[s] \in Nat
      BY <2>1, Blocks
    <2> QED BY <1>1, <1>2, <2>1, <2>2, <2>3
  <1>5. /\ q(n) \in Procs /\ q(n).pc = "upd" /\ q(n).op = "publish" /\ q(n).n = n
        /\ q(n).rel = r /\ q(n).floor = known[r]
    <2>1. p \in Procs /\ n \in NBlocks
      BY <1>1, <1>3, Working, Blocks
    <2> QED BY <1>1, <2>1 DEF Procs, PCs, Ops
  <1> HIDE DEF q
  <1>6. proc'[b] = q(n) /\ \A c \in Backends \ {b} : proc'[c] = proc[c]
    BY <1>2 DEF IInv, TypeOK
  <1>7. TypeOK'
    BY <1>4, <1>2, <1>5, <1>6 DEF IInv, TypeOK, Extend
  <1>8. Exclusive'
    BY <1>1, <1>5, <1>6 DEF IInv, Exclusive
  <1>9. \A c \in Backends \ {b} : proc[c].op = "truncate" => file'[proc[c].rel] = file[proc[c].rel]
    <2> SUFFICES ASSUME NEW c \in Backends \ {b}, proc[c].op = "truncate"
                 PROVE  file'[proc[c].rel] = file[proc[c].rel]
      OBVIOUS
    <2>1. proc[c].pc # "idle"
      BY IdleProc DEF IInv, Shape, ProcShape
    <2>2. proc[c].rel \in Rels /\ proc[c].rel # r
      BY <1>1, <2>1, Working DEF IInv, Exclusive
    <2> QED BY <1>4, <2>2
  <1>10. ProcShape(proc[b])' /\ CallOK(b, proc[b])'
    <2>1. ProcShape(p) /\ CallOK(b, p)
      BY <1>1, Working
    <2>2. ProcShape(q(n))
      BY <1>1, <1>3, <1>5, <2>1 DEF ProcShape, Updating
    <2>3. known' = known /\ primary' = primary
      BY DEF Extend
    <2>4. ProcShape(proc[b])'
      BY <1>1, <1>6, <2>2, <2>3 DEF ProcShape
    <2> QED BY <1>1, <1>3, <1>4, <1>5, <1>6, <2>3, <2>4 DEF CallOK, CallBounds
  <1> QED BY <1>1, <1>4, <1>5, <1>6, <1>7, <1>8, <1>9, <1>10, FileGrows DEF Extend

\* A failing extension leaves the file grown and nothing else.
LEMMA ExtendFailsIInv ==
    ASSUME IInv, NEW b \in Backends, ExtendFails(b)
    PROVE  IInv'
  <1> DEFINE p == proc[b]
             r == p.rel
  <1>1. p.pc = "write" /\ p.op = "extend" /\ r \in Rels /\ p.n \in Nat /\ file[r] \in Nat
    BY Working, Blocks DEF ExtendFails, ProcShape
  <1>2. PICK n \in p.n .. MaxBlocks : file' = [file EXCEPT ![r] = MaxOf(file[r], n)]
    BY DEF ExtendFails
  <1>3. /\ file' \in [Rels -> 0 .. MaxBlocks]
        /\ \A s \in Rels : file[s] <= file'[s] /\ (s # r => file'[s] = file[s])
    <2>1. file \in [Rels -> 0 .. MaxBlocks]
      BY DEF IInv, TypeOK
    <2>2. MaxOf(file[r], n) \in 0 .. MaxBlocks /\ file[r] <= MaxOf(file[r], n)
      BY <1>1, <1>2, <2>1, BlocksAssumption DEF MaxOf
    <2>3. \A s \in Rels : file[s] \in Nat
      BY <2>1, Blocks
    <2> QED BY <1>1, <1>2, <2>1, <2>2, <2>3
  <1>4. proc'[b] = Idle /\ \A c \in Backends \ {b} : proc'[c] = proc[c]
    BY DEF ExtendFails, IInv, TypeOK
  <1>5. TypeOK'
    BY <1>3, <1>4, IdleProc DEF IInv, TypeOK, ExtendFails
  <1>6. Exclusive'
    BY <1>4, IdleProc, NoneAssumption DEF IInv, Exclusive
  <1>7. \A c \in Backends \ {b} : proc[c].op = "truncate" => file'[proc[c].rel] = file[proc[c].rel]
    <2> SUFFICES ASSUME NEW c \in Backends \ {b}, proc[c].op = "truncate"
                 PROVE  file'[proc[c].rel] = file[proc[c].rel]
      OBVIOUS
    <2>1. proc[c].pc # "idle"
      BY IdleProc DEF IInv, Shape, ProcShape
    <2>2. proc[c].rel \in Rels /\ proc[c].rel # r
      BY <1>1, <2>1, Working DEF IInv, Exclusive
    <2> QED BY <1>3, <2>2
  <1>8. ProcShape(proc[b])' /\ CallOK(b, proc[b])'
    BY <1>4, IdleProc DEF ProcShape, CallOK, Updating
  <1>9. Idle.op # "truncate"
    BY IdleProc
  <1> QED BY <1>1, <1>3, <1>4, <1>5, <1>6, <1>7, <1>8, <1>9, FileGrows DEF ExtendFails

LEMMA TruncateIInv ==
    ASSUME IInv, NEW b \in Backends, NEW r \in Rels, Truncate(b, r)
    PROVE  IInv'
  <1> DEFINE q(n) == [Idle EXCEPT !.pc = "upd", !.op = "truncate", !.rel = r, !.n = n]
  <1>1. PICK n \in 0 .. file[r] :
          /\ file' = [file EXCEPT ![r] = n]
          /\ known' = [known EXCEPT ![r] = IF known[r] > n THEN n ELSE known[r]]
          /\ proc' = [proc EXCEPT ![b] = q(n)]
    BY DEF Truncate
  <1>2. /\ primary /\ proc[b] = Idle /\ \A c \in Backends : proc[c].rel # r
        /\ UNCHANGED <<primary, mapping, entry>>
        /\ ref' = [c \in Backends |-> [ref[c] EXCEPT ![r] = NoRef]]
    BY DEF Truncate, Busy, CacheInvalidateSmgr
  <1>3. /\ file \in [Rels -> 0 .. MaxBlocks] /\ known \in [Rels -> 0 .. MaxBlocks]
        /\ n \in 0 .. MaxBlocks /\ n \in Nat /\ known[r] \in Nat
    <2>1. file \in [Rels -> 0 .. MaxBlocks] /\ known \in [Rels -> 0 .. MaxBlocks]
      BY DEF IInv, TypeOK
    <2> QED BY <1>1, <2>1, BlocksAssumption
  <1>4. /\ file'[r] = n /\ known'[r] <= n
        /\ \A s \in Rels \ {r} : file'[s] = file[s] /\ known'[s] = known[s]
        /\ file' \in [Rels -> 0 .. MaxBlocks] /\ known' \in [Rels -> 0 .. MaxBlocks]
    BY <1>1, <1>3
  <1>5. /\ q(n) \in Procs /\ q(n).pc = "upd" /\ q(n).op = "truncate" /\ q(n).rel = r
        /\ q(n).n = n /\ q(n).floor = 0
    BY <1>3, IdleProc, Blocks DEF Idle, Procs, PCs, Ops
  <1> HIDE DEF q
  <1>6. proc'[b] = q(n) /\ \A c \in Backends \ {b} : proc'[c] = proc[c]
    BY <1>1 DEF IInv, TypeOK
  <1>7. /\ ref' \in [Backends -> [Rels -> Refs]]
        /\ \A c \in Backends : /\ ref'[c][r] = NoRef
                               /\ \A s \in Rels \ {r} : ref'[c][s] = ref[c][s]
    <2>1. NoRef \in Refs
      BY DEF NoRef, Refs
    <2> QED BY <1>2, <2>1 DEF IInv, TypeOK
  <1>8. TypeOK'
    BY <1>1, <1>2, <1>4, <1>5, <1>6, <1>7 DEF IInv, TypeOK
  <1>9. Shape'
    BY <1>2, <1>5, <1>6 DEF IInv, Shape, ProcShape, Updating
  <1>10. Exclusive'
    BY <1>2, <1>5, <1>6 DEF IInv, Exclusive
  <1>11. KnownInFile'
    BY <1>4 DEF IInv, KnownInFile
  <1>12. MappingSound'
    BY <1>2 DEF IInv, MappingSound
  <1>13. CacheBound'
    <2>1. Locked(r)'
      BY <1>5, <1>6 DEF Locked
    <2>2. \A s \in Rels \ {r} : Locked(s) => Locked(s)'
      BY <1>2, <1>6, IdleProc DEF Locked
    <2> QED BY <1>2, <1>4, <2>1, <2>2 DEF IInv, CacheBound
  <1>14. RefSound'
    BY <1>2, <1>7 DEF IInv, RefSound, RefOK, NoRef
  <1>15. CallSound'
    <2> SUFFICES ASSUME NEW c \in Backends
                 PROVE  CallOK(c, proc[c])'
      BY DEF CallSound
    <2>1. CASE c = b
      <3>1. 0 <= known'[r]
        BY <1>4, Blocks
      <3> QED BY <1>4, <1>5, <1>6, <2>1, <3>1 DEF CallOK, CallBounds
    <2>2. CASE c # b /\ proc[c].pc # "idle"
      <3>1. proc[c].rel \in Rels \ {r} /\ CallOK(c, proc[c]) /\ proc'[c] = proc[c]
        BY <1>2, <1>6, <2>2, Working
      <3> QED BY <1>2, <1>4, <1>7, <3>1 DEF CallOK, CallBounds, PutBounds, CheckBounds
    <2>3. CASE c # b /\ proc[c].pc = "idle"
      BY <1>6, <2>3 DEF CallOK
    <2> QED BY <2>1, <2>2, <2>3
  <1> QED BY <1>8, <1>9, <1>10, <1>11, <1>12, <1>13, <1>14, <1>15 DEF IInv

\* The file of a relation that nobody uses, and that leaves the cache, may change.
LEMMA QuietRelation ==
    ASSUME IInv, NEW r \in Rels, ~Busy(r), CacheChanged(r), mapping'[r] = None,
           UNCHANGED <<primary, proc>>,
           file' \in [Rels -> 0 .. MaxBlocks], known' \in [Rels -> 0 .. MaxBlocks],
           known'[r] <= file'[r],
           \A s \in Rels \ {r} : file'[s] = file[s] /\ known'[s] = known[s],
           ref' \in [Backends -> [Rels -> Refs]],
           \A c \in Backends, s \in Rels : ref'[c][s] = ref[c][s] \/ (s = r /\ ref'[c][s] = NoRef)
    PROVE  IInv'
  <1>1. \A c \in Backends : proc[c].rel # r
    BY DEF Busy
  <1>2. TypeOK'
    BY DEF IInv, TypeOK, CacheChanged
  <1>3. Shape' /\ Exclusive'
    BY DEF IInv, Shape, ProcShape, Exclusive, CacheChanged
  <1>4. KnownInFile'
    BY DEF IInv, KnownInFile
  <1>5. CacheBound'
    BY NoneAssumption DEF IInv, CacheBound, CacheChanged, Locked
  <1>6. RefSound'
    <2> SUFFICES ASSUME NEW c \in Backends, NEW s \in Rels
                 PROVE  RefOK(ref[c][s], s)'
      BY DEF RefSound
    <2>1. CASE ref'[c][s] = ref[c][s]
      <3>1. RefOK(ref[c][s], s) /\ ref[c][s] \in Refs
        BY DEF IInv, TypeOK, RefSound
      <3>2. \A my \in Refs : RefOK(my, s) => RefOK(my, s)'
        BY DEF CacheChanged
      <3> QED BY <2>1, <3>1, <3>2 DEF RefOK
    <2>2. CASE ref'[c][s] = NoRef
      BY <2>2 DEF RefOK, NoRef
    <2> QED BY <2>1, <2>2
  <1>7. CallSound'
    <2> SUFFICES ASSUME NEW c \in Backends, proc[c].pc # "idle"
                 PROVE  CallOK(c, proc[c])'
      BY DEF CallSound, CallOK
    <2> DEFINE s == proc[c].rel
               my == ref[c][s]
    <2>1. /\ s \in Rels \ {r} /\ CallOK(c, proc[c]) /\ my \in Refs /\ ref'[c][s] = my
          /\ file'[s] = file[s] /\ known'[s] = known[s]
      BY <1>1, Working
    <2>2. CallBounds(proc[c], s)'
      BY <2>1 DEF CallOK, CallBounds
    <2>3. proc[c].pc = "put" => PutBounds(proc[c], s)'
      BY <2>1 DEF CallOK, PutBounds, CacheChanged
    <2>4. proc[c].pc = "check" => CheckBounds(proc[c], s, my)'
      BY <2>1, SameGeneration DEF CallOK, CheckBounds
    <2> QED BY <2>1, <2>2, <2>3, <2>4 DEF CallOK
  <1> QED BY <1>2, <1>3, <1>4, <1>5, <1>6, <1>7 DEF IInv, CacheChanged

LEMMA UnlinkIInv ==
    ASSUME IInv, NEW r \in Rels, Unlink(r)
    PROVE  IInv'
  <1>1. CacheChanged(r) /\ mapping'[r] = None
    BY DropEntryChange DEF Unlink
  <1>2. /\ file' \in [Rels -> 0 .. MaxBlocks] /\ known' \in [Rels -> 0 .. MaxBlocks]
        /\ known'[r] <= file'[r]
        /\ \A s \in Rels \ {r} : file'[s] = file[s] /\ known'[s] = known[s]
    BY Blocks DEF Unlink, IInv, TypeOK
  <1>3. /\ ref' \in [Backends -> [Rels -> Refs]]
        /\ \A c \in Backends, s \in Rels : ref'[c][s] = ref[c][s] \/ (s = r /\ ref'[c][s] = NoRef)
    <2>1. NoRef \in Refs
      BY DEF NoRef, Refs
    <2> QED BY <2>1 DEF Unlink, CacheInvalidateSmgr, IInv, TypeOK
  <1> QED BY <1>1, <1>2, <1>3, QuietRelation DEF Unlink

LEMMA ReplayTruncateIInv ==
    ASSUME IInv, NEW r \in Rels, ReplayTruncate(r)
    PROVE  IInv'
  <1>1. CacheChanged(r) /\ mapping'[r] = None
    BY DropEntryChange DEF ReplayTruncate
  <1>2. /\ file' \in [Rels -> 0 .. MaxBlocks] /\ known' \in [Rels -> 0 .. MaxBlocks]
        /\ known'[r] <= file'[r]
        /\ \A s \in Rels \ {r} : file'[s] = file[s] /\ known'[s] = known[s]
    <2>1. PICK n \in 0 .. file[r] : file' = [file EXCEPT ![r] = n] /\ known' = [known EXCEPT ![r] = n]
      BY DEF ReplayTruncate
    <2>2. file \in [Rels -> 0 .. MaxBlocks] /\ known \in [Rels -> 0 .. MaxBlocks]
      BY DEF IInv, TypeOK
    <2>3. n \in 0 .. MaxBlocks /\ n <= n
      BY <2>1, <2>2, BlocksAssumption
    <2> QED BY <2>1, <2>2, <2>3
  <1>3. /\ ref' \in [Backends -> [Rels -> Refs]]
        /\ \A c \in Backends, s \in Rels : ref'[c][s] = ref[c][s]
    BY DEF ReplayTruncate, IInv, TypeOK
  <1> QED BY <1>1, <1>2, <1>3, QuietRelation DEF ReplayTruncate

\* On a replica a replayed size goes up to the end of the file at most.
LEMMA ReplayIInv ==
    ASSUME IInv, NEW r \in Rels, Replay(r)
    PROVE  IInv'
  <1>1. /\ ~primary /\ UNCHANGED <<primary, file, ref, proc>>
        /\ known' = [known EXCEPT ![r] = known[r] + 1] /\ known[r] < file[r]
    BY DEF Replay
  <1>2. /\ known \in [Rels -> 0 .. MaxBlocks] /\ file \in [Rels -> 0 .. MaxBlocks]
        /\ \A s \in Rels : known[s] \in Nat /\ file[s] \in Nat
    BY Blocks DEF IInv, TypeOK
  <1>3. /\ known' \in [Rels -> 0 .. MaxBlocks] /\ known[r] + 1 \in 0 .. MaxBlocks
        /\ known[r] + 1 <= file[r]
        /\ \A s \in Rels : known[s] <= known'[s] /\ known'[s] <= file[s]
    <2>1. known[r] + 1 \in 0 .. MaxBlocks /\ known[r] + 1 <= file[r]
      BY <1>1, <1>2, BlocksAssumption
    <2> QED BY <1>1, <1>2, <2>1 DEF IInv, KnownInFile
  <1>4. KnownInFile'
    BY <1>1, <1>3 DEF KnownInFile
  <1>5. \A c \in Backends : proc[c].op \notin {"extend", "publish", "truncate"}
    BY <1>1 DEF IInv, Shape, ProcShape
  <1>6. ASSUME NEW c \in Backends, proc[c].pc # "idle"
        PROVE  CallBounds(proc[c], proc[c].rel)'
    <2>1. proc[c].rel \in Rels /\ CallBounds(proc[c], proc[c].rel) /\ proc[c].floor \in Nat
      BY <1>6, Working, Blocks
    <2>2. proc[c].floor <= known'[proc[c].rel]
      <3>1. /\ known'[proc[c].rel] \in Nat /\ known[proc[c].rel] \in Nat
            /\ known[proc[c].rel] <= known'[proc[c].rel]
        BY <1>2, <1>3, <2>1, Blocks
      <3>2. proc[c].floor <= known[proc[c].rel]
        BY <2>1 DEF CallBounds
      <3> QED BY <2>1, <3>1, <3>2
    <2> QED BY <1>1, <1>5, <2>1, <2>2 DEF CallBounds
  <1>7. CASE DropEntry(r)
    <2>1. CacheChanged(r) /\ mapping'[r] = None /\ ~Shared(r)
      BY <1>7, DropEntryChange DEF DropEntry
    <2>2. TypeOK' /\ Shape' /\ Exclusive'
      BY <1>1, <1>3, <2>1 DEF IInv, TypeOK, Shape, ProcShape, Exclusive, CacheChanged
    <2>3. CacheBound'
      BY <1>1, <2>1, NoneAssumption DEF IInv, CacheBound, CacheChanged, Locked
    <2>4. RefSound'
      <3>1. \A c \in Backends, s \in Rels : ref[c][s] \in Refs
        BY DEF IInv, TypeOK
      <3> QED BY <1>1, <2>1, <3>1 DEF IInv, RefSound, RefOK, CacheChanged
    <2>5. CallSound'
      <3> SUFFICES ASSUME NEW c \in Backends, proc[c].pc # "idle"
                   PROVE  CallOK(c, proc[c])'
        BY <1>1 DEF CallSound, CallOK
      <3>1. CallOK(c, proc[c]) /\ proc[c].rel \in Rels /\ (proc[c].pc = "put" => proc[c].rel # r)
        BY <2>1, Working DEF Shared
      <3>2. proc[c].pc = "put" => PutBounds(proc[c], proc[c].rel)'
        BY <1>1, <2>1, <3>1 DEF CallOK, PutBounds, CacheChanged
      <3>3. proc[c].pc = "check" => CheckBounds(proc[c], proc[c].rel, ref[c][proc[c].rel])'
        BY <1>1, <2>1, <3>1, SameGeneration DEF CallOK, CheckBounds
      <3> QED BY <1>1, <1>6, <3>2, <3>3 DEF CallOK
    <2> QED BY <1>4, <2>1, <2>2, <2>3, <2>4, <2>5 DEF IInv, CacheChanged
  <1>8. CASE UpdateIfGreater(r, known[r] + 1) /\ UNCHANGED mapping /\ entry' # entry
    <2> DEFINE e == mapping[r]
               sr == [entry[e] EXCEPT !.nblocks = known[r] + 1, !.dirty = TRUE]
    <2>1. e # None /\ entry' = [entry EXCEPT ![e] = sr] /\ mapping' = mapping
      BY <1>8 DEF UpdateIfGreater
    <2>2. /\ e \in Entries /\ entry[e] \in SharedRelations /\ entry[e].valid
          /\ \A s \in Rels : mapping[s] = e => s = r
      BY <2>1, Mapped
    <2>3. /\ sr \in SharedRelations /\ sr.valid = entry[e].valid /\ sr.rnode = entry[e].rnode
          /\ sr.generation = entry[e].generation /\ sr.nblocks = known[r] + 1
      BY <1>3, <2>2, Blocks DEF SharedRelations
    <2> HIDE DEF sr
    <2>4. entry'[e] = sr /\ \A d \in Entries \ {e} : entry'[d] = entry[d]
      BY <2>1, <2>2 DEF IInv, TypeOK
    <2>5. TypeOK'
      BY <1>1, <1>3, <2>1, <2>3 DEF IInv, TypeOK
    <2>6. Shape' /\ Exclusive' /\ MappingSound'
      BY <1>1, <2>1, <2>3, <2>4 DEF IInv, Shape, ProcShape, Exclusive, MappingSound
    <2>7. CacheBound'
      BY <1>1, <1>3, <2>1, <2>2, <2>3, <2>4 DEF IInv, CacheBound, Locked
    <2>8. RefSound'
      BY <1>1, <2>1, <2>2, <2>3, <2>4 DEF IInv, TypeOK, Refs, RefSound, RefOK
    <2>9. CallSound'
      <3> SUFFICES ASSUME NEW c \in Backends, proc[c].pc # "idle"
                   PROVE  CallOK(c, proc[c])'
        BY <1>1 DEF CallSound, CallOK
      <3>1. CallOK(c, proc[c]) /\ proc[c].rel \in Rels /\ ref[c][proc[c].rel] \in Refs
        BY Working
      <3>2. proc[c].pc = "put" => PutBounds(proc[c], proc[c].rel)'
        BY <1>1, <2>1, <3>1 DEF CallOK, PutBounds
      <3>3. proc[c].pc = "check" => CheckBounds(proc[c], proc[c].rel, ref[c][proc[c].rel])'
        BY <1>1, <2>3, <2>4, <3>1 DEF CallOK, CheckBounds, Refs
      <3> QED BY <1>1, <1>6, <3>2, <3>3 DEF CallOK
    <2> QED BY <1>4, <2>5, <2>6, <2>7, <2>8, <2>9 DEF IInv
  <1>9. CASE UNCHANGED <<mapping, entry>>
    <2>1. TypeOK' /\ Shape' /\ Exclusive' /\ MappingSound' /\ CacheBound' /\ RefSound'
      BY <1>1, <1>3, <1>9 DEF IInv, TypeOK, Shape, ProcShape, Exclusive, MappingSound, CacheBound,
                              Locked, RefSound, RefOK
    <2>2. CallSound'
      BY <1>1, <1>6, <1>9 DEF IInv, CallSound, CallOK, PutBounds, CheckBounds
    <2> QED BY <1>4, <2>1, <2>2 DEF IInv
  <1> QED BY <1>7, <1>8, <1>9 DEF Replay

\* Promotion leaves nothing that an old pointer or an old call could rely on.
LEMMA PromoteIInv ==
    ASSUME IInv, Promote
    PROVE  IInv'
  <1>1. /\ ~primary /\ primary' = TRUE /\ UNCHANGED <<file, known, ref>>
        /\ mapping' = [r \in Rels |-> None]
        /\ \A r \in Rels : ~Shared(r)
        /\ entry' = [e \in Entries |-> [entry[e] EXCEPT !.valid = FALSE, !.dirty = FALSE,
                                          !.generation = entry[e].generation + 1,
                                          !.nblocks = InvalidBlockNumber]]
        /\ proc' = [b \in Backends |-> [proc[b] EXCEPT !.floor = 0]]
    BY DEF Promote
  <1>2. ASSUME NEW e \in Entries
        PROVE  /\ entry'[e] \in SharedRelations /\ ~entry'[e].valid
               /\ entry[e].generation \in Nat /\ entry'[e].generation = entry[e].generation + 1
    <2>1. entry[e] \in SharedRelations /\ entry[e].generation \in Nat /\ entry[e].generation + 1 \in Nat
      BY DEF IInv, TypeOK, SharedRelations
    <2>2. entry'[e] = [entry[e] EXCEPT !.valid = FALSE, !.dirty = FALSE,
                                          !.generation = entry[e].generation + 1,
                                          !.nblocks = InvalidBlockNumber]
      BY <1>1
    <2>3. entry'[e] \in SharedRelations /\ entry'[e].generation = entry[e].generation + 1
      BY <2>1, <2>2, Blocks DEF SharedRelations
    <2>4. ~entry'[e].valid
      BY <2>1, <2>2, Zenon DEF SharedRelations
    <2> QED BY <2>1, <2>3, <2>4
  <1>3. ASSUME NEW b \in Backends
        PROVE  /\ proc'[b] \in Procs /\ proc'[b].floor = 0
               /\ proc'[b].pc = proc[b].pc /\ proc'[b].op = proc[b].op /\ proc'[b].rel = proc[b].rel
               /\ proc'[b].n = proc[b].n /\ proc'[b].sr = proc[b].sr /\ proc'[b].victim = proc[b].victim
               /\ proc[b] = Idle => proc'[b] = Idle
    <2>1. proc[b] \in Procs /\ proc'[b] = [proc[b] EXCEPT !.floor = 0]
      BY <1>1 DEF IInv, TypeOK
    <2>2. proc[b] = Idle => proc'[b] = Idle
      BY <2>1 DEF Idle
    <2> QED BY <2>1, <2>2, Blocks DEF Procs
  <1>4. TypeOK'
    <2>1. primary' \in BOOLEAN /\ mapping' \in [Rels -> Entries \cup {None}]
      BY <1>1
    <2>2. entry' \in [Entries -> SharedRelations]
      BY <1>1, <1>2
    <2>3. proc' \in [Backends -> Procs]
      BY <1>1, <1>3
    <2> QED BY <1>1, <1>3, <2>1, <2>2, <2>3 DEF IInv, TypeOK
  <1>5. Shape'
    <2>1. ASSUME NEW b \in Backends
          PROVE  ProcShape(proc[b])'
      <3>1. ProcShape(proc[b])
        BY DEF IInv, Shape
      <3>2. primary'
        BY <1>1
      <3> QED BY <1>3, <3>1, <3>2 DEF ProcShape
    <2> QED BY <1>2, <2>1 DEF Shape
  <1>6. Exclusive'
    BY <1>3 DEF IInv, Exclusive
  <1>7. KnownInFile'
    BY <1>1 DEF IInv, KnownInFile
  <1>8. MappingSound' /\ CacheBound'
    BY <1>1, <1>2, NoneAssumption DEF MappingSound, CacheBound
  <1>9. ASSUME NEW b \in Backends, NEW r \in Rels, ref[b][r].sr # None
        PROVE  /\ ref[b][r].generation <= entry'[ref[b][r].sr].generation
               /\ ref[b][r].generation # entry'[ref[b][r].sr].generation
    <2>1. ref[b][r].sr \in Entries /\ ref[b][r].generation \in Nat
      BY <1>9 DEF IInv, TypeOK, Refs
    <2>2. ref[b][r].generation <= entry[ref[b][r].sr].generation
      BY <1>9 DEF IInv, RefSound, RefOK
    <2>3. /\ entry[ref[b][r].sr].generation \in Nat
          /\ entry'[ref[b][r].sr].generation = entry[ref[b][r].sr].generation + 1
      BY <1>2, <2>1
    <2> QED BY <2>1, <2>2, <2>3
  <1>10. RefSound'
    BY <1>1, <1>9 DEF RefSound, RefOK
  <1>11. CallSound'
    <2> SUFFICES ASSUME NEW c \in Backends, proc[c].pc # "idle"
                 PROVE  CallOK(c, proc[c])'
      BY <1>3 DEF CallSound, CallOK
    <2>1. /\ CallOK(c, proc[c]) /\ proc[c].rel \in Rels /\ proc[c].pc # "put"
          /\ proc[c].n \in Nat /\ known[proc[c].rel] \in Nat
          /\ proc[c].op = "lookup"
      BY <1>1, Working, Blocks DEF Shared, ProcShape
    <2>2. UNCHANGED <<file, known, ref>>
      BY <1>1
    <2>3. /\ proc'[c].floor = 0 /\ proc'[c].pc = proc[c].pc /\ proc'[c].op = proc[c].op
          /\ proc'[c].rel = proc[c].rel /\ proc'[c].n = proc[c].n
      BY <1>3
    <2>4. CallBounds(proc[c], proc[c].rel)'
      <3>1. proc[c].pc \in {"done", "write"} => proc[c].n <= file[proc[c].rel]
        BY <2>1 DEF CallOK, CallBounds
      <3>2. 0 <= proc[c].n /\ 0 <= known[proc[c].rel]
        BY <2>1
      <3> QED BY <2>1, <2>2, <2>3, <3>1, <3>2 DEF CallBounds
    <2>5. ASSUME proc[c].pc = "check"
          PROVE  CheckBounds(proc[c], proc[c].rel, ref[c][proc[c].rel])'
      <3>1. ref[c][proc[c].rel].sr # None
        BY <2>1, <2>5 DEF CallOK, CheckBounds
      <3>2. entry'[ref[c][proc[c].rel].sr].generation # ref[c][proc[c].rel].generation
        BY <1>9, <2>1, <3>1
      <3> QED BY <2>2, <2>3, <3>1, <3>2 DEF CheckBounds
    <2> QED BY <2>1, <2>2, <2>3, <2>4, <2>5 DEF CallOK
  <1> QED BY <1>4, <1>5, <1>6, <1>7, <1>8, <1>10, <1>11 DEF IInv

(***************************************************************************)
(* The theorems.                                                           *)
(***************************************************************************)

LEMMA InitIInv ==
    ASSUME Init
    PROVE  IInv
  <1>1. /\ \A r \in Rels : file[r] = 0 /\ known[r] = 0 /\ mapping[r] = None
        /\ \A e \in Entries : entry[e] = [valid |-> FALSE, dirty |-> FALSE, generation |-> 0,
                                          rnode |-> None, nblocks |-> 0]
        /\ \A b \in Backends : proc[b] = Idle /\ \A r \in Rels : ref[b][r] = NoRef
    BY DEF Init
  <1>2. ASSUME NEW e \in Entries
        PROVE  entry[e] \in SharedRelations /\ ~entry[e].valid
    <2>1. 0 \in NBlocks
      BY Blocks
    <2>2. entry[e] \in SharedRelations
      <3>1. [valid |-> FALSE, dirty |-> FALSE, generation |-> 0, rnode |-> None, nblocks |-> 0]
              \in SharedRelations
        BY <2>1 DEF SharedRelations
      <3> QED BY <1>1, <3>1
    <2>3. entry[e].valid = FALSE
      BY <1>1
    <2> QED BY <2>2, <2>3
  <1>3. TypeOK
    <2>1. primary \in BOOLEAN /\ file \in [Rels -> 0 .. MaxBlocks] /\ known \in [Rels -> 0 .. MaxBlocks]
      BY Blocks DEF Init
    <2>2. mapping \in [Rels -> Entries \cup {None}]
      BY DEF Init
    <2>3. entry \in [Entries -> SharedRelations]
      BY <1>2 DEF Init
    <2>4. ref \in [Backends -> [Rels -> Refs]]
      BY DEF Init, Refs, NoRef
    <2>5. proc \in [Backends -> Procs] /\ \A b \in Backends : proc[b].pc = "idle"
      BY <1>1, IdleProc DEF Init
    <2> QED BY <2>1, <2>2, <2>3, <2>4, <2>5 DEF TypeOK
  <1>4. Shape
    BY <1>1, <1>2, IdleProc DEF Shape
  <1>5. Exclusive
    BY <1>1, IdleProc, NoneAssumption DEF Exclusive
  <1>6. KnownInFile /\ MappingSound /\ CacheBound
    BY <1>1, <1>2, NoneAssumption DEF KnownInFile, MappingSound, CacheBound
  <1>7. RefSound /\ CallSound
    BY <1>1, IdleProc DEF RefSound, RefOK, NoRef, CallSound, CallOK
  <1> QED BY <1>3, <1>4, <1>5, <1>6, <1>7 DEF IInv

LEMMA NextIInv ==
    ASSUME IInv, [Next]_vars
    PROVE  IInv'
  <1>1. ASSUME NEW b \in Backends, Step(b)
        PROVE  IInv'
    <2>1. CASE \E r \in Rels : Smgrnblocks(b, r)
      BY <2>1, SmgrnblocksIInv
    <2>2. CASE \E r \in Rels : Truncate(b, r)
      BY <2>2, TruncateIInv
    <2>3. CASE Return(b)
      BY <2>3, ReturnIInv
    <2>4. CASE SearchByRef(b)
      BY <2>4, SearchByRefIInv
    <2>5. CASE CheckGeneration(b)
      BY <2>5, CheckGenerationIInv
    <2>6. CASE SearchByMapping(b)
      BY <2>6, SearchByMappingIInv
    <2>7. CASE UpdateFind(b)
      BY <2>7, UpdateFindIInv
    <2>8. CASE UpdatePut(b)
      BY <2>8, UpdatePutIInv
    <2>9. CASE AllocPick(b)
      BY <2>9, AllocPickIInv
    <2>10. CASE AllocEvict(b)
      BY <2>10, AllocEvictIInv
    <2>11. CASE UpdateEnter(b)
      BY <2>11, UpdateEnterIInv
    <2>12. CASE Extend(b)
      BY <2>12, ExtendIInv
    <2>13. CASE ExtendFails(b)
      BY <2>13, ExtendFailsIInv
    <2> QED BY <1>1, <2>1, <2>2, <2>3, <2>4, <2>5, <2>6, <2>7, <2>8, <2>9, <2>10, <2>11, <2>12, <2>13
            DEF Step
  <1>2. ASSUME NEW r \in Rels, Unlink(r) \/ PrimaryExtends(r) \/ Replay(r) \/ ReplayTruncate(r)
        PROVE  IInv'
    BY <1>2, UnlinkIInv, PrimaryExtendsIInv, ReplayIInv, ReplayTruncateIInv
  <1>3. CASE Promote
    BY <1>3, PromoteIInv
  <1>4. CASE UNCHANGED vars
    <2>1. (TypeOK /\ Shape /\ Exclusive /\ KnownInFile /\ MappingSound)'
      BY <1>4 DEF vars, IInv, TypeOK, Shape, ProcShape, Exclusive, KnownInFile, MappingSound
    <2>2. (CacheBound /\ RefSound /\ CallSound)'
      BY <1>4 DEF vars, IInv, CacheBound, Locked, RefSound, RefOK,
                  CallSound, CallOK, CallBounds, PutBounds, CheckBounds
    <2> QED BY <2>1, <2>2 DEF IInv
  <1> QED BY <1>1, <1>2, <1>3, <1>4 DEF Next

\* The inductive invariant holds in every state of the cache.
THEOREM Invariance == Spec => []IInv
  BY InitIInv, NextIInv, PTL DEF Spec

\* Entries, pointers and calls have their types, and smgrnblocks never answers
\* InvalidBlockNumber.
THEOREM TypeCorrect == Spec => []TypeOK
  <1>1. IInv => TypeOK
    BY DEF IInv
  <1> QED BY <1>1, Invariance, PTL

\* The mapping table and the valid entries of the pool name each other, however
\* rsc_alloc_entry, polar_rsc_update_entry and polar_rsc_drop_entry interleave.
THEOREM MappingStaysSound == Spec => []MappingSound
  <1>1. IInv => MappingSound
    BY DEF IInv
  <1> QED BY <1>1, Invariance, PTL

\* The lock-free search by pointer and generation, the search by mapping and the
\* size of the file answer alike: on the primary smgrnblocks is within the file
\* and covers what was handed out before the call.
THEOREM LookupsSound == Spec => []LookupSound
  <1>1. ASSUME IInv
        PROVE  LookupSound
    <2> SUFFICES ASSUME primary, NEW b \in Backends, proc[b].pc \in {"done", "write"}
                 PROVE  proc[b].floor <= proc[b].n /\ proc[b].n <= file[proc[b].rel]
      BY DEF LookupSound
    <2> QED BY <1>1, Working DEF CallBounds
  <1> QED BY <1>1, Invariance, PTL

\* The cached size of a relation that nobody truncates is within the file and
\* covers every block handed out, though a lookup stores a size that it read
\* before an extension stored its own.
THEOREM CacheStaysCoherent == Spec => []CacheCoherent
  <1>1. ASSUME IInv
        PROVE  CacheCoherent
    <2>1. \A r \in Rels : mapping[r] # None => mapping[r] \in Entries
      BY <1>1 DEF IInv, TypeOK
    <2> QED BY <1>1, <2>1 DEF IInv, CacheBound, CacheCoherent
  <1> QED BY <1>1, Invariance, PTL

===========================================================================
