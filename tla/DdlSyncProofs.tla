--------------------------- MODULE DdlSyncProofs ---------------------------
(***************************************************************************)
(* Proofs about synchronous DDL, for any numbers of transactions and       *)
(* replicas and any number of broken connections.                          *)
(*                                                                         *)
(* The argument follows a lock LSN from the replica to the files.  What    *)
(* the walreceiver may report is bounded by polar_alr_ctl->lsn and by the  *)
(* replayed LSN (Reported); whatever satisfies that bound stands for locks *)
(* that are held (ReportedHeld); it is kept by everything the replica does *)
(* while the report is on its way; and the primary never goes beyond what  *)
(* the slots hold (Progress).                                              *)
(***************************************************************************)
EXTENDS DdlSync, FiniteSetTheorems, NaturalsInduction, TLAPS

(***************************************************************************)
(* The inductive invariant.                                                *)
(***************************************************************************)

Records == [kind : {"lock", "data", "end"}, xact : Xacts]
DdlStates == {"idle", "locked", "waiting", "op", "unlink", "done"}
Slots == [in_use : BOOLEAN, active : BOOLEAN, apply_lsn : Nat, lock_lsn : Nat]
Senders == [pc : {"idle", "compute", "set", "release"}, oldest : Nat, reply : BOOLEAN]
StartupStates == [replayed : Nat, at : {"none", "read", "redone"}]
LockStates == {"none", "idle", "getting", "got", "skip"}
Replies == [apply : Nat, lock : Nat]

Typed ==
    /\ wal \in Seq(Records) /\ ddl \in [Xacts -> DdlStates]
    /\ slot \in [Replicas -> Slots] /\ snd \in [Replicas -> Senders]
    /\ oldest \in Nat /\ ddlLsn \in Nat
    /\ startup \in [Replicas -> StartupStates]
    /\ lock \in [Replicas -> [Xacts -> LockStates]]
    /\ running \in [Replicas -> [Xacts -> BOOLEAN]]
    /\ alrLsn \in [Replicas -> Nat] /\ worker \in [Replicas -> {"acquire", "getting", "release"}]
    /\ query \in [Replicas -> [Xacts -> BOOLEAN]]
    /\ rcv \in [Replicas -> Nat] /\ msg \in [Replicas -> Replies]
    /\ alive \in [Replicas -> BOOLEAN] /\ breaks \in 0 .. MaxDisconnects

\* Nothing is past the end of the WAL.
Bounded ==
    /\ oldest <= InsertLsn /\ ddlLsn <= InsertLsn
    /\ \A n \in Replicas :
         /\ slot[n].apply_lsn <= InsertLsn /\ slot[n].lock_lsn <= InsertLsn
         /\ snd[n].oldest <= InsertLsn
         /\ 1 <= startup[n].replayed /\ ReadUpTo(n) <= InsertLsn

\* No record is written twice, and the state of a transaction says what it wrote.
WalSound ==
    /\ \A i \in 1 .. Len(wal) : RecordLsn(wal[i].kind, wal[i].xact) = i + 1
    /\ \A x \in Xacts :
         /\ ddl[x] = "idle" <=> LockLsn(x) = InvalidLsn
         /\ ddl[x] \in {"unlink", "done"} <=> EndLsn(x) # InvalidLsn

\* The lock record of x was applied on n.
Applied(n, x) == LockLsn(x) # InvalidLsn /\ LockLsn(x) <= Redone(n)

\* What the state of a lock on a replica says.
LockOK(n, x) ==
    /\ Applied(n, x) => running[n][x] \/ Finished(n, x)
    /\ lock[n][x] = "none" /\ Applied(n, x) => Finished(n, x)
    /\ lock[n][x] \in {"idle", "getting", "got"} => Applied(n, x)
    /\ lock[n][x] = "skip" => Finished(n, x)
    /\ lock[n][x] \in {"idle", "getting"} => alrLsn[n] # InvalidLsn /\ alrLsn[n] < LockLsn(x)
    /\ lock[n][x] = "got" => ~query[n][x]
LocksSound == \A n \in Replicas, x \in Xacts : LockOK(n, x)

\* The worker takes the locks one by one in the order of their LSNs.
WorkerOK(n) ==
    /\ alrLsn[n] <= Redone(n)
    /\ worker[n] = "getting" => \E x \in Xacts : lock[n][x] = "getting"
    /\ \A x, y \in Xacts :
         lock[n][x] = "getting" =>
             /\ worker[n] = "getting"
             /\ lock[n][y] = "getting" => x = y
             /\ lock[n][y] = "idle" => LockLsn(x) < LockLsn(y)
WorkersSound == \A n \in Replicas : WorkerOK(n)

\* The lock LSN p may be reported by n, now and later.
Reported(n, p) == p <= startup[n].replayed /\ (alrLsn[n] # InvalidLsn => p <= alrLsn[n])

\* The slot of a replica that runs, and its report on its way there.
ReplicaOK(n) ==
    /\ alive[n] =>
         /\ slot[n].in_use
         /\ 1 <= slot[n].apply_lsn /\ slot[n].apply_lsn <= ReadUpTo(n)
         /\ 1 <= slot[n].lock_lsn /\ Reported(n, slot[n].lock_lsn)
    /\ rcv[n] # InvalidLsn =>
         /\ alive[n] /\ msg[n] = NoMsg
         /\ slot[n].lock_lsn <= rcv[n] /\ rcv[n] <= startup[n].replayed
    /\ msg[n] # NoMsg =>
         /\ alive[n] /\ msg[n].apply <= startup[n].replayed
         /\ slot[n].lock_lsn <= msg[n].lock /\ Reported(n, msg[n].lock)
    /\ ~alive[n] => \A x \in Xacts : ~query[n][x]
ReportsSound == \A n \in Replicas : ReplicaOK(n)

\* The primary is not ahead of the slot of any replica that runs.
ProgressOK(n) ==
    /\ ddlLsn <= slot[n].lock_lsn
    /\ oldest # InvalidLsn /\ oldest <= slot[n].apply_lsn
    /\ \A m \in Replicas : snd[m].pc = "set" =>
         snd[m].oldest # InvalidLsn /\ snd[m].oldest <= slot[n].apply_lsn
    /\ \A x \in Xacts : ddl[x] \in {"op", "unlink"} => LockLsn(x) <= slot[n].lock_lsn
ProgressSound == \A n \in Replicas : alive[n] => ProgressOK(n)

IInv == /\ Typed /\ Bounded /\ WalSound /\ LocksSound /\ WorkersSound
        /\ ReportsSound /\ ProgressSound /\ NoQueryDuringFileOp

(***************************************************************************)
(* The operators of the model.                                             *)
(***************************************************************************)

\* What the minimum over slots is.
LEMMA MinOf ==
    ASSUME NEW S, S \subseteq Nat, S # {}
    PROVE  Min(S) \in S /\ \A m \in S : Min(S) <= m
  <1> DEFINE R == OpToRel(<, Nat)
  <1>1. IsWellFoundedOn(R, Nat)
    BY NatLessThanWellFounded
  <1>2. \A k, m \in Nat : k < m => <<k, m>> \in R
    BY DEF OpToRel
  <1> HIDE DEF R
  <1>3. PICK m \in S : \A k \in S : ~ (<<k, m>> \in R)
    BY <1>1, WFMin
  <1>4. ASSUME NEW k \in S
        PROVE  m <= k
    <2>1. k \in Nat /\ m \in Nat
      OBVIOUS
    <2>2. ~ (k < m)
      BY <1>2, <1>3, <2>1, Zenon
    <2> QED BY <2>1, <2>2
  <1> QED BY <1>4 DEF Min

\* Where a record is.
LEMMA RecordFacts ==
    ASSUME Typed, NEW k, NEW x
    PROVE  /\ RecordLsn(k, x) \in Nat /\ RecordLsn(k, x) <= InsertLsn
           /\ RecordLsn(k, x) # InvalidLsn =>
                /\ RecordLsn(k, x) >= 2
                /\ wal[RecordLsn(k, x) - 1] = [kind |-> k, xact |-> x]
  <1> DEFINE at == {i \in 1 .. Len(wal) : wal[i] = [kind |-> k, xact |-> x]}
  <1>1. Len(wal) \in Nat /\ InsertLsn = Len(wal) + 1
    BY DEF Typed, InsertLsn
  <1>2. CASE at = {}
    BY <1>1, <1>2 DEF RecordLsn, InvalidLsn
  <1>3. CASE at # {}
    <2>1. PICK i \in at : RecordLsn(k, x) = 1 + i
      BY <1>3 DEF RecordLsn
    <2> QED BY <1>1, <2>1 DEF InvalidLsn
  <1> QED BY <1>2, <1>3

\* A new record is the last one, and the others are where they were.
LEMMA LogRecord ==
    ASSUME Typed, NEW k, NEW x, Log(k, x)
    PROVE  /\ InsertLsn' = InsertLsn + 1
           /\ \A i \in 1 .. Len(wal) : wal'[i] = wal[i]
           /\ Len(wal') = Len(wal) + 1 /\ wal'[Len(wal) + 1] = [kind |-> k, xact |-> x]
           /\ \A j, y : j # k \/ y # x => RecordLsn(j, y)' = RecordLsn(j, y)
           /\ RecordLsn(k, x) = InvalidLsn => RecordLsn(k, x)' = InsertLsn'
  <1> DEFINE At(j, y) == {i \in 1 .. Len(wal) : wal[i] = [kind |-> j, xact |-> y]}
             r == [kind |-> k, xact |-> x]
  <1>1. /\ Len(wal) \in Nat /\ Len(wal') = Len(wal) + 1
        /\ \A i \in 1 .. Len(wal) : wal'[i] = wal[i]
        /\ wal'[Len(wal) + 1] = r
    BY DEF Typed, Log
  <1>2. ASSUME NEW j, NEW y, j # k \/ y # x
        PROVE  RecordLsn(j, y)' = RecordLsn(j, y)
    <2>1. r # [kind |-> j, xact |-> y]
      <3>1. r.kind = k /\ r.xact = x
        OBVIOUS
      <3>2. [kind |-> j, xact |-> y].kind = j /\ [kind |-> j, xact |-> y].xact = y
        OBVIOUS
      <3> QED BY <1>2, <3>1, <3>2
    <2> HIDE DEF r
    <2>2. At(j, y)' = At(j, y)
      BY <1>1, <2>1
    <2> DEFINE LsnOf(S) == IF S = {} THEN InvalidLsn ELSE 1 + CHOOSE i \in S : TRUE
    <2>3. RecordLsn(j, y) = LsnOf(At(j, y)) /\ RecordLsn(j, y)' = LsnOf(At(j, y)')
      BY Zenon DEF RecordLsn
    <2> HIDE DEF LsnOf, At
    <2> QED BY <2>2, <2>3
  <1>3. ASSUME RecordLsn(k, x) = InvalidLsn
        PROVE  RecordLsn(k, x)' = InsertLsn'
    <2>1. At(k, x) = {}
      <3> SUFFICES ASSUME At(k, x) # {} PROVE FALSE
        OBVIOUS
      <3>1. PICK i \in At(k, x) : RecordLsn(k, x) = 1 + i
        BY DEF RecordLsn
      <3> QED BY <1>1, <1>3, <3>1 DEF InvalidLsn
    <2>2. At(k, x)' = {Len(wal) + 1}
      BY <1>1, <2>1
    <2>3. RecordLsn(k, x)' = 1 + (Len(wal) + 1)
      BY <2>2 DEF RecordLsn
    <2> QED BY <1>1, <2>3 DEF InsertLsn
  <1> QED BY <1>1, <1>2, <1>3 DEF InsertLsn

(***************************************************************************)
(* What a part of the invariant depends on.                                *)
(***************************************************************************)

LEMMA SameWal ==
    ASSUME UNCHANGED wal
    PROVE  /\ InsertLsn' = InsertLsn
           /\ \A x : LockLsn(x)' = LockLsn(x) /\ EndLsn(x)' = EndLsn(x)
  BY DEF InsertLsn, LockLsn, EndLsn, RecordLsn

LEMMA SameReplay ==
    ASSUME UNCHANGED <<wal, startup>>
    PROVE  /\ \A n : Redone(n)' = Redone(n) /\ ReadUpTo(n)' = ReadUpTo(n)
           /\ \A n, x : (Finished(n, x)' <=> Finished(n, x)) /\ (Applied(n, x)' <=> Applied(n, x))
  <1>1. \A n : Redone(n)' = Redone(n) /\ ReadUpTo(n)' = ReadUpTo(n)
    BY DEF Redone, ReadUpTo
  <1> QED BY <1>1, SameWal DEF Finished, Applied

LEMMA BoundedFrame ==
    ASSUME Bounded, UNCHANGED <<wal, slot, snd, oldest, ddlLsn, startup>>
    PROVE  Bounded'
  BY SameWal, SameReplay DEF Bounded

LEMMA WalFrame ==
    ASSUME WalSound, UNCHANGED <<wal, ddl>>
    PROVE  WalSound'
  <1>1. \A k, x : RecordLsn(k, x)' = RecordLsn(k, x)
    BY DEF RecordLsn
  <1> QED BY <1>1, SameWal DEF WalSound

LEMMA AlrFrame ==
    ASSUME LocksSound, WorkersSound, UNCHANGED <<wal, startup, lock, running, alrLsn, worker, query>>
    PROVE  LocksSound' /\ WorkersSound'
  BY SameWal, SameReplay DEF LocksSound, LockOK, WorkersSound, WorkerOK

LEMMA ReportsFrame ==
    ASSUME ReportsSound, UNCHANGED <<startup, slot, alrLsn, query, rcv, msg, alive>>
    PROVE  ReportsSound'
  <1>1. \A n : ReadUpTo(n)' = ReadUpTo(n)
    BY DEF ReadUpTo
  <1> QED BY <1>1 DEF ReportsSound, ReplicaOK, Reported

LEMMA ProgressFrame ==
    ASSUME ProgressSound, UNCHANGED <<wal, ddl, slot, snd, oldest, ddlLsn, alive>>
    PROVE  ProgressSound'
  BY SameWal DEF ProgressSound, ProgressOK

LEMMA FilesFrame ==
    ASSUME NoQueryDuringFileOp, UNCHANGED <<ddl, query>>
    PROVE  NoQueryDuringFileOp'
  BY DEF NoQueryDuringFileOp

(***************************************************************************)
(* What is reported is held.                                               *)
(***************************************************************************)

\* Positions are numbers.
LEMMA Lsns0 ==
    ASSUME IInv
    PROVE  /\ InsertLsn \in Nat /\ InvalidLsn \in Nat
           /\ \A x : LockLsn(x) \in Nat /\ LockLsn(x) <= InsertLsn
           /\ \A x : EndLsn(x) \in Nat /\ EndLsn(x) <= InsertLsn
           /\ \A n \in Replicas :
                /\ startup[n] \in StartupStates /\ startup[n].replayed \in Nat
                /\ Redone(n) \in Nat /\ ReadUpTo(n) \in Nat /\ alrLsn[n] \in Nat
                /\ startup[n].replayed <= Redone(n) /\ Redone(n) <= ReadUpTo(n)
                /\ Redone(n) <= InsertLsn /\ ReadUpTo(n) <= InsertLsn /\ 1 <= startup[n].replayed
  <1>1. Typed /\ Bounded
    BY DEF IInv
  <1>2. InsertLsn \in Nat /\ InvalidLsn \in Nat
    BY <1>1 DEF Typed, InsertLsn, InvalidLsn
  <1>3. \A x : LockLsn(x) \in Nat /\ LockLsn(x) <= InsertLsn
    BY <1>1, RecordFacts DEF LockLsn
  <1>4. \A x : EndLsn(x) \in Nat /\ EndLsn(x) <= InsertLsn
    BY <1>1, RecordFacts DEF EndLsn
  <1>5. ASSUME NEW n \in Replicas
        PROVE  /\ startup[n] \in StartupStates /\ startup[n].replayed \in Nat
               /\ Redone(n) \in Nat /\ ReadUpTo(n) \in Nat /\ alrLsn[n] \in Nat
               /\ startup[n].replayed <= Redone(n) /\ Redone(n) <= ReadUpTo(n)
    <2>1. startup[n] \in StartupStates /\ startup[n].replayed \in Nat /\ alrLsn[n] \in Nat
      BY <1>1 DEF Typed, StartupStates
    <2> QED BY <2>1 DEF Redone, ReadUpTo, StartupStates
  <1>6. ASSUME NEW n \in Replicas
        PROVE  Redone(n) <= InsertLsn /\ ReadUpTo(n) <= InsertLsn /\ 1 <= startup[n].replayed
    <2>1. ReadUpTo(n) <= InsertLsn /\ 1 <= startup[n].replayed
      BY <1>1 DEF Bounded
    <2> QED BY <1>2, <1>5, <2>1
  <1> QED BY <1>2, <1>3, <1>4, <1>5, <1>6

\* A lock LSN that may be reported stands for locks that are held until the
\* transactions end.
LEMMA ReportedHeld ==
    ASSUME IInv, NEW n \in Replicas, NEW x \in Xacts, NEW p \in Nat,
           Reported(n, p), LockLsn(x) # InvalidLsn, LockLsn(x) <= p
    PROVE  lock[n][x] = "got" \/ Finished(n, x)
  <1>1. Applied(n, x)
    BY Lsns0 DEF Reported, Applied
  <1>2. lock[n][x] \notin {"idle", "getting"}
    <2> SUFFICES ASSUME lock[n][x] \in {"idle", "getting"} PROVE FALSE
      OBVIOUS
    <2>1. alrLsn[n] # InvalidLsn /\ alrLsn[n] < LockLsn(x)
      BY DEF IInv, LocksSound, LockOK
    <2> QED BY <2>1, Lsns0 DEF Reported
  <1>3. lock[n][x] \in LockStates
    BY DEF IInv, Typed
  <1> QED BY <1>1, <1>2, <1>3 DEF IInv, LocksSound, LockOK, LockStates

\* A transaction may go on to change files once the slots of all replicas that
\* run cover its lock: no query has the relation.
LEMMA FilesFree ==
    ASSUME IInv, NEW x \in Xacts, LockLsn(x) # InvalidLsn, EndLsn(x) = InvalidLsn,
           \A n \in Replicas : alive[n] => LockLsn(x) <= slot[n].lock_lsn
    PROVE  \A n \in Replicas : ~query[n][x]
  <1> SUFFICES ASSUME NEW n \in Replicas, alive[n]
               PROVE  ~query[n][x]
    BY DEF IInv, ReportsSound, ReplicaOK
  <1>1. slot[n].lock_lsn \in Nat
    BY DEF IInv, Typed, Slots
  <1>2. Reported(n, slot[n].lock_lsn)
    BY DEF IInv, ReportsSound, ReplicaOK
  <1>3. lock[n][x] = "got"
    BY <1>1, <1>2, ReportedHeld DEF Finished
  <1> QED BY <1>3 DEF IInv, LocksSound, LockOK

(***************************************************************************)
(* Transactions of the primary.                                            *)
(***************************************************************************)

\* A new record concerns no replica yet.
LEMMA LogStep ==
    ASSUME IInv, NEW k \in {"lock", "data", "end"}, NEW x \in Xacts,
           RecordLsn(k, x) = InvalidLsn, Log(k, x), ddl' \in [Xacts -> DdlStates],
           UNCHANGED <<progress, startup, alr, query, net>>
    PROVE  /\ Typed' /\ Bounded' /\ LocksSound' /\ WorkersSound' /\ ReportsSound'
           /\ \A i \in 1 .. Len(wal') : RecordLsn(wal[i].kind, wal[i].xact)' = i + 1
           /\ \A y \in Xacts :
                /\ y # x \/ k # "lock" => LockLsn(y)' = LockLsn(y)
                /\ y # x \/ k # "end" => EndLsn(y)' = EndLsn(y)
           /\ k = "lock" => LockLsn(x)' # InvalidLsn
           /\ k = "end" => EndLsn(x)' # InvalidLsn
  <1>1. UNCHANGED <<slot, snd, oldest, ddlLsn, startup, lock, running, alrLsn, worker, query,
                    rcv, msg, alive, breaks>>
    BY DEF progress, alr, net
  <1>2. /\ InsertLsn' = InsertLsn + 1
        /\ \A i \in 1 .. Len(wal) : wal'[i] = wal[i]
        /\ Len(wal') = Len(wal) + 1 /\ wal'[Len(wal) + 1] = [kind |-> k, xact |-> x]
        /\ \A j, y : j # k \/ y # x => RecordLsn(j, y)' = RecordLsn(j, y)
        /\ RecordLsn(k, x)' = InsertLsn'
    BY LogRecord DEF IInv
  <1>3. Typed'
    <2>1. wal' \in Seq(Records)
      BY DEF IInv, Typed, Log, Records
    <2> QED BY <1>1, <2>1 DEF IInv, Typed
  <1>4. \A n : Redone(n)' = Redone(n) /\ ReadUpTo(n)' = ReadUpTo(n)
    BY <1>1 DEF Redone, ReadUpTo
  <1>5. Bounded'
    <2>1. InsertLsn \in Nat /\ \A m \in Nat : m <= InsertLsn => m <= InsertLsn'
      BY <1>2, Lsns0
    <2>2. /\ oldest \in Nat /\ ddlLsn \in Nat
          /\ \A n \in Replicas : /\ slot[n].apply_lsn \in Nat /\ slot[n].lock_lsn \in Nat
                                 /\ snd[n].oldest \in Nat /\ ReadUpTo(n) \in Nat
      BY Lsns0 DEF IInv, Typed, Slots, Senders
    <2> QED BY <1>1, <1>4, <2>1, <2>2 DEF IInv, Bounded
  <1>6. /\ \A y \in Xacts : /\ y # x \/ k # "lock" => LockLsn(y)' = LockLsn(y)
                            /\ y # x \/ k # "end" => EndLsn(y)' = EndLsn(y)
        /\ k = "lock" => LockLsn(x) = InvalidLsn /\ LockLsn(x)' = InsertLsn'
        /\ k = "end" => EndLsn(x) = InvalidLsn /\ EndLsn(x)' = InsertLsn'
    BY <1>2 DEF LockLsn, EndLsn
  <1>7. InsertLsn' # InvalidLsn /\ \A n \in Replicas : ~ (InsertLsn' <= Redone(n))
    BY <1>2, Lsns0 DEF InvalidLsn
  <1>8. \A n \in Replicas, y \in Xacts :
          /\ Applied(n, y)' <=> Applied(n, y)
          /\ Finished(n, y)' <=> Finished(n, y)
          /\ Applied(n, y) => LockLsn(y)' = LockLsn(y)
    BY <1>4, <1>6, <1>7 DEF Applied, Finished
  <1>9. LocksSound'
    BY <1>1, <1>8 DEF IInv, LocksSound, LockOK
  <1>10. WorkersSound'
    <2>1. \A n \in Replicas, y \in Xacts : lock[n][y] \in {"idle", "getting"} => LockLsn(y)' = LockLsn(y)
      BY <1>8 DEF IInv, LocksSound, LockOK
    <2> QED BY <1>1, <1>4, <2>1 DEF IInv, WorkersSound, WorkerOK
  <1>11. ReportsSound'
    BY <1>1, ReportsFrame DEF IInv
  <1>12. ASSUME NEW i \in 1 .. Len(wal')
         PROVE  RecordLsn(wal[i].kind, wal[i].xact)' = i + 1
    <2>1. Len(wal) \in Nat /\ InsertLsn = Len(wal) + 1
      BY DEF IInv, Typed, InsertLsn
    <2>2. CASE i = Len(wal) + 1
      BY <1>2, <2>1, <2>2
    <2>3. CASE i # Len(wal) + 1
      <3>1. i \in 1 .. Len(wal) /\ wal'[i] = wal[i]
        BY <1>2, <2>1, <2>3
      <3>2. RecordLsn(wal[i].kind, wal[i].xact) = i + 1
        BY <3>1 DEF IInv, WalSound
      <3>3. wal[i].kind # k \/ wal[i].xact # x
        BY <2>1, <3>1, <3>2 DEF InvalidLsn
      <3>4. RecordLsn(wal[i].kind, wal[i].xact)' = RecordLsn(wal[i].kind, wal[i].xact)
        BY <1>2, <3>1, <3>3
      <3> QED BY <3>2, <3>4
    <2> QED BY <2>2, <2>3
  <1> QED BY <1>3, <1>5, <1>6, <1>7, <1>9, <1>10, <1>11, <1>12

LEMMA LogLockIInv ==
    ASSUME IInv, NEW x \in Xacts, LogLock(x)
    PROVE  IInv'
  <1>1. /\ ddl[x] = "idle" /\ Log("lock", x) /\ ddl' = [ddl EXCEPT ![x] = "locked"]
        /\ UNCHANGED <<progress, startup, alr, query, net>>
    BY DEF LogLock
  <1>2. ddl \in [Xacts -> DdlStates] /\ ddl' \in [Xacts -> DdlStates]
    BY <1>1 DEF IInv, Typed, DdlStates
  <1>3. RecordLsn("lock", x) = InvalidLsn
    BY <1>1 DEF IInv, WalSound, LockLsn
  <1>4. /\ Typed' /\ Bounded' /\ LocksSound' /\ WorkersSound' /\ ReportsSound'
        /\ \A i \in 1 .. Len(wal') : RecordLsn(wal[i].kind, wal[i].xact)' = i + 1
        /\ \A y \in Xacts : (y # x => LockLsn(y)' = LockLsn(y)) /\ EndLsn(y)' = EndLsn(y)
        /\ LockLsn(x)' # InvalidLsn
    BY <1>1, <1>2, <1>3, LogStep
  <1>5. UNCHANGED <<slot, snd, oldest, ddlLsn, query, alive>>
    BY <1>1 DEF progress, net
  <1>6. WalSound'
    BY <1>1, <1>2, <1>4 DEF IInv, WalSound, InvalidLsn
  <1>7. ProgressSound'
    BY <1>1, <1>2, <1>4, <1>5 DEF IInv, ProgressSound, ProgressOK
  <1>8. NoQueryDuringFileOp'
    BY <1>1, <1>2, <1>5 DEF IInv, NoQueryDuringFileOp
  <1> QED BY <1>4, <1>6, <1>7, <1>8 DEF IInv

LEMMA LogDataIInv ==
    ASSUME IInv, NEW x \in Xacts, LogData(x)
    PROVE  IInv'
  <1>1. /\ RecordLsn("data", x) = InvalidLsn /\ Log("data", x)
        /\ UNCHANGED <<ddl, progress, startup, alr, query, net>>
    BY DEF LogData
  <1>2. ddl' \in [Xacts -> DdlStates]
    BY <1>1 DEF IInv, Typed
  <1>3. /\ Typed' /\ Bounded' /\ LocksSound' /\ WorkersSound' /\ ReportsSound'
        /\ \A i \in 1 .. Len(wal') : RecordLsn(wal[i].kind, wal[i].xact)' = i + 1
        /\ \A y \in Xacts : LockLsn(y)' = LockLsn(y) /\ EndLsn(y)' = EndLsn(y)
    BY <1>1, <1>2, LogStep
  <1>4. UNCHANGED <<slot, snd, oldest, ddlLsn, query, alive>>
    BY <1>1 DEF progress, net
  <1>5. WalSound'
    BY <1>1, <1>3 DEF IInv, WalSound, InvalidLsn
  <1>6. ProgressSound'
    BY <1>1, <1>3, <1>4 DEF IInv, ProgressSound, ProgressOK
  <1>7. NoQueryDuringFileOp'
    BY <1>1, <1>4, FilesFrame DEF IInv
  <1> QED BY <1>3, <1>5, <1>6, <1>7 DEF IInv

\* The end record of a transaction that waits or has changed files.
LEMMA EndIInv ==
    ASSUME IInv, NEW x \in Xacts, CancelWait(x) \/ Commit(x)
    PROVE  IInv'
  <1>1. PICK q \in {"unlink", "done"} :
          /\ ddl[x] \in {"waiting", "op"} /\ (q = "unlink" => ddl[x] = "op")
          /\ Log("end", x) /\ ddl' = [ddl EXCEPT ![x] = q]
          /\ UNCHANGED <<progress, startup, alr, query, net>>
    BY DEF CancelWait, Commit
  <1>2. ddl \in [Xacts -> DdlStates] /\ ddl' \in [Xacts -> DdlStates]
    BY <1>1 DEF IInv, Typed, DdlStates
  <1>3. RecordLsn("end", x) = InvalidLsn
    BY <1>1 DEF IInv, WalSound, EndLsn
  <1>4. /\ Typed' /\ Bounded' /\ LocksSound' /\ WorkersSound' /\ ReportsSound'
        /\ \A i \in 1 .. Len(wal') : RecordLsn(wal[i].kind, wal[i].xact)' = i + 1
        /\ \A y \in Xacts : (y # x => EndLsn(y)' = EndLsn(y)) /\ LockLsn(y)' = LockLsn(y)
        /\ EndLsn(x)' # InvalidLsn
    BY <1>1, <1>2, <1>3, LogStep
  <1>5. UNCHANGED <<slot, snd, oldest, ddlLsn, query, alive>>
    BY <1>1 DEF progress, net
  <1>6. WalSound'
    BY <1>1, <1>2, <1>4 DEF IInv, WalSound, InvalidLsn
  <1>7. ProgressSound'
    BY <1>1, <1>2, <1>4, <1>5 DEF IInv, ProgressSound, ProgressOK
  <1>8. NoQueryDuringFileOp'
    BY <1>1, <1>2, <1>5 DEF IInv, NoQueryDuringFileOp
  <1> QED BY <1>4, <1>6, <1>7, <1>8 DEF IInv

LEMMA PendingDeletesIInv ==
    ASSUME IInv, NEW x \in Xacts, PendingDeletes(x)
    PROVE  IInv'
  <1>1. /\ ddl[x] = "unlink" /\ ddl' = [ddl EXCEPT ![x] = "done"]
        /\ UNCHANGED <<wal, slot, snd, oldest, ddlLsn, startup, lock, running, alrLsn, worker, query,
                       rcv, msg, alive, breaks>>
    BY DEF PendingDeletes, progress, alr, net
  <1>2. ddl \in [Xacts -> DdlStates]
    BY DEF IInv, Typed
  <1>3. Typed'
    BY <1>1 DEF IInv, Typed, DdlStates
  <1>4. WalSound'
    <2>1. \A i \in 1 .. Len(wal') : RecordLsn(wal[i].kind, wal[i].xact)' = i + 1
      BY <1>1 DEF IInv, WalSound, RecordLsn
    <2> QED BY <1>1, <1>2, <2>1, SameWal DEF IInv, WalSound, InvalidLsn
  <1>5. Bounded' /\ LocksSound' /\ WorkersSound' /\ ReportsSound'
    BY <1>1, BoundedFrame, AlrFrame, ReportsFrame DEF IInv
  <1>6. ProgressSound'
    BY <1>1, <1>2, SameWal DEF IInv, ProgressSound, ProgressOK
  <1>7. NoQueryDuringFileOp'
    BY <1>1, <1>2 DEF IInv, NoQueryDuringFileOp
  <1> QED BY <1>3, <1>4, <1>5, <1>6, <1>7 DEF IInv

\* Transactions that held or waited for their locks go on: those that go on to
\* their files are covered by the slots.
LEMMA GoOn ==
    ASSUME IInv, NEW d \in [Xacts -> DdlStates], UNCHANGED <<wal, query>>, ddl' = d,
           \A x \in Xacts : d[x] # ddl[x] =>
             /\ ddl[x] \in {"locked", "waiting"} /\ d[x] \in {"waiting", "op"}
             /\ d[x] = "op" => \A n \in Replicas : alive[n] => LockLsn(x) <= slot[n].lock_lsn
    PROVE  WalSound' /\ NoQueryDuringFileOp'
  <1>1. WalSound'
    <2>1. \A i \in 1 .. Len(wal') : RecordLsn(wal[i].kind, wal[i].xact)' = i + 1
      BY DEF IInv, WalSound, RecordLsn
    <2>2. ASSUME NEW x \in Xacts
          PROVE  /\ d[x] = "idle" <=> LockLsn(x)' = InvalidLsn
                 /\ d[x] \in {"unlink", "done"} <=> EndLsn(x)' # InvalidLsn
      <3>1. LockLsn(x)' = LockLsn(x) /\ EndLsn(x)' = EndLsn(x)
        BY SameWal
      <3>2. /\ d[x] = "idle" <=> ddl[x] = "idle"
            /\ d[x] \in {"unlink", "done"} <=> ddl[x] \in {"unlink", "done"}
        OBVIOUS
      <3> QED BY <3>1, <3>2 DEF IInv, WalSound
    <2> QED BY <2>1, <2>2 DEF WalSound, InvalidLsn
  <1>2. NoQueryDuringFileOp'
    <2> SUFFICES ASSUME NEW n \in Replicas, NEW x \in Xacts, d[x] \in {"op", "unlink"}
                 PROVE  ~query[n][x]
      BY DEF NoQueryDuringFileOp
    <2>1. CASE d[x] = ddl[x]
      BY <2>1 DEF IInv, NoQueryDuringFileOp
    <2>2. CASE d[x] # ddl[x]
      <3>1. LockLsn(x) # InvalidLsn /\ EndLsn(x) = InvalidLsn
        BY <2>2 DEF IInv, WalSound
      <3> QED BY <2>2, <3>1, FilesFree
    <2> QED BY <2>1, <2>2
  <1> QED BY <1>1, <1>2

LEMMA WaitDdlLockIInv ==
    ASSUME IInv, NEW x \in Xacts, WaitDdlLock(x)
    PROVE  IInv'
  <1> DEFINE q == IF LockLsn(x) <= ddlLsn \/ DdlSlots = {} THEN "op" ELSE "waiting"
             d == [ddl EXCEPT ![x] = q]
  <1>1. /\ ddl[x] = "locked" /\ ddl' = d
        /\ UNCHANGED <<wal, slot, snd, oldest, ddlLsn, startup, lock, running, alrLsn, worker, query,
                       rcv, msg, alive, breaks>>
    BY DEF WaitDdlLock, progress, alr, net
  <1>2. q \in {"op", "waiting"} /\ d \in [Xacts -> DdlStates] /\ ddl \in [Xacts -> DdlStates]
    BY DEF IInv, Typed, DdlStates
  <1>3. ASSUME q = "op", NEW n \in Replicas, alive[n]
        PROVE  LockLsn(x) <= slot[n].lock_lsn
    <2>1. slot[n].lock_lsn \in Nat /\ ddlLsn \in Nat /\ ddlLsn <= slot[n].lock_lsn
      BY <1>3 DEF IInv, Typed, Slots, ProgressSound, ProgressOK
    <2>2. n \in DdlSlots
      BY <1>3, <2>1 DEF IInv, ReportsSound, ReplicaOK, DdlSlots, InvalidLsn
    <2> QED BY <1>3, <2>1, <2>2, Lsns0
  <1> HIDE DEF q
  <1>4. WalSound' /\ NoQueryDuringFileOp'
    BY <1>1, <1>2, <1>3, GoOn
  <1>5. Typed'
    BY <1>1, <1>2 DEF IInv, Typed
  <1>6. Bounded' /\ LocksSound' /\ WorkersSound' /\ ReportsSound'
    BY <1>1, BoundedFrame, AlrFrame, ReportsFrame DEF IInv
  <1>7. ProgressSound'
    BY <1>1, <1>2, <1>3, SameWal DEF IInv, ProgressSound, ProgressOK
  <1> QED BY <1>4, <1>5, <1>6, <1>7 DEF IInv

(***************************************************************************)
(* Queries and the walreceiver of a replica.                               *)
(***************************************************************************)

LEMMA QueryBeginIInv ==
    ASSUME IInv, NEW n \in Replicas, NEW x \in Xacts, QueryBegin(n, x)
    PROVE  IInv'
  <1>1. /\ alive[n] /\ ~Finished(n, x) /\ lock[n][x] \notin {"getting", "got"}
        /\ query' = [query EXCEPT ![n][x] = TRUE]
        /\ UNCHANGED <<wal, ddl, slot, snd, oldest, ddlLsn, startup, lock, running, alrLsn, worker,
                       rcv, msg, alive, breaks>>
    BY DEF QueryBegin, prim, progress, alr, net
  <1>2. query \in [Replicas -> [Xacts -> BOOLEAN]]
    BY DEF IInv, Typed
  <1>3. \A m \in Replicas, y \in Xacts : m # n \/ y # x => query'[m][y] = query[m][y]
    BY <1>1, <1>2
  <1>4. Typed'
    BY <1>1 DEF IInv, Typed
  <1>5. Bounded' /\ WalSound' /\ ProgressSound'
    BY <1>1, BoundedFrame, WalFrame, ProgressFrame DEF IInv
  <1>6. LocksSound' /\ WorkersSound'
    BY <1>1, <1>3, SameWal, SameReplay DEF IInv, LocksSound, LockOK, WorkersSound, WorkerOK
  <1>7. ReportsSound'
    <2>1. \A m : ReadUpTo(m)' = ReadUpTo(m)
      BY <1>1 DEF ReadUpTo
    <2> QED BY <1>1, <1>3, <2>1 DEF IInv, ReportsSound, ReplicaOK, Reported
  <1>8. NoQueryDuringFileOp'
    <2>1. ddl[x] \notin {"op", "unlink"}
      <3> SUFFICES ASSUME ddl[x] \in {"op", "unlink"} PROVE FALSE
        OBVIOUS
      <3>1. /\ LockLsn(x) # InvalidLsn /\ LockLsn(x) <= slot[n].lock_lsn
            /\ Reported(n, slot[n].lock_lsn) /\ slot[n].lock_lsn \in Nat
        BY <1>1 DEF IInv, Typed, Slots, WalSound, ProgressSound, ProgressOK, ReportsSound, ReplicaOK
      <3> QED BY <1>1, <3>1, ReportedHeld
    <2> QED BY <1>1, <1>3, <2>1 DEF IInv, NoQueryDuringFileOp
  <1> QED BY <1>4, <1>5, <1>6, <1>7, <1>8 DEF IInv

LEMMA QueryEndIInv ==
    ASSUME IInv, NEW n \in Replicas, NEW x \in Xacts, QueryEnd(n, x)
    PROVE  IInv'
  <1>1. /\ query' = [query EXCEPT ![n][x] = FALSE]
        /\ UNCHANGED <<wal, ddl, slot, snd, oldest, ddlLsn, startup, lock, running, alrLsn, worker,
                       rcv, msg, alive, breaks>>
    BY DEF QueryEnd, prim, progress, alr, net
  <1>2. query \in [Replicas -> [Xacts -> BOOLEAN]]
    BY DEF IInv, Typed
  <1>3. \A m \in Replicas, y \in Xacts : query'[m][y] => query[m][y]
    BY <1>1, <1>2
  <1>4. Typed'
    BY <1>1 DEF IInv, Typed
  <1>5. Bounded' /\ WalSound' /\ ProgressSound'
    BY <1>1, BoundedFrame, WalFrame, ProgressFrame DEF IInv
  <1>6. LocksSound' /\ WorkersSound'
    BY <1>1, <1>3, SameWal, SameReplay DEF IInv, LocksSound, LockOK, WorkersSound, WorkerOK
  <1>7. ReportsSound'
    <2>1. \A m : ReadUpTo(m)' = ReadUpTo(m)
      BY <1>1 DEF ReadUpTo
    <2> QED BY <1>1, <1>3, <2>1 DEF IInv, ReportsSound, ReplicaOK, Reported
  <1>8. NoQueryDuringFileOp'
    BY <1>1, <1>3 DEF IInv, NoQueryDuringFileOp
  <1> QED BY <1>4, <1>5, <1>6, <1>7, <1>8 DEF IInv

LEMMA ReadApplyLsnIInv ==
    ASSUME IInv, NEW n \in Replicas, ReadApplyLsn(n)
    PROVE  IInv'
  <1>1. /\ alive[n] /\ msg[n] = NoMsg /\ rcv' = [rcv EXCEPT ![n] = startup[n].replayed]
        /\ UNCHANGED <<wal, ddl, slot, snd, oldest, ddlLsn, startup, lock, running, alrLsn, worker,
                       query, msg, alive, breaks>>
    BY DEF ReadApplyLsn, prim, progress, alr
  <1>2. rcv \in [Replicas -> Nat] /\ startup[n].replayed \in Nat
    BY Lsns0 DEF IInv, Typed
  <1>3. Typed'
    BY <1>1, <1>2 DEF IInv, Typed
  <1>4. Bounded' /\ WalSound' /\ LocksSound' /\ WorkersSound' /\ ProgressSound' /\ NoQueryDuringFileOp'
    BY <1>1, BoundedFrame, WalFrame, AlrFrame, ProgressFrame, FilesFrame DEF IInv
  <1>5. ReportsSound'
    <2>1. \A m : ReadUpTo(m)' = ReadUpTo(m)
      BY <1>1 DEF ReadUpTo
    <2>2. slot[n].lock_lsn <= startup[n].replayed
      BY <1>1 DEF IInv, ReportsSound, ReplicaOK, Reported
    <2> QED BY <1>1, <1>2, <2>1, <2>2 DEF IInv, ReportsSound, ReplicaOK, Reported
  <1> QED BY <1>3, <1>4, <1>5 DEF IInv

\* The lock LSN is read after the apply LSN; the cap makes it reportable.
LEMMA SendReplyIInv ==
    ASSUME IInv, NEW n \in Replicas, SendReply(n)
    PROVE  IInv'
  <1> DEFINE m == [apply |-> rcv[n], lock |-> LockPtr(n)]
  <1>1. /\ alive[n] /\ rcv[n] # InvalidLsn
        /\ msg' = [msg EXCEPT ![n] = m] /\ rcv' = [rcv EXCEPT ![n] = InvalidLsn]
        /\ UNCHANGED <<wal, ddl, slot, snd, oldest, ddlLsn, startup, lock, running, alrLsn, worker,
                       query, alive, breaks>>
    BY DEF SendReply, prim, progress, alr
  <1>2. /\ rcv \in [Replicas -> Nat] /\ msg \in [Replicas -> Replies]
        /\ rcv[n] \in Nat /\ alrLsn[n] \in Nat /\ slot[n].lock_lsn \in Nat /\ startup[n].replayed \in Nat
    BY Lsns0 DEF IInv, Typed, Slots
  <1>3. /\ rcv[n] <= startup[n].replayed /\ slot[n].lock_lsn <= rcv[n]
        /\ alrLsn[n] # InvalidLsn => slot[n].lock_lsn <= alrLsn[n]
    BY <1>1 DEF IInv, ReportsSound, ReplicaOK, Reported
  <1>4. LockPtr(n) \in Nat /\ slot[n].lock_lsn <= LockPtr(n) /\ Reported(n, LockPtr(n))
    BY <1>2, <1>3 DEF LockPtr, Reported
  <1>5. m \in Replies /\ m.apply = rcv[n] /\ m.lock = LockPtr(n)
    BY <1>2, <1>4 DEF Replies
  <1> HIDE DEF m
  <1>6. Typed'
    BY <1>1, <1>2, <1>5 DEF IInv, Typed, InvalidLsn
  <1>7. Bounded' /\ WalSound' /\ LocksSound' /\ WorkersSound' /\ ProgressSound' /\ NoQueryDuringFileOp'
    BY <1>1, BoundedFrame, WalFrame, AlrFrame, ProgressFrame, FilesFrame DEF IInv
  <1>8. ReportsSound'
    <2>1. \A k : ReadUpTo(k)' = ReadUpTo(k)
      BY <1>1 DEF ReadUpTo
    <2>2. msg'[n] = m /\ rcv'[n] = InvalidLsn
      BY <1>1, <1>2
    <2>3. \A k \in Replicas : k # n => msg'[k] = msg[k] /\ rcv'[k] = rcv[k]
      BY <1>1, <1>2
    <2> QED BY <1>1, <1>3, <1>4, <1>5, <2>1, <2>2, <2>3 DEF IInv, ReportsSound, ReplicaOK, Reported
  <1> QED BY <1>6, <1>7, <1>8 DEF IInv

(***************************************************************************)
(* The startup process of a replica.                                       *)
(***************************************************************************)

\* The record that is applied takes effect on its own transaction only.
LEMMA RedoStep ==
    ASSUME IInv, NEW n \in Replicas, startup[n].at = "read", UNCHANGED wal,
           startup' = [startup EXCEPT ![n].at = "redone"]
    PROVE  /\ startup' \in [Replicas -> StartupStates]
           /\ startup'[n].replayed = startup[n].replayed
           /\ Redone(n) = startup[n].replayed /\ Redone(n)' = startup[n].replayed + 1
           /\ \A m \in Replicas : /\ startup'[m].replayed = startup[m].replayed
                                  /\ ReadUpTo(m)' = ReadUpTo(m) /\ Redone(m) <= Redone(m)'
           /\ \A m \in Replicas \ {n} : startup'[m] = startup[m] /\ Redone(m)' = Redone(m)
           /\ wal[startup[n].replayed] \in Records
           /\ RecordLsn(wal[startup[n].replayed].kind, wal[startup[n].replayed].xact)
                = startup[n].replayed + 1
           /\ \A k, x : RecordLsn(k, x) = startup[n].replayed + 1 =>
                wal[startup[n].replayed] = [kind |-> k, xact |-> x]
  <1> DEFINE r == startup[n].replayed
  <1>1. startup \in [Replicas -> StartupStates] /\ startup[n] \in StartupStates /\ r \in Nat
    BY Lsns0 DEF IInv, Typed
  <1>2. /\ startup'[n] = [startup[n] EXCEPT !.at = "redone"]
        /\ \A m \in Replicas \ {n} : startup'[m] = startup[m]
    BY <1>1
  <1>3. startup'[n] \in StartupStates /\ startup'[n].replayed = r /\ startup'[n].at = "redone"
    BY <1>1, <1>2 DEF StartupStates
  <1>4. startup' \in [Replicas -> StartupStates]
    BY <1>1, <1>3
  <1>5. Redone(n) = r /\ Redone(n)' = r + 1 /\ ReadUpTo(n) = r + 1 /\ ReadUpTo(n)' = r + 1
    BY <1>1, <1>3 DEF Redone, ReadUpTo
  <1>6. \A m \in Replicas \ {n} : Redone(m)' = Redone(m) /\ ReadUpTo(m)' = ReadUpTo(m)
    BY <1>2 DEF Redone, ReadUpTo
  <1>7. \A m \in Replicas : Redone(m) \in Nat
    BY Lsns0
  <1>8. r \in 1 .. Len(wal) /\ wal[r] \in Records
    <2>1. 1 <= r /\ r + 1 <= InsertLsn /\ InsertLsn = Len(wal) + 1 /\ Len(wal) \in Nat
      BY <1>5, Lsns0 DEF InsertLsn, IInv, Typed
    <2>2. r \in 1 .. Len(wal)
      BY <1>1, <2>1
    <2> QED BY <2>2 DEF IInv, Typed
  <1>9. RecordLsn(wal[r].kind, wal[r].xact) = r + 1
    BY <1>8 DEF IInv, WalSound
  <1>10. ASSUME NEW k, NEW x, RecordLsn(k, x) = r + 1
         PROVE  wal[r] = [kind |-> k, xact |-> x]
    <2>1. wal[(r + 1) - 1] = [kind |-> k, xact |-> x]
      BY <1>1, <1>10, RecordFacts DEF IInv, InvalidLsn
    <2> QED BY <1>1, <2>1
  <1> HIDE DEF r
  <1>11. \A m \in Replicas : /\ startup'[m].replayed = startup[m].replayed
                             /\ ReadUpTo(m)' = ReadUpTo(m) /\ Redone(m) <= Redone(m)'
    BY <1>1, <1>2, <1>3, <1>5, <1>6, <1>7 DEF r
  <1> QED BY <1>3, <1>4, <1>5, <1>6, <1>2, <1>8, <1>9, <1>10, <1>11 DEF r

\* ... so that the locks of other transactions are as they were.
TakesEffect(n, k, x) ==
    /\ \A m \in Replicas, y \in Xacts :
         /\ Applied(m, y)' <=> Applied(m, y) \/ (m = n /\ k = "lock" /\ y = x)
         /\ Finished(m, y)' <=> Finished(m, y) \/ (m = n /\ k = "end" /\ y = x)
    /\ k = "lock" => LockLsn(x) = startup[n].replayed + 1

LEMMA RedoEffect ==
    ASSUME IInv, NEW n \in Replicas, startup[n].at = "read", UNCHANGED wal,
           startup' = [startup EXCEPT ![n].at = "redone"],
           NEW k \in {"lock", "data", "end"}, NEW x \in Xacts,
           k = wal[startup[n].replayed].kind, x = wal[startup[n].replayed].xact
    PROVE  TakesEffect(n, k, x)
  <1> DEFINE r == startup[n].replayed
  <1>1. /\ Redone(n) = r /\ Redone(n)' = r + 1
        /\ \A m \in Replicas \ {n} : Redone(m)' = Redone(m)
        /\ RecordLsn(wal[r].kind, wal[r].xact) = r + 1
        /\ \A j, y : RecordLsn(j, y) = r + 1 => wal[r] = [kind |-> j, xact |-> y]
    BY RedoStep
  <1>2. RecordLsn(k, x) = r + 1
    BY <1>1
  <1>3. \A j, y : RecordLsn(j, y) = r + 1 => j = k /\ y = x
    <2> SUFFICES ASSUME NEW j, NEW y, RecordLsn(j, y) = r + 1
                 PROVE  j = k /\ y = x
      OBVIOUS
    <2>1. wal[r] = [kind |-> j, xact |-> y]
      BY <1>1
    <2> QED BY <2>1
  <1>4. r \in Nat /\ \A y : LockLsn(y) \in Nat /\ EndLsn(y) \in Nat
    BY Lsns0
  <1>5. \A y : /\ LockLsn(y)' = LockLsn(y) /\ EndLsn(y)' = EndLsn(y)
               /\ LockLsn(y) = r + 1 <=> k = "lock" /\ y = x
               /\ EndLsn(y) = r + 1 <=> k = "end" /\ y = x
    BY <1>2, <1>3, SameWal DEF LockLsn, EndLsn
  <1> HIDE DEF r
  <1>6. ASSUME NEW y \in Xacts
        PROVE  /\ Applied(n, y)' <=> Applied(n, y) \/ (k = "lock" /\ y = x)
               /\ Finished(n, y)' <=> Finished(n, y) \/ (k = "end" /\ y = x)
    <2>1. /\ LockLsn(y) <= r + 1 <=> LockLsn(y) <= r \/ LockLsn(y) = r + 1
          /\ EndLsn(y) <= r + 1 <=> EndLsn(y) <= r \/ EndLsn(y) = r + 1
          /\ r + 1 # InvalidLsn
      BY <1>4 DEF InvalidLsn
    <2> QED BY <1>1, <1>5, <2>1 DEF Applied, Finished
  <1>7. ASSUME NEW m \in Replicas \ {n}, NEW y \in Xacts
        PROVE  (Applied(m, y)' <=> Applied(m, y)) /\ (Finished(m, y)' <=> Finished(m, y))
    BY <1>1, <1>5 DEF Applied, Finished
  <1> QED BY <1>5, <1>6, <1>7 DEF r, TakesEffect

LEMMA ApplyWalRecordIInv ==
    ASSUME IInv, NEW n \in Replicas, ApplyWalRecord(n)
    PROVE  IInv'
  <1> DEFINE r == startup[n].replayed
  <1>1. /\ alive[n] /\ startup[n].at = "read"
        /\ startup' = [startup EXCEPT ![n].at = "redone"]
        /\ UNCHANGED <<wal, ddl, slot, snd, oldest, ddlLsn, worker, query, rcv, msg, alive, breaks>>
    BY DEF ApplyWalRecord, prim, progress, net
  <1>2. /\ startup' \in [Replicas -> StartupStates]
        /\ Redone(n) = r /\ Redone(n)' = r + 1
        /\ \A m \in Replicas : /\ startup'[m].replayed = startup[m].replayed
                               /\ ReadUpTo(m)' = ReadUpTo(m) /\ Redone(m) <= Redone(m)'
        /\ wal[r] \in Records
    BY <1>1, RedoStep
  <1>3. PICK k \in {"lock", "data", "end"}, x \in Xacts :
          /\ wal[r] = [kind |-> k, xact |-> x]
          /\ CASE k = "lock" -> RedoLock(n, x)
               [] k = "data" -> RedoData(n, x)
               [] k = "end" -> RedoEnd(n, x)
    <2>1. wal[r] = [kind |-> wal[r].kind, xact |-> wal[r].xact]
          /\ wal[r].kind \in {"lock", "data", "end"} /\ wal[r].xact \in Xacts
      BY <1>2 DEF Records
    <2> QED BY <2>1 DEF ApplyWalRecord
  <1>4. /\ \A m \in Replicas, y \in Xacts :
             /\ Applied(m, y)' <=> Applied(m, y) \/ (m = n /\ k = "lock" /\ y = x)
             /\ Finished(m, y)' <=> Finished(m, y) \/ (m = n /\ k = "end" /\ y = x)
        /\ k = "lock" => LockLsn(x) = r + 1
    <2>1. k = wal[startup[n].replayed].kind /\ x = wal[startup[n].replayed].xact
      BY <1>3
    <2>2. startup[n].at = "read" /\ UNCHANGED wal /\ startup' = [startup EXCEPT ![n].at = "redone"]
      BY <1>1
    <2>3. TakesEffect(n, k, x)
      BY <2>1, <2>2, RedoEffect
    <2> QED BY <2>3 DEF TakesEffect
  <1>5. /\ r \in Nat /\ 1 <= r /\ \A y : LockLsn(y)' = LockLsn(y) /\ LockLsn(y) \in Nat
        /\ alrLsn \in [Replicas -> Nat] /\ lock \in [Replicas -> [Xacts -> LockStates]]
        /\ running \in [Replicas -> [Xacts -> BOOLEAN]] /\ alrLsn[n] \in Nat /\ alrLsn[n] <= r
        /\ \A m \in Replicas : alrLsn[m] \in Nat /\ Redone(m) \in Nat /\ Redone(m)' \in Nat
    <2>1. alrLsn[n] <= r
      BY <1>2 DEF IInv, WorkersSound, WorkerOK
    <2>2. \A m \in Replicas : Redone(m)' \in Nat
      BY <1>2 DEF Redone, StartupStates
    <2> QED BY <1>1, <2>1, <2>2, Lsns0, SameWal DEF IInv, Typed
  <1>6. Bounded'
    <2>1. InsertLsn' = InsertLsn
      BY <1>1, SameWal
    <2> QED BY <1>1, <1>2, <2>1 DEF IInv, Bounded
  <1>7. WalSound' /\ ProgressSound' /\ NoQueryDuringFileOp'
    BY <1>1, WalFrame, ProgressFrame, FilesFrame DEF IInv
  <1> HIDE DEF r
  <1>8. CASE k = "lock"
    <2>1. /\ lock' = [lock EXCEPT ![n][x] = "idle"]
          /\ running' = [running EXCEPT ![n][x] = TRUE]
          /\ alrLsn' = [alrLsn EXCEPT ![n] = IF alrLsn[n] = InvalidLsn THEN r ELSE alrLsn[n]]
      BY <1>3, <1>8 DEF RedoLock, r
    <2>2. Typed'
      BY <1>1, <1>2, <1>5, <2>1 DEF IInv, Typed, LockStates
    <2>3. /\ lock'[n][x] = "idle" /\ running'[n][x]
          /\ \A m \in Replicas, y \in Xacts : m # n \/ y # x =>
               lock'[m][y] = lock[m][y] /\ running'[m][y] = running[m][y]
      BY <1>5, <2>1
    <2>4. /\ \A m \in Replicas : /\ alrLsn[m] # InvalidLsn => alrLsn'[m] = alrLsn[m]
                                 /\ m # n => alrLsn'[m] = alrLsn[m]
          /\ alrLsn'[n] # InvalidLsn /\ alrLsn'[n] <= r /\ (alrLsn[n] = InvalidLsn => alrLsn'[n] = r)
          /\ alrLsn'[n] \in Nat
      BY <1>5, <2>1 DEF InvalidLsn
    <2>5. LocksSound'
      <3>1. LockOK(n, x)'
        <4>1. Applied(n, x)' /\ alrLsn'[n] < LockLsn(x)'
          BY <1>4, <1>5, <1>8, <2>4
        <4> QED BY <2>3, <2>4, <4>1 DEF LockOK
      <3>2. ASSUME NEW m \in Replicas, NEW y \in Xacts, m # n \/ y # x
            PROVE  LockOK(m, y)'
        <4>1. LockOK(m, y) /\ (Applied(m, y)' <=> Applied(m, y)) /\ (Finished(m, y)' <=> Finished(m, y))
          BY <1>4, <1>8, <3>2 DEF IInv, LocksSound
        <4> QED BY <1>1, <1>5, <2>3, <2>4, <3>2, <4>1 DEF LockOK
      <3> QED BY <3>1, <3>2 DEF LocksSound
    <2>6. WorkersSound'
      <3>1. ASSUME NEW m \in Replicas
            PROVE  WorkerOK(m)'
        <4>1. WorkerOK(m)
          BY DEF IInv, WorkersSound
        <4>2. alrLsn'[m] <= Redone(m)'
          BY <1>2, <1>5, <2>4, <4>1 DEF WorkerOK
        <4>3. m = n => /\ lock[n][x] # "getting"
                       /\ \A y \in Xacts : lock[n][y] = "getting" => LockLsn(y) < LockLsn(x)
          <5>1. \A y \in Xacts : lock[n][y] = "getting" => LockLsn(y) <= r
            BY <1>2 DEF IInv, LocksSound, LockOK, Applied
          <5>2. LockLsn(x) = r + 1
            BY <1>4, <1>8
          <5> QED BY <1>5, <5>1, <5>2
        <4>4. \A y \in Xacts : (lock'[m][y] = "getting" <=> lock[m][y] = "getting")
          BY <2>3, <4>3
        <4>5. \A y, z \in Xacts : lock[m][y] = "getting" /\ lock'[m][z] = "idle" => LockLsn(y) < LockLsn(z)
          BY <2>3, <4>1, <4>3 DEF WorkerOK
        <4> QED BY <1>1, <1>5, <4>1, <4>2, <4>4, <4>5 DEF WorkerOK
      <3> QED BY <3>1 DEF WorkersSound
    <2>7. ReportsSound'
      BY <1>1, <1>2, <2>4 DEF IInv, ReportsSound, ReplicaOK, Reported, r
    <2> QED BY <1>6, <1>7, <2>2, <2>5, <2>6, <2>7 DEF IInv
  <1>9. CASE k \in {"data", "end"}
    <2>1. /\ UNCHANGED <<lock, alrLsn>>
          /\ running' \in [Replicas -> [Xacts -> BOOLEAN]]
          /\ \A m \in Replicas, y \in Xacts :
               running'[m][y] = running[m][y] \/ (m = n /\ k = "end" /\ y = x)
      <3>1. CASE k = "data"
        <4>1. UNCHANGED <<lock, alrLsn, running>>
          BY <1>3, <3>1 DEF RedoData
        <4> QED BY <1>5, <4>1
      <3>2. CASE k = "end"
        <4>1. UNCHANGED <<lock, alrLsn>> /\ running' = [running EXCEPT ![n][x] = FALSE]
          BY <1>3, <3>2 DEF RedoEnd
        <4> QED BY <1>5, <3>2, <4>1
      <3> QED BY <1>9, <3>1, <3>2
    <2>2. Typed'
      BY <1>1, <1>2, <2>1 DEF IInv, Typed
    <2>3. LocksSound'
      BY <1>1, <1>4, <1>5, <1>9, <2>1 DEF IInv, LocksSound, LockOK
    <2>4. WorkersSound'
      BY <1>1, <1>2, <1>5, <2>1 DEF IInv, WorkersSound, WorkerOK
    <2>5. ReportsSound'
      BY <1>1, <1>2, <2>1 DEF IInv, ReportsSound, ReplicaOK, Reported
    <2> QED BY <1>6, <1>7, <2>2, <2>3, <2>4, <2>5 DEF IInv
  <1> QED BY <1>8, <1>9

LEMMA SetReplayedIInv ==
    ASSUME IInv, NEW n \in Replicas, SetReplayed(n)
    PROVE  IInv'
  <1> DEFINE r == startup[n].replayed
  <1>1. /\ startup[n].at = "redone"
        /\ startup' = [startup EXCEPT ![n] = [replayed |-> r + 1, at |-> "none"]]
        /\ UNCHANGED <<wal, ddl, slot, snd, oldest, ddlLsn, lock, running, alrLsn, worker, query,
                       rcv, msg, alive, breaks>>
    BY DEF SetReplayed, prim, progress, alr, net
  <1>2. startup \in [Replicas -> StartupStates] /\ r \in Nat
    BY Lsns0 DEF IInv, Typed
  <1>3. /\ startup'[n].replayed = r + 1 /\ startup'[n].at = "none"
        /\ \A m \in Replicas \ {n} : startup'[m] = startup[m]
        /\ startup' \in [Replicas -> StartupStates]
    BY <1>1, <1>2 DEF StartupStates
  <1>4. \A m \in Replicas : Redone(m)' = Redone(m) /\ ReadUpTo(m)' = ReadUpTo(m)
    BY <1>1, <1>2, <1>3 DEF Redone, ReadUpTo
  <1>5. \A m \in Replicas : /\ startup[m].replayed \in Nat /\ startup'[m].replayed \in Nat
                            /\ startup[m].replayed <= startup'[m].replayed
    BY <1>2, <1>3 DEF StartupStates
  <1>6. Typed'
    BY <1>1, <1>3 DEF IInv, Typed
  <1>7. Bounded'
    <2>1. InsertLsn' = InsertLsn
      BY <1>1, SameWal
    <2> QED BY <1>1, <1>4, <1>5, <2>1 DEF IInv, Bounded
  <1>8. WalSound' /\ ProgressSound' /\ NoQueryDuringFileOp'
    BY <1>1, WalFrame, ProgressFrame, FilesFrame DEF IInv
  <1>9. LocksSound' /\ WorkersSound'
    <2>1. \A m \in Replicas, y \in Xacts :
            (Applied(m, y)' <=> Applied(m, y)) /\ (Finished(m, y)' <=> Finished(m, y))
      BY <1>1, <1>4, SameWal DEF Applied, Finished
    <2> QED BY <1>1, <1>4, <2>1, SameWal DEF IInv, LocksSound, LockOK, WorkersSound, WorkerOK
  <1>10. ReportsSound'
    <2>1. ASSUME NEW m \in Replicas, NEW p \in Nat, Reported(m, p)
          PROVE  Reported(m, p)'
      BY <1>1, <1>5, <2>1 DEF Reported
    <2>2. ASSUME NEW m \in Replicas
          PROVE  ReplicaOK(m)'
      <3>1. ReplicaOK(m)
        BY DEF IInv, ReportsSound
      <3>2. /\ rcv[m] \in Nat /\ slot[m].lock_lsn \in Nat
            /\ msg[m].apply \in Nat /\ msg[m].lock \in Nat
        BY DEF IInv, Typed, Slots, Replies
      <3> QED BY <1>1, <1>4, <1>5, <2>1, <3>1, <3>2 DEF ReplicaOK
    <2> QED BY <2>2 DEF ReportsSound
  <1> QED BY <1>6, <1>7, <1>8, <1>9, <1>10 DEF IInv

(***************************************************************************)
(* The lock replay worker.                                                 *)
(***************************************************************************)

LEMMA LockLsnInjective ==
    ASSUME IInv, NEW x, NEW y, LockLsn(x) = LockLsn(y), LockLsn(x) # InvalidLsn
    PROVE  x = y
  <1>1. /\ wal[LockLsn(x) - 1] = [kind |-> "lock", xact |-> x]
        /\ wal[LockLsn(y) - 1] = [kind |-> "lock", xact |-> y]
    BY RecordFacts DEF IInv, LockLsn
  <1>2. [kind |-> "lock", xact |-> x] = [kind |-> "lock", xact |-> y]
    BY <1>1
  <1> QED BY <1>2

\* A step of the worker of n.
WorkerAlone(n) ==
    /\ Typed'
    /\ UNCHANGED <<wal, ddl, slot, snd, oldest, ddlLsn, startup, running, query, rcv, msg, alive, breaks>>
    /\ \A m \in Replicas \ {n} :
         lock'[m] = lock[m] /\ alrLsn'[m] = alrLsn[m] /\ worker'[m] = worker[m]

\* The LSN of the worker does not go back except to InvalidLsn.
LEMMA WorkerStep ==
    ASSUME IInv, NEW n \in Replicas, WorkerAlone(n),
           alrLsn'[n] # InvalidLsn => alrLsn[n] # InvalidLsn /\ alrLsn[n] <= alrLsn'[n],
           \A x \in Xacts : LockOK(n, x)', WorkerOK(n)'
    PROVE  IInv'
  <1>1. /\ UNCHANGED <<wal, ddl, slot, snd, oldest, ddlLsn, startup, running, query, rcv, msg, alive, breaks>>
        /\ \A m \in Replicas \ {n} :
             lock'[m] = lock[m] /\ alrLsn'[m] = alrLsn[m] /\ worker'[m] = worker[m]
        /\ Typed'
    BY DEF WorkerAlone
  <1>2. Bounded' /\ WalSound' /\ ProgressSound' /\ NoQueryDuringFileOp'
    BY <1>1, BoundedFrame, WalFrame, ProgressFrame, FilesFrame DEF IInv
  <1>3. LocksSound' /\ WorkersSound'
    <2>1. ASSUME NEW m \in Replicas \ {n}
          PROVE  WorkerOK(m)' /\ \A x \in Xacts : LockOK(m, x)'
      BY <1>1, SameWal, SameReplay DEF IInv, LocksSound, LockOK, WorkersSound, WorkerOK
    <2> QED BY <2>1 DEF LocksSound, WorkersSound
  <1>4. ReportsSound'
    <2>1. \A m \in Replicas : ReadUpTo(m)' = ReadUpTo(m)
      BY <1>1, SameReplay
    <2>2. ASSUME NEW m \in Replicas, NEW p \in Nat, Reported(m, p)
          PROVE  Reported(m, p)'
      <3>1. alrLsn[m] \in Nat /\ alrLsn'[m] \in Nat
        BY <1>1, Lsns0 DEF Typed
      <3> QED BY <1>1, <2>2, <3>1 DEF Reported
    <2>3. \A m \in Replicas : slot[m].lock_lsn \in Nat /\ msg[m].lock \in Nat
      BY DEF IInv, Typed, Slots, Replies
    <2> QED BY <1>1, <2>1, <2>2, <2>3 DEF IInv, ReportsSound, ReplicaOK
  <1> QED BY <1>1, <1>2, <1>3, <1>4 DEF IInv

\* The LSN moves to the lock of x, which is the first of those not yet taken.
LEMMA NextLock ==
    ASSUME IInv, NEW n \in Replicas, NEW x \in Xacts, WorkerAlone(n),
           lock[n][x] \in {"idle", "getting"}, lock'[n][x] \in {"skip", "got"},
           lock'[n][x] = "skip" => Finished(n, x), lock'[n][x] = "got" => ~query[n][x],
           \A y \in Xacts : y # x =>
             /\ lock'[n][y] = lock[n][y] /\ lock[n][y] # "getting"
             /\ lock[n][y] = "idle" => LockLsn(x) < LockLsn(y),
           alrLsn'[n] = LockLsn(x), worker'[n] = "release"
    PROVE  IInv'
  <1>1. LockOK(n, x) /\ Applied(n, x) /\ alrLsn[n] # InvalidLsn /\ alrLsn[n] < LockLsn(x)
    BY DEF IInv, LocksSound, LockOK
  <1>2. /\ LockLsn(x) \in Nat /\ alrLsn[n] <= LockLsn(x) /\ LockLsn(x) <= Redone(n)
        /\ LockLsn(x) # InvalidLsn
    BY <1>1, Lsns0 DEF Applied
  <1>3. UNCHANGED <<wal, startup, running, query>>
    BY DEF WorkerAlone
  <1>4. \A y \in Xacts : LockOK(n, y)'
    <2>1. LockOK(n, x)'
      BY <1>1, <1>3, SameWal, SameReplay DEF LockOK
    <2>2. ASSUME NEW y \in Xacts, y # x
          PROVE  LockOK(n, y)'
      <3>1. LockOK(n, y) /\ lock'[n][y] = lock[n][y] /\ lock[n][y] # "getting"
            /\ (lock[n][y] = "idle" => LockLsn(x) < LockLsn(y))
        BY <2>2 DEF IInv, LocksSound
      <3> QED BY <1>2, <1>3, <3>1, SameWal, SameReplay DEF LockOK
    <2> QED BY <2>1, <2>2
  <1>5. WorkerOK(n)'
    <2>1. \A y \in Xacts : lock'[n][y] # "getting"
      OBVIOUS
    <2> QED BY <1>2, <1>3, <2>1, SameReplay DEF WorkerOK
  <1> QED BY <1>1, <1>2, <1>4, <1>5, WorkerStep

LEMMA GotLockIInv ==
    ASSUME IInv, NEW n \in Replicas, NEW x \in Xacts, GotLock(n, x)
    PROVE  IInv'
  <1>1. /\ lock[n][x] = "getting" /\ ~query[n][x]
        /\ lock' = [lock EXCEPT ![n][x] = "got"]
        /\ alrLsn' = [alrLsn EXCEPT ![n] = LockLsn(x)]
        /\ worker' = [worker EXCEPT ![n] = "release"]
        /\ UNCHANGED <<wal, ddl, slot, snd, oldest, ddlLsn, startup, running, query, rcv, msg, alive, breaks>>
    BY DEF GotLock, prim, progress, net
  <1>2. LockLsn(x) \in Nat /\ lock \in [Replicas -> [Xacts -> LockStates]]
    BY Lsns0 DEF IInv, Typed
  <1>3. WorkerAlone(n)
    <2>1. Typed'
      BY <1>1, <1>2 DEF IInv, Typed, LockStates
    <2> QED BY <1>1, <2>1 DEF WorkerAlone, IInv, Typed
  <1>4. /\ lock'[n][x] = "got" /\ \A y \in Xacts : y # x => lock'[n][y] = lock[n][y]
        /\ alrLsn'[n] = LockLsn(x) /\ worker'[n] = "release"
    BY <1>1, <1>2 DEF IInv, Typed
  <1>5. \A y \in Xacts : y # x => /\ lock[n][y] # "getting"
                                  /\ lock[n][y] = "idle" => LockLsn(x) < LockLsn(y)
    BY <1>1 DEF IInv, WorkersSound, WorkerOK
  <1> QED BY <1>1, <1>3, <1>4, <1>5, NextLock

LEMMA PopLockIInv ==
    ASSUME IInv, NEW n \in Replicas, PopLock(n)
    PROVE  IInv'
  <1>1. /\ worker[n] = "acquire"
        /\ UNCHANGED <<wal, ddl, slot, snd, oldest, ddlLsn, startup, running, query, rcv, msg, alive, breaks>>
    BY DEF PopLock, prim, progress, net
  <1>2. /\ lock \in [Replicas -> [Xacts -> LockStates]]
        /\ alrLsn \in [Replicas -> Nat] /\ alrLsn[n] \in Nat
        /\ worker \in [Replicas -> {"acquire", "getting", "release"}]
        /\ alrLsn[n] <= Redone(n) /\ Redone(n) \in Nat
        /\ \A y \in Xacts : lock[n][y] # "getting" /\ LockOK(n, y) /\ LockLsn(y) \in Nat
    <2>1. alrLsn[n] <= Redone(n) /\ \A y \in Xacts : lock[n][y] # "getting" /\ LockOK(n, y)
      BY <1>1 DEF IInv, WorkersSound, WorkerOK, LocksSound
    <2> QED BY <2>1, Lsns0 DEF IInv, Typed
  <1>3. ASSUME \A x \in Xacts : lock[n][x] # "idle",
               alrLsn' = [alrLsn EXCEPT ![n] = InvalidLsn], UNCHANGED lock,
               NEW wk \in {"acquire", "release"}, worker' = [worker EXCEPT ![n] = wk]
        PROVE  IInv'
    <2>1. WorkerAlone(n)
      BY <1>1, <1>2, <1>3 DEF WorkerAlone, IInv, Typed, InvalidLsn
    <2>2. lock'[n] = lock[n] /\ alrLsn'[n] = InvalidLsn /\ worker'[n] = wk
      BY <1>2, <1>3
    <2>3. \A x \in Xacts : LockOK(n, x)'
      BY <1>1, <1>2, <1>3, <2>2, SameWal, SameReplay DEF LockOK
    <2>4. WorkerOK(n)'
      <3>1. InvalidLsn <= Redone(n)
        BY <1>2 DEF InvalidLsn
      <3> QED BY <1>1, <1>2, <1>3, <2>2, <3>1, SameReplay DEF WorkerOK
    <2> QED BY <2>1, <2>2, <2>3, <2>4, WorkerStep
  <1>4. ASSUME NEW x \in Xacts, IsHead(n, x)
        PROVE  lock[n][x] = "idle" /\ \A y \in Xacts : y # x /\ lock[n][y] = "idle" => LockLsn(x) < LockLsn(y)
    <2>1. lock[n][x] = "idle" /\ LockLsn(x) # InvalidLsn
      BY <1>2, <1>4 DEF IsHead, LockOK, Applied
    <2>2. ASSUME NEW y \in Xacts, y # x, lock[n][y] = "idle"
          PROVE  LockLsn(x) < LockLsn(y)
      <3>1. LockLsn(x) <= LockLsn(y)
        BY <1>4, <2>2 DEF IsHead
      <3>2. LockLsn(x) # LockLsn(y)
        BY <2>1, <2>2, LockLsnInjective
      <3> QED BY <3>1, <3>2, Lsns0
    <2> QED BY <2>1, <2>2
  <1>5. ASSUME NEW x \in Xacts, IsHead(n, x), Finished(n, x),
               lock' = [lock EXCEPT ![n][x] = "skip"],
               alrLsn' = [alrLsn EXCEPT ![n] = LockLsn(x)],
               worker' = [worker EXCEPT ![n] = "release"]
        PROVE  IInv'
    <2>1. /\ lock'[n][x] = "skip" /\ \A y \in Xacts : y # x => lock'[n][y] = lock[n][y]
          /\ alrLsn'[n] = LockLsn(x) /\ worker'[n] = "release"
      BY <1>2, <1>5
    <2>2. WorkerAlone(n)
      <3>1. Typed'
        BY <1>1, <1>2, <1>5 DEF IInv, Typed, LockStates
      <3> QED BY <1>1, <1>2, <1>5, <3>1 DEF WorkerAlone
    <2> QED BY <1>2, <1>4, <1>5, <2>1, <2>2, NextLock
  <1>6. ASSUME NEW x \in Xacts, IsHead(n, x),
               lock' = [lock EXCEPT ![n][x] = "getting"], UNCHANGED alrLsn,
               worker' = [worker EXCEPT ![n] = "getting"]
        PROVE  IInv'
    <2>1. /\ lock'[n][x] = "getting" /\ \A y \in Xacts : y # x => lock'[n][y] = lock[n][y]
          /\ alrLsn'[n] = alrLsn[n] /\ worker'[n] = "getting"
      BY <1>2, <1>6
    <2>2. WorkerAlone(n)
      <3>1. Typed'
        BY <1>1, <1>2, <1>6 DEF IInv, Typed, LockStates
      <3> QED BY <1>1, <1>2, <1>6, <3>1 DEF WorkerAlone
    <2>3. lock[n][x] = "idle" /\ \A y \in Xacts : y # x /\ lock[n][y] = "idle" => LockLsn(x) < LockLsn(y)
      BY <1>4, <1>6
    <2>4. \A y \in Xacts : LockOK(n, y)'
      BY <1>1, <1>2, <2>1, <2>3, SameWal, SameReplay DEF LockOK
    <2>5. WorkerOK(n)'
      BY <1>1, <1>2, <2>1, <2>3, SameWal, SameReplay DEF WorkerOK
    <2>6. alrLsn[n] <= alrLsn'[n] /\ alrLsn[n] = alrLsn'[n]
      BY <1>2, <2>1
    <2> QED BY <2>2, <2>4, <2>5, <2>6, WorkerStep
  <1> QED BY <1>1, <1>3, <1>5, <1>6 DEF PopLock

LEMMA ReleaseXactsIInv ==
    ASSUME IInv, NEW n \in Replicas, ReleaseXacts(n)
    PROVE  IInv'
  <1> DEFINE lk == [x \in Xacts |-> IF running[n][x] THEN lock[n][x] ELSE "none"]
  <1>1. /\ worker[n] = "release" /\ lock' = [lock EXCEPT ![n] = lk]
        /\ worker' = [worker EXCEPT ![n] = "acquire"]
        /\ UNCHANGED <<wal, ddl, slot, snd, oldest, ddlLsn, startup, running, alrLsn, query, rcv, msg,
                       alive, breaks>>
    BY DEF ReleaseXacts, prim, progress, net
  <1>2. /\ lock[n] \in [Xacts -> LockStates] /\ lk \in [Xacts -> LockStates]
        /\ alrLsn[n] \in Nat /\ alrLsn[n] <= Redone(n)
        /\ \A y \in Xacts : lock[n][y] # "getting" /\ LockOK(n, y)
    BY <1>1 DEF IInv, Typed, LockStates, WorkersSound, WorkerOK, LocksSound
  <1>3. \A y \in Xacts : (running[n][y] /\ lk[y] = lock[n][y]) \/ (~running[n][y] /\ lk[y] = "none")
    OBVIOUS
  <1> HIDE DEF lk
  <1>4. lock'[n] = lk /\ alrLsn'[n] = alrLsn[n] /\ worker'[n] = "acquire"
    BY <1>1, <1>2 DEF IInv, Typed
  <1>5. WorkerAlone(n)
    <2>1. Typed'
      BY <1>1, <1>2 DEF IInv, Typed
    <2> QED BY <1>1, <2>1 DEF WorkerAlone, IInv, Typed
  <1>6. \A y \in Xacts : LockOK(n, y)'
    BY <1>1, <1>2, <1>3, <1>4, SameWal, SameReplay DEF LockOK
  <1>7. WorkerOK(n)'
    BY <1>1, <1>2, <1>3, <1>4, SameWal, SameReplay DEF WorkerOK
  <1>8. alrLsn[n] <= alrLsn'[n]
    BY <1>2, <1>4
  <1> QED BY <1>4, <1>5, <1>6, <1>7, <1>8, WorkerStep

(***************************************************************************)
(* The walsenders.                                                         *)
(***************************************************************************)

\* Slots that only advance, and walsenders that set nothing new, keep the primary
\* behind the replicas.
LEMMA ProgressGrows ==
    ASSUME IInv, Typed', UNCHANGED <<wal, ddl, oldest, ddlLsn>>,
           \A m \in Replicas : alive'[m] =>
             /\ alive[m]
             /\ slot[m].apply_lsn <= slot'[m].apply_lsn /\ slot[m].lock_lsn <= slot'[m].lock_lsn,
           \A m \in Replicas : snd'[m].pc = "set" => snd[m].pc = "set" /\ snd'[m].oldest = snd[m].oldest
    PROVE  ProgressSound'
  <1> SUFFICES ASSUME NEW n \in Replicas, alive'[n]
               PROVE  ProgressOK(n)'
    BY DEF ProgressSound
  <1>1. ProgressOK(n) /\ slot[n].apply_lsn <= slot'[n].apply_lsn /\ slot[n].lock_lsn <= slot'[n].lock_lsn
    BY DEF IInv, ProgressSound
  <1>2. /\ slot[n].apply_lsn \in Nat /\ slot'[n].apply_lsn \in Nat
        /\ slot[n].lock_lsn \in Nat /\ slot'[n].lock_lsn \in Nat
        /\ oldest \in Nat /\ ddlLsn \in Nat /\ \A m \in Replicas : snd[m].oldest \in Nat
        /\ \A x : LockLsn(x)' = LockLsn(x) /\ LockLsn(x) \in Nat
    BY SameWal, Lsns0 DEF IInv, Typed, Slots, Senders
  <1>3. \A p \in Nat : /\ p <= slot[n].apply_lsn => p <= slot'[n].apply_lsn
                       /\ p <= slot[n].lock_lsn => p <= slot'[n].lock_lsn
    BY <1>1, <1>2
  <1> QED BY <1>1, <1>2, <1>3 DEF ProgressOK

LEMMA RecordReplicaLsnIInv ==
    ASSUME IInv, NEW n \in Replicas, RecordReplicaLsn(n)
    PROVE  IInv' /\ slot[n].lock_lsn <= slot'[n].lock_lsn
  <1> DEFINE new == Recorded(n, msg[n].apply, msg[n].lock)
             q == [IdleSnd EXCEPT !.pc = IF new # slot[n] THEN "compute" ELSE "release", !.reply = TRUE]
  <1>1. /\ msg[n] # NoMsg /\ slot' = [slot EXCEPT ![n] = new] /\ snd' = [snd EXCEPT ![n] = q]
        /\ msg' = [msg EXCEPT ![n] = NoMsg]
        /\ UNCHANGED <<wal, ddl, oldest, ddlLsn, startup, lock, running, alrLsn, worker, query,
                       rcv, alive, breaks>>
    BY DEF RecordReplicaLsn, prim, alr
  <1>2. /\ slot[n] \in Slots /\ msg[n] \in Replies
        /\ slot[n].apply_lsn \in Nat /\ slot[n].lock_lsn \in Nat /\ slot[n].in_use \in BOOLEAN
        /\ msg[n].apply \in Nat /\ msg[n].lock \in Nat /\ startup[n].replayed \in Nat
        /\ ReadUpTo(n) \in Nat /\ InsertLsn \in Nat
        /\ startup[n].replayed <= ReadUpTo(n) /\ ReadUpTo(n) <= InsertLsn
    <2>1. startup[n].replayed <= ReadUpTo(n)
      BY Lsns0 DEF Redone
    <2> QED BY <2>1, Lsns0 DEF IInv, Typed, Slots, Replies
  <1>3. /\ alive[n] /\ slot[n].in_use /\ 1 <= slot[n].apply_lsn /\ slot[n].apply_lsn <= ReadUpTo(n)
        /\ 1 <= slot[n].lock_lsn /\ slot[n].lock_lsn <= msg[n].lock /\ Reported(n, msg[n].lock)
        /\ msg[n].apply <= startup[n].replayed /\ rcv[n] = InvalidLsn
    BY <1>1 DEF IInv, ReportsSound, ReplicaOK
  <1>4. /\ new \in Slots /\ new.in_use = slot[n].in_use
        /\ new.lock_lsn = msg[n].lock /\ new.apply_lsn = MaxLsnOf(slot[n].apply_lsn, msg[n].apply)
    <2>1. msg[n].lock # InvalidLsn
      BY <1>2, <1>3 DEF InvalidLsn
    <2>2. MaxLsnOf(slot[n].apply_lsn, msg[n].apply) \in Nat
      BY <1>2 DEF MaxLsnOf
    <2> QED BY <1>2, <2>1, <2>2 DEF Recorded, Slots
  <1>5. /\ slot[n].apply_lsn <= new.apply_lsn /\ new.apply_lsn <= ReadUpTo(n)
        /\ 1 <= new.apply_lsn /\ new.apply_lsn \in Nat
    BY <1>2, <1>3, <1>4 DEF MaxLsnOf
  <1>6. q \in Senders /\ q.pc # "set" /\ q.oldest = 0
    BY DEF IdleSnd, Senders, InvalidLsn
  <1> HIDE DEF new, q
  <1>7. /\ slot'[n] = new /\ snd'[n] = q /\ msg'[n] = NoMsg
        /\ \A m \in Replicas \ {n} : slot'[m] = slot[m] /\ snd'[m] = snd[m] /\ msg'[m] = msg[m]
    BY <1>1 DEF IInv, Typed
  <1>8. Typed'
    <2>1. NoMsg \in Replies
      BY DEF NoMsg, Replies, InvalidLsn
    <2> QED BY <1>1, <1>4, <1>6, <2>1 DEF IInv, Typed
  <1>9. Bounded'
    <2>1. new.lock_lsn <= InsertLsn /\ new.apply_lsn <= InsertLsn /\ q.oldest <= InsertLsn
      BY <1>2, <1>3, <1>4, <1>5, <1>6 DEF Reported
    <2>2. InsertLsn' = InsertLsn /\ \A m : ReadUpTo(m)' = ReadUpTo(m)
      BY <1>1, SameWal, SameReplay
    <2> QED BY <1>1, <1>7, <2>1, <2>2 DEF IInv, Bounded
  <1>10. WalSound' /\ LocksSound' /\ WorkersSound' /\ NoQueryDuringFileOp'
    BY <1>1, WalFrame, AlrFrame, FilesFrame DEF IInv
  <1>11. ReportsSound'
    <2>1. ReplicaOK(n)'
      <3>1. 1 <= new.lock_lsn /\ Reported(n, new.lock_lsn)
        BY <1>2, <1>3, <1>4
      <3>2. ReadUpTo(n)' = ReadUpTo(n)
        BY <1>1, SameReplay
      <3> QED BY <1>1, <1>3, <1>4, <1>5, <1>7, <3>1, <3>2 DEF ReplicaOK, Reported
    <2>2. ASSUME NEW m \in Replicas \ {n}
          PROVE  ReplicaOK(m)'
      BY <1>1, <1>7, SameReplay DEF IInv, ReportsSound, ReplicaOK, Reported
    <2> QED BY <2>1, <2>2 DEF ReportsSound
  <1>12. slot[n].lock_lsn <= slot'[n].lock_lsn
    BY <1>3, <1>4, <1>7
  <1>13. ProgressSound'
    <2>1. \A m \in Replicas : /\ slot[m].apply_lsn <= slot'[m].apply_lsn
                              /\ slot[m].lock_lsn <= slot'[m].lock_lsn
      <3>1. \A m \in Replicas : slot[m].apply_lsn \in Nat /\ slot[m].lock_lsn \in Nat
        BY DEF IInv, Typed, Slots
      <3> QED BY <1>5, <1>7, <1>12, <3>1
    <2>2. \A m \in Replicas : snd'[m].pc = "set" => snd[m].pc = "set" /\ snd'[m].oldest = snd[m].oldest
      BY <1>6, <1>7
    <2> QED BY <1>1, <1>8, <2>1, <2>2, ProgressGrows
  <1> QED BY <1>8, <1>9, <1>10, <1>11, <1>12, <1>13 DEF IInv

LEMMA ComputeReplicaLsnIInv ==
    ASSUME IInv, NEW n \in Replicas, ComputeReplicaLsn(n)
    PROVE  IInv'
  <1> DEFINE A == {slot[m].apply_lsn : m \in ApplySlots}
             v == IF ApplySlots = {} THEN InvalidLsn ELSE Min(A)
             q == [snd[n] EXCEPT !.pc = "set", !.oldest = v]
  <1>1. /\ snd' = [snd EXCEPT ![n] = q]
        /\ UNCHANGED <<wal, ddl, slot, oldest, ddlLsn, startup, lock, running, alrLsn, worker, query,
                       rcv, msg, alive, breaks>>
    BY DEF ComputeReplicaLsn, prim, alr, net
  <1>2. \A m \in Replicas : slot[m].apply_lsn \in Nat /\ slot[m].apply_lsn <= InsertLsn
    BY DEF IInv, Typed, Slots, Bounded
  <1>3. A \subseteq Nat /\ (ApplySlots # {} => A # {})
    BY <1>2 DEF ApplySlots
  <1>4. /\ v \in Nat /\ v <= InsertLsn
        /\ \A m \in Replicas : alive[m] => v # InvalidLsn /\ v <= slot[m].apply_lsn
    <2>1. CASE ApplySlots = {}
      <3>1. v = 0 /\ InsertLsn \in Nat
        BY <2>1, Lsns0 DEF InvalidLsn
      <3>2. \A m \in Replicas : ~alive[m]
        BY <1>2, <2>1 DEF ApplySlots, IInv, ReportsSound, ReplicaOK, InvalidLsn
      <3> QED BY <3>1, <3>2
    <2>2. CASE ApplySlots # {}
      <3>1. v \in A /\ \A p \in A : v <= p
        BY <1>3, <2>2, MinOf
      <3> HIDE DEF v
      <3>2. PICK k \in ApplySlots : v = slot[k].apply_lsn
        BY <3>1
      <3>3. v \in Nat /\ v <= InsertLsn /\ v # InvalidLsn
        BY <1>2, <3>2 DEF ApplySlots
      <3>4. \A m \in Replicas : alive[m] => slot[m].apply_lsn \in A
        BY <1>2 DEF ApplySlots, IInv, ReportsSound, ReplicaOK, InvalidLsn
      <3> QED BY <3>1, <3>3, <3>4
    <2> QED BY <2>1, <2>2
  <1> HIDE DEF v
  <1>5. q \in Senders /\ q.pc = "set" /\ q.oldest = v
    BY <1>4 DEF IInv, Typed, Senders
  <1> HIDE DEF q
  <1>6. snd'[n] = q /\ \A m \in Replicas \ {n} : snd'[m] = snd[m]
    BY <1>1 DEF IInv, Typed
  <1>7. Typed'
    BY <1>1, <1>5 DEF IInv, Typed
  <1>8. Bounded'
    <2>1. InsertLsn' = InsertLsn /\ \A m : ReadUpTo(m)' = ReadUpTo(m)
      BY <1>1, SameWal, SameReplay
    <2> QED BY <1>1, <1>4, <1>5, <1>6, <2>1 DEF IInv, Bounded
  <1>9. WalSound' /\ LocksSound' /\ WorkersSound' /\ ReportsSound' /\ NoQueryDuringFileOp'
    BY <1>1, WalFrame, AlrFrame, ReportsFrame, FilesFrame DEF IInv
  <1>10. ProgressSound'
    BY <1>1, <1>4, <1>5, <1>6, SameWal DEF IInv, ProgressSound, ProgressOK
  <1> QED BY <1>7, <1>8, <1>9, <1>10 DEF IInv

LEMMA SetOldestReplicaLsnIInv ==
    ASSUME IInv, NEW n \in Replicas, SetOldestReplicaLsn(n)
    PROVE  IInv'
  <1> DEFINE q == [IdleSnd EXCEPT !.pc = IF snd[n].reply THEN "release" ELSE "idle"]
             v == IF snd[n].oldest = InvalidLsn THEN InvalidLsn ELSE MaxLsnOf(oldest, snd[n].oldest)
  <1>1. /\ snd[n].pc = "set" /\ snd' = [snd EXCEPT ![n] = q] /\ oldest' = v
        /\ UNCHANGED <<wal, ddl, slot, ddlLsn, startup, lock, running, alrLsn, worker, query,
                       rcv, msg, alive, breaks>>
    BY DEF SetOldestReplicaLsn, prim, alr, net
  <1>2. /\ oldest \in Nat /\ snd[n].oldest \in Nat /\ oldest <= InsertLsn /\ snd[n].oldest <= InsertLsn
        /\ InsertLsn \in Nat /\ \A m \in Replicas : slot[m].apply_lsn \in Nat
    BY Lsns0 DEF IInv, Typed, Senders, Slots, Bounded
  <1>3. v \in Nat /\ v <= InsertLsn
    BY <1>2 DEF MaxLsnOf, InvalidLsn
  <1>4. ASSUME NEW m \in Replicas, alive[m]
        PROVE  v # InvalidLsn /\ v <= slot[m].apply_lsn
    <2>1. /\ snd[n].oldest # InvalidLsn /\ snd[n].oldest <= slot[m].apply_lsn
          /\ oldest # InvalidLsn /\ oldest <= slot[m].apply_lsn
      BY <1>1, <1>4 DEF IInv, ProgressSound, ProgressOK
    <2> QED BY <1>2, <2>1 DEF MaxLsnOf
  <1>5. q \in Senders /\ q.pc # "set" /\ q.oldest = 0
    BY DEF IdleSnd, Senders, InvalidLsn
  <1> HIDE DEF v, q
  <1>6. snd'[n] = q /\ \A m \in Replicas \ {n} : snd'[m] = snd[m]
    BY <1>1 DEF IInv, Typed
  <1>7. Typed'
    BY <1>1, <1>3, <1>5 DEF IInv, Typed
  <1>8. Bounded'
    <2>1. InsertLsn' = InsertLsn /\ \A m : ReadUpTo(m)' = ReadUpTo(m)
      BY <1>1, SameWal, SameReplay
    <2>2. q.oldest <= InsertLsn
      BY <1>2, <1>5
    <2> QED BY <1>1, <1>3, <1>6, <2>1, <2>2 DEF IInv, Bounded
  <1>9. WalSound' /\ LocksSound' /\ WorkersSound' /\ ReportsSound' /\ NoQueryDuringFileOp'
    BY <1>1, WalFrame, AlrFrame, ReportsFrame, FilesFrame DEF IInv
  <1>10. ProgressSound'
    BY <1>1, <1>4, <1>5, <1>6, SameWal DEF IInv, ProgressSound, ProgressOK
  <1> QED BY <1>7, <1>8, <1>9, <1>10 DEF IInv

\* polar_release_ddl_waiters looks at the slots of all replicas that run.
LEMMA Release ==
    ASSUME IInv, NEW ds \in SUBSET Replicas, \A m \in Replicas : alive[m] => m \in ds,
           ReleaseDdlWaiters(ds)
    PROVE  /\ ddlLsn' \in Nat /\ ddlLsn' <= InsertLsn
           /\ \A m \in Replicas : alive[m] => ddlLsn' <= slot[m].lock_lsn
           /\ ddl' \in [Xacts -> DdlStates]
           /\ \A x \in Xacts : ddl'[x] # ddl[x] =>
                /\ ddl[x] = "waiting" /\ ddl'[x] = "op"
                /\ \A m \in Replicas : alive[m] => LockLsn(x) <= slot[m].lock_lsn
  <1> DEFINE A == {slot[m].lock_lsn : m \in ds}
             p == IF ds = {} THEN InvalidLsn ELSE Min(A)
             raise == (\A m \in ds : slot[m].active) /\ ddlLsn < p
  <1>1. /\ ddlLsn' = IF raise THEN p ELSE ddlLsn
        /\ ddl' = [x \in Xacts |-> IF ddl[x] = "waiting" /\ (ds = {} \/ (raise /\ LockLsn(x) <= p))
                                   THEN "op" ELSE ddl[x]]
    BY DEF ReleaseDdlWaiters
  <1>2. /\ \A m \in Replicas : slot[m].lock_lsn \in Nat /\ slot[m].lock_lsn <= InsertLsn
        /\ ddlLsn \in Nat /\ ddlLsn <= InsertLsn /\ InsertLsn \in Nat
        /\ \A m \in Replicas : alive[m] => ddlLsn <= slot[m].lock_lsn
    BY Lsns0 DEF IInv, Typed, Slots, Bounded, ProgressSound, ProgressOK
  <1>3. p \in Nat /\ p <= InsertLsn /\ \A m \in ds : p <= slot[m].lock_lsn
    <2>1. CASE ds = {}
      BY <1>2, <2>1 DEF InvalidLsn
    <2>2. CASE ds # {}
      <3>1. A \subseteq Nat /\ A # {}
        BY <1>2, <2>2
      <3>2. p \in A /\ \A k \in A : p <= k
        BY <2>2, <3>1, MinOf
      <3> HIDE DEF p
      <3> QED BY <1>2, <3>2
    <2> QED BY <2>1, <2>2
  <1> HIDE DEF p, raise
  <1>4. ddlLsn' = p \/ ddlLsn' = ddlLsn
    BY <1>1
  <1>5. ddl \in [Xacts -> DdlStates]
    BY DEF IInv, Typed
  <1>6. ASSUME NEW x \in Xacts, ddl'[x] # ddl[x]
        PROVE  /\ ddl[x] = "waiting" /\ ddl'[x] = "op"
               /\ \A m \in Replicas : alive[m] => LockLsn(x) <= slot[m].lock_lsn
    <2>1. ddl[x] = "waiting" /\ ddl'[x] = "op" /\ (ds = {} \/ LockLsn(x) <= p)
      BY <1>1, <1>6
    <2>2. LockLsn(x) \in Nat
      BY Lsns0
    <2> QED BY <1>2, <1>3, <2>1, <2>2
  <1>7. ddl' \in [Xacts -> DdlStates]
    BY <1>1, <1>5 DEF DdlStates
  <1> QED BY <1>2, <1>3, <1>4, <1>6, <1>7

LEMMA WakeWaitersIInv ==
    ASSUME IInv, NEW n \in Replicas, WakeWaiters(n)
    PROVE  IInv'
  <1>1. /\ snd' = [snd EXCEPT ![n] = IdleSnd] /\ ReleaseDdlWaiters(DdlSlots)
        /\ UNCHANGED <<wal, slot, oldest, startup, lock, running, alrLsn, worker, query,
                       rcv, msg, alive, breaks>>
    BY DEF WakeWaiters, alr, net
  <1>2. DdlSlots \in SUBSET Replicas /\ \A m \in Replicas : alive[m] => m \in DdlSlots
    <2>1. \A m \in Replicas : slot[m].lock_lsn \in Nat
      BY DEF IInv, Typed, Slots
    <2> QED BY <2>1 DEF DdlSlots, IInv, ReportsSound, ReplicaOK, InvalidLsn
  <1>3. /\ ddlLsn' \in Nat /\ ddlLsn' <= InsertLsn
        /\ \A m \in Replicas : alive[m] => ddlLsn' <= slot[m].lock_lsn
        /\ ddl' \in [Xacts -> DdlStates]
        /\ \A x \in Xacts : ddl'[x] # ddl[x] =>
             /\ ddl[x] = "waiting" /\ ddl'[x] = "op"
             /\ \A m \in Replicas : alive[m] => LockLsn(x) <= slot[m].lock_lsn
    BY <1>1, <1>2, Release
  <1>4. IdleSnd \in Senders /\ IdleSnd.pc # "set" /\ IdleSnd.oldest = 0
    BY DEF IdleSnd, Senders, InvalidLsn
  <1>5. snd'[n] = IdleSnd /\ \A m \in Replicas \ {n} : snd'[m] = snd[m]
    BY <1>1 DEF IInv, Typed
  <1>6. Typed'
    BY <1>1, <1>3, <1>4 DEF IInv, Typed
  <1>7. Bounded'
    <2>1. InsertLsn' = InsertLsn /\ \A m : ReadUpTo(m)' = ReadUpTo(m)
      BY <1>1, SameWal, SameReplay
    <2>2. IdleSnd.oldest <= InsertLsn
      BY <1>4, Lsns0
    <2> QED BY <1>1, <1>3, <1>5, <2>1, <2>2 DEF IInv, Bounded
  <1>8. LocksSound' /\ WorkersSound' /\ ReportsSound'
    BY <1>1, AlrFrame, ReportsFrame DEF IInv
  <1>9. WalSound' /\ NoQueryDuringFileOp'
    BY <1>1, <1>3, GoOn
  <1>10. ProgressSound'
    BY <1>1, <1>3, <1>4, <1>5, SameWal DEF IInv, ProgressSound, ProgressOK
  <1> QED BY <1>6, <1>7, <1>8, <1>9, <1>10 DEF IInv

(***************************************************************************)
(* Connections that break, replicas that die, slots that are dropped.      *)
(***************************************************************************)

LEMMA DropSlotIInv ==
    ASSUME IInv, NEW n \in Replicas, DropSlot(n)
    PROVE  IInv' /\ ~slot'[n].in_use
  <1>1. /\ ~alive[n] /\ slot' = [slot EXCEPT ![n] = NoSlot] /\ snd' = [snd EXCEPT ![n].pc = "compute"]
        /\ ReleaseDdlWaiters(DdlSlots \ {n})
        /\ UNCHANGED <<wal, oldest, startup, lock, running, alrLsn, worker, query, rcv, msg, alive, breaks>>
    BY DEF DropSlot, alr, net
  <1>2. DdlSlots \ {n} \in SUBSET Replicas /\ \A m \in Replicas : alive[m] => m \in DdlSlots \ {n}
    <2>1. \A m \in Replicas : slot[m].lock_lsn \in Nat
      BY DEF IInv, Typed, Slots
    <2> QED BY <1>1, <2>1 DEF DdlSlots, IInv, ReportsSound, ReplicaOK, InvalidLsn
  <1>3. /\ ddlLsn' \in Nat /\ ddlLsn' <= InsertLsn
        /\ \A m \in Replicas : alive[m] => ddlLsn' <= slot[m].lock_lsn
        /\ ddl' \in [Xacts -> DdlStates]
        /\ \A x \in Xacts : ddl'[x] # ddl[x] =>
             /\ ddl[x] = "waiting" /\ ddl'[x] = "op"
             /\ \A m \in Replicas : alive[m] => LockLsn(x) <= slot[m].lock_lsn
    BY <1>1, <1>2, Release
  <1>4. /\ NoSlot \in Slots /\ NoSlot.apply_lsn = 0 /\ NoSlot.lock_lsn = 0 /\ NoSlot.in_use = FALSE
    BY DEF NoSlot, Slots, InvalidLsn
  <1>5. /\ slot'[n] = NoSlot /\ \A m \in Replicas \ {n} : slot'[m] = slot[m] /\ snd'[m] = snd[m]
        /\ snd'[n] \in Senders /\ snd'[n].pc = "compute" /\ snd'[n].oldest = snd[n].oldest
    <2>1. /\ slot'[n] = NoSlot /\ \A m \in Replicas \ {n} : slot'[m] = slot[m] /\ snd'[m] = snd[m]
          /\ snd'[n] = [snd[n] EXCEPT !.pc = "compute"] /\ snd[n] \in Senders
      BY <1>1 DEF IInv, Typed
    <2> QED BY <2>1 DEF Senders
  <1>6. Typed'
    <2>1. slot' \in [Replicas -> Slots]
      BY <1>1, <1>4 DEF IInv, Typed
    <2>2. snd' \in [Replicas -> Senders]
      BY <1>1, <1>5 DEF IInv, Typed
    <2> QED BY <1>1, <1>3, <2>1, <2>2 DEF IInv, Typed
  <1>7. Bounded'
    <2>1. InsertLsn' = InsertLsn /\ \A m : ReadUpTo(m)' = ReadUpTo(m)
      BY <1>1, SameWal, SameReplay
    <2>2. 0 <= InsertLsn
      BY Lsns0
    <2> QED BY <1>1, <1>3, <1>4, <1>5, <2>1, <2>2 DEF IInv, Bounded
  <1>8. LocksSound' /\ WorkersSound'
    BY <1>1, AlrFrame DEF IInv
  <1>9. WalSound' /\ NoQueryDuringFileOp'
    BY <1>1, <1>3, GoOn
  <1>10. ProgressSound'
    <2>1. \A m \in Replicas : snd'[m].pc = "set" => snd[m].pc = "set" /\ snd'[m].oldest = snd[m].oldest
      BY <1>5
    <2>2. \A m \in Replicas : alive[m] => slot'[m] = slot[m]
      BY <1>1, <1>5
    <2> QED BY <1>1, <1>3, <2>1, <2>2, SameWal DEF IInv, ProgressSound, ProgressOK
  <1>11. ReportsSound'
    <2>1. rcv[n] = InvalidLsn /\ msg[n] = NoMsg
      BY <1>1 DEF IInv, ReportsSound, ReplicaOK
    <2>2. \A m : ReadUpTo(m)' = ReadUpTo(m)
      BY <1>1, SameReplay
    <2> QED BY <1>1, <1>5, <2>1, <2>2 DEF IInv, ReportsSound, ReplicaOK, Reported
  <1> QED BY <1>4, <1>5, <1>6, <1>7, <1>8, <1>9, <1>10, <1>11 DEF IInv

LEMMA DisconnectIInv ==
    ASSUME IInv, NEW n \in Replicas, Disconnect(n)
    PROVE  IInv' /\ slot'[n].lock_lsn = slot[n].lock_lsn
  <1>1. /\ breaks < MaxDisconnects /\ breaks' = breaks + 1
        /\ slot' = [slot EXCEPT ![n].active = FALSE] /\ snd' = [snd EXCEPT ![n] = IdleSnd]
        /\ msg' = [msg EXCEPT ![n] = NoMsg] /\ rcv' = [rcv EXCEPT ![n] = InvalidLsn]
        /\ UNCHANGED <<wal, ddl, oldest, ddlLsn, startup, lock, running, alrLsn, worker, query, alive>>
    BY DEF Disconnect, Cut, prim, alr
  <1>2. IdleSnd \in Senders /\ IdleSnd.pc # "set" /\ IdleSnd.oldest = 0 /\ NoMsg \in Replies /\ InvalidLsn \in Nat
    BY DEF IdleSnd, Senders, NoMsg, Replies, InvalidLsn
  <1>3. /\ slot'[n] \in Slots /\ slot'[n].in_use = slot[n].in_use
        /\ slot'[n].apply_lsn = slot[n].apply_lsn /\ slot'[n].lock_lsn = slot[n].lock_lsn
    <2>1. slot[n] \in Slots /\ slot'[n] = [slot[n] EXCEPT !.active = FALSE]
      BY <1>1 DEF IInv, Typed
    <2> QED BY <2>1 DEF Slots
  <1>4. /\ snd'[n] = IdleSnd /\ msg'[n] = NoMsg /\ rcv'[n] = InvalidLsn
        /\ \A m \in Replicas \ {n} :
             slot'[m] = slot[m] /\ snd'[m] = snd[m] /\ msg'[m] = msg[m] /\ rcv'[m] = rcv[m]
    BY <1>1 DEF IInv, Typed
  <1>5. Typed'
    <2>1. slot' \in [Replicas -> Slots]
      BY <1>1, <1>3 DEF IInv, Typed
    <2>2. breaks' \in 0 .. MaxDisconnects
      BY <1>1, BoundAssumption DEF IInv, Typed
    <2> QED BY <1>1, <1>2, <2>1, <2>2 DEF IInv, Typed
  <1>6. Bounded'
    <2>1. InsertLsn' = InsertLsn /\ \A m : ReadUpTo(m)' = ReadUpTo(m)
      BY <1>1, SameWal, SameReplay
    <2>2. IdleSnd.oldest <= InsertLsn
      BY <1>2, Lsns0
    <2> QED BY <1>1, <1>3, <1>4, <2>1, <2>2 DEF IInv, Bounded
  <1>7. WalSound' /\ LocksSound' /\ WorkersSound' /\ NoQueryDuringFileOp'
    BY <1>1, WalFrame, AlrFrame, FilesFrame DEF IInv
  <1>8. ReportsSound'
    <2>1. \A m : ReadUpTo(m)' = ReadUpTo(m)
      BY <1>1, SameReplay
    <2> QED BY <1>1, <1>3, <1>4, <2>1 DEF IInv, ReportsSound, ReplicaOK, Reported
  <1>9. ProgressSound'
    <2>1. \A m \in Replicas : snd'[m].pc = "set" => snd[m].pc = "set" /\ snd'[m].oldest = snd[m].oldest
      BY <1>2, <1>4
    <2>2. \A m \in Replicas : slot'[m].apply_lsn = slot[m].apply_lsn /\ slot'[m].lock_lsn = slot[m].lock_lsn
      BY <1>3, <1>4
    <2> QED BY <1>1, <2>1, <2>2, SameWal DEF IInv, ProgressSound, ProgressOK
  <1> QED BY <1>3, <1>5, <1>6, <1>7, <1>8, <1>9 DEF IInv

\* What a replica does when it begins to stream, or reads its next record.
Streams ==
    /\ Typed' /\ UNCHANGED <<wal, ddl, oldest, ddlLsn, lock, running, alrLsn, worker, query, rcv, msg, alive, breaks>>
    /\ \A m \in Replicas :
         /\ startup'[m].replayed = startup[m].replayed /\ Redone(m)' = Redone(m)
         /\ ReadUpTo(m) <= ReadUpTo(m)' /\ ReadUpTo(m)' <= InsertLsn
         /\ slot'[m].in_use = slot[m].in_use /\ slot'[m].lock_lsn = slot[m].lock_lsn
         /\ slot[m].apply_lsn <= slot'[m].apply_lsn
         /\ slot'[m].apply_lsn = slot[m].apply_lsn \/ slot'[m].apply_lsn <= ReadUpTo(m)'
         /\ snd'[m].pc = "set" => snd[m].pc = "set"
         /\ snd'[m].oldest = snd[m].oldest

LEMMA StreamsIInv ==
    ASSUME IInv, Streams
    PROVE  IInv'
  <1>1. /\ UNCHANGED <<wal, ddl, oldest, ddlLsn, lock, running, alrLsn, worker, query, rcv, msg, alive, breaks>>
        /\ Typed'
        /\ \A m \in Replicas :
             /\ startup'[m].replayed = startup[m].replayed /\ Redone(m)' = Redone(m)
             /\ ReadUpTo(m) <= ReadUpTo(m)' /\ ReadUpTo(m)' <= InsertLsn
             /\ slot'[m].in_use = slot[m].in_use /\ slot'[m].lock_lsn = slot[m].lock_lsn
             /\ slot[m].apply_lsn <= slot'[m].apply_lsn
             /\ slot'[m].apply_lsn = slot[m].apply_lsn \/ slot'[m].apply_lsn <= ReadUpTo(m)'
             /\ snd'[m].pc = "set" => snd[m].pc = "set"
             /\ snd'[m].oldest = snd[m].oldest
    BY DEF Streams
  <1>2. \A m \in Replicas :
          /\ slot[m].apply_lsn \in Nat /\ slot'[m].apply_lsn \in Nat /\ slot[m].lock_lsn \in Nat
          /\ ReadUpTo(m) \in Nat /\ ReadUpTo(m)' \in Nat /\ InsertLsn \in Nat
    <2>1. \A m \in Replicas : ReadUpTo(m)' \in Nat
      BY <1>1 DEF Typed, StartupStates, ReadUpTo
    <2> QED BY <1>1, <2>1, Lsns0 DEF IInv, Typed, Slots
  <1>3. Bounded'
    <2>1. InsertLsn' = InsertLsn
      BY <1>1, SameWal
    <2>2. \A m \in Replicas : slot'[m].apply_lsn <= InsertLsn
      BY <1>1, <1>2 DEF IInv, Bounded
    <2> QED BY <1>1, <2>1, <2>2 DEF IInv, Bounded
  <1>4. WalSound' /\ NoQueryDuringFileOp'
    BY <1>1, WalFrame, FilesFrame DEF IInv
  <1>5. LocksSound' /\ WorkersSound'
    <2>1. \A m \in Replicas, y \in Xacts :
            (Applied(m, y)' <=> Applied(m, y)) /\ (Finished(m, y)' <=> Finished(m, y))
      BY <1>1, SameWal DEF Applied, Finished
    <2> QED BY <1>1, <2>1, SameWal DEF IInv, LocksSound, LockOK, WorkersSound, WorkerOK
  <1>6. ReportsSound'
    <2>1. \A m \in Replicas : alive[m] => 1 <= slot'[m].apply_lsn /\ slot'[m].apply_lsn <= ReadUpTo(m)'
      BY <1>1, <1>2 DEF IInv, ReportsSound, ReplicaOK
    <2> QED BY <1>1, <2>1 DEF IInv, ReportsSound, ReplicaOK, Reported
  <1>7. ProgressSound'
    <2>1. \A m \in Replicas : slot[m].lock_lsn <= slot'[m].lock_lsn
      BY <1>1, <1>2
    <2> QED BY <1>1, <2>1, ProgressGrows
  <1> QED BY <1>1, <1>3, <1>4, <1>5, <1>6, <1>7 DEF IInv

LEMMA StreamingSlot ==
    ASSUME IInv, NEW n \in Replicas, NEW start \in Nat, StartStreaming(n, start)
    PROVE  /\ slot' \in [Replicas -> Slots] /\ snd' \in [Replicas -> Senders]
           /\ \A m \in Replicas :
                /\ slot'[m].in_use = slot[m].in_use /\ slot'[m].lock_lsn = slot[m].lock_lsn
                /\ slot[m].apply_lsn <= slot'[m].apply_lsn
                /\ slot'[m].apply_lsn = slot[m].apply_lsn \/ (m = n /\ slot'[m].apply_lsn = start)
                /\ snd'[m].pc = "set" => snd[m].pc = "set"
                /\ snd'[m].oldest = snd[m].oldest
  <1> DEFINE new == Recorded(n, start, InvalidLsn)
             pc == IF new # slot[n] THEN "compute" ELSE "idle"
  <1>1. slot' = [slot EXCEPT ![n] = [new EXCEPT !.active = TRUE]] /\ snd' = [snd EXCEPT ![n].pc = pc]
    BY DEF StartStreaming
  <1>2. /\ slot \in [Replicas -> Slots] /\ snd \in [Replicas -> Senders]
        /\ slot[n] \in Slots /\ snd[n] \in Senders
        /\ \A m \in Replicas : slot[m].apply_lsn \in Nat
    BY DEF IInv, Typed, Slots
  <1>3. MaxLsnOf(slot[n].apply_lsn, start) \in Nat
    BY <1>2 DEF MaxLsnOf
  <1>4. /\ new \in Slots /\ new.in_use = slot[n].in_use /\ new.lock_lsn = slot[n].lock_lsn
        /\ new.apply_lsn = MaxLsnOf(slot[n].apply_lsn, start)
    BY <1>2, <1>3 DEF Recorded, Slots
  <1>5. pc \in {"compute", "idle"}
    OBVIOUS
  <1> HIDE DEF new, pc
  <1>6. /\ slot'[n] = [new EXCEPT !.active = TRUE] /\ snd'[n] = [snd[n] EXCEPT !.pc = pc]
        /\ \A m \in Replicas \ {n} : slot'[m] = slot[m] /\ snd'[m] = snd[m]
    BY <1>1, <1>2
  <1>7. /\ slot'[n] \in Slots /\ slot'[n].in_use = slot[n].in_use /\ slot'[n].lock_lsn = slot[n].lock_lsn
        /\ slot'[n].apply_lsn = MaxLsnOf(slot[n].apply_lsn, start)
    BY <1>4, <1>6 DEF Slots
  <1>8. snd'[n] \in Senders /\ snd'[n].pc # "set" /\ snd'[n].oldest = snd[n].oldest
    BY <1>2, <1>5, <1>6 DEF Senders
  <1>9. slot' \in [Replicas -> Slots] /\ snd' \in [Replicas -> Senders]
    BY <1>1, <1>2, <1>6, <1>7, <1>8
  <1>10. /\ slot[n].apply_lsn <= slot'[n].apply_lsn
         /\ slot'[n].apply_lsn = slot[n].apply_lsn \/ slot'[n].apply_lsn = start
    BY <1>2, <1>7 DEF MaxLsnOf
  <1> SUFFICES ASSUME NEW m \in Replicas
               PROVE  /\ slot'[m].in_use = slot[m].in_use /\ slot'[m].lock_lsn = slot[m].lock_lsn
                      /\ slot[m].apply_lsn <= slot'[m].apply_lsn
                      /\ slot'[m].apply_lsn = slot[m].apply_lsn \/ (m = n /\ slot'[m].apply_lsn = start)
                      /\ snd'[m].pc = "set" => snd[m].pc = "set"
                      /\ snd'[m].oldest = snd[m].oldest
    BY <1>9
  <1>11. CASE m = n
    BY <1>7, <1>8, <1>10, <1>11
  <1>12. CASE m # n
    <2>1. slot'[m] = slot[m] /\ snd'[m] = snd[m] /\ slot[m].apply_lsn \in Nat
      BY <1>2, <1>6, <1>12
    <2> QED BY <2>1
  <1> QED BY <1>11, <1>12

LEMMA ReconnectIInv ==
    ASSUME IInv, NEW n \in Replicas, Reconnect(n)
    PROVE  IInv' /\ \A m \in Replicas : slot'[m].lock_lsn = slot[m].lock_lsn
  <1>1. /\ StartStreaming(n, startup[n].replayed)
        /\ UNCHANGED <<wal, ddl, oldest, ddlLsn, startup, lock, running, alrLsn, worker, query,
                       rcv, msg, alive, breaks>>
    BY DEF Reconnect, prim, alr, net
  <1>2. /\ startup[n].replayed \in Nat /\ startup[n].replayed <= ReadUpTo(n)
        /\ \A m \in Replicas : ReadUpTo(m) \in Nat /\ ReadUpTo(m) <= InsertLsn
    <2>1. startup[n].replayed <= Redone(n) /\ Redone(n) <= ReadUpTo(n)
      BY Lsns0
    <2> QED BY <2>1, Lsns0
  <1>3. \A m : ReadUpTo(m)' = ReadUpTo(m) /\ Redone(m)' = Redone(m)
    BY <1>1, SameReplay
  <1>4. /\ slot' \in [Replicas -> Slots] /\ snd' \in [Replicas -> Senders]
        /\ \A m \in Replicas :
             /\ slot'[m].in_use = slot[m].in_use /\ slot'[m].lock_lsn = slot[m].lock_lsn
             /\ slot[m].apply_lsn <= slot'[m].apply_lsn
             /\ slot'[m].apply_lsn = slot[m].apply_lsn \/ (m = n /\ slot'[m].apply_lsn = startup[n].replayed)
             /\ snd'[m].pc = "set" => snd[m].pc = "set"
             /\ snd'[m].oldest = snd[m].oldest
    BY <1>1, <1>2, StreamingSlot
  <1>5. Typed'
    BY <1>1, <1>4 DEF IInv, Typed
  <1>6. Streams
    BY <1>1, <1>2, <1>3, <1>4, <1>5 DEF Streams
  <1> QED BY <1>4, <1>6, StreamsIInv

LEMMA ReadRecordIInv ==
    ASSUME IInv, NEW n \in Replicas, ReadRecord(n)
    PROVE  IInv' /\ \A m \in Replicas : slot'[m].lock_lsn = slot[m].lock_lsn
  <1> DEFINE r == startup[n].replayed
  <1>1. /\ startup[n].at = "none" /\ r < InsertLsn
        /\ startup' = [startup EXCEPT ![n].at = "read"]
        /\ UNCHANGED <<slot, snd>> \/ StartStreaming(n, r + 1)
        /\ UNCHANGED <<wal, ddl, oldest, ddlLsn, lock, running, alrLsn, worker, query, rcv, msg, alive, breaks>>
    BY DEF ReadRecord, prim, alr, net
  <1>2. /\ r \in Nat /\ r + 1 \in Nat /\ InsertLsn \in Nat /\ startup \in [Replicas -> StartupStates]
        /\ startup[n] \in StartupStates
        /\ \A m \in Replicas : ReadUpTo(m) \in Nat /\ ReadUpTo(m) <= InsertLsn
    BY Lsns0 DEF IInv, Typed
  <1>3. /\ startup'[n] \in StartupStates /\ startup'[n].replayed = r /\ startup'[n].at = "read"
        /\ \A m \in Replicas \ {n} : startup'[m] = startup[m]
    <2>1. /\ startup'[n] = [startup[n] EXCEPT !.at = "read"]
          /\ \A m \in Replicas \ {n} : startup'[m] = startup[m]
      BY <1>1, <1>2
    <2> QED BY <1>2, <2>1 DEF StartupStates
  <1>4. /\ ReadUpTo(n) = r /\ ReadUpTo(n)' = r + 1 /\ Redone(n) = r /\ Redone(n)' = r
        /\ \A m \in Replicas \ {n} : ReadUpTo(m)' = ReadUpTo(m) /\ Redone(m)' = Redone(m)
    BY <1>1, <1>2, <1>3 DEF ReadUpTo, Redone
  <1>5. /\ slot' \in [Replicas -> Slots] /\ snd' \in [Replicas -> Senders]
        /\ \A m \in Replicas :
             /\ slot'[m].in_use = slot[m].in_use /\ slot'[m].lock_lsn = slot[m].lock_lsn
             /\ slot[m].apply_lsn <= slot'[m].apply_lsn
             /\ slot'[m].apply_lsn = slot[m].apply_lsn \/ (m = n /\ slot'[m].apply_lsn = r + 1)
             /\ snd'[m].pc = "set" => snd[m].pc = "set"
             /\ snd'[m].oldest = snd[m].oldest
    <2>1. CASE UNCHANGED <<slot, snd>>
      <3>1. slot \in [Replicas -> Slots] /\ snd \in [Replicas -> Senders]
            /\ \A m \in Replicas : slot[m].apply_lsn \in Nat
        BY DEF IInv, Typed, Slots
      <3> QED BY <2>1, <3>1
    <2>2. CASE StartStreaming(n, r + 1)
      BY <1>2, <2>2, StreamingSlot
    <2> QED BY <1>1, <2>1, <2>2
  <1> HIDE DEF r
  <1>6. Typed'
    <2>1. startup' \in [Replicas -> StartupStates]
      BY <1>1, <1>2, <1>3
    <2> QED BY <1>1, <1>5, <2>1 DEF IInv, Typed
  <1>7. \A m \in Replicas : ReadUpTo(m) <= ReadUpTo(m)' /\ ReadUpTo(m)' <= InsertLsn
    BY <1>1, <1>2, <1>4
  <1>8. \A m \in Replicas : startup'[m].replayed = startup[m].replayed /\ Redone(m)' = Redone(m)
    BY <1>3, <1>4 DEF r
  <1>9. \A m \in Replicas : slot'[m].apply_lsn = slot[m].apply_lsn \/ slot'[m].apply_lsn <= ReadUpTo(m)'
    BY <1>2, <1>4, <1>5
  <1>10. Streams
    BY <1>1, <1>5, <1>6, <1>7, <1>8, <1>9 DEF Streams
  <1> QED BY <1>5, <1>10, StreamsIInv

\* A replica that has replayed nothing has applied no lock.
LEMMA NothingApplied ==
    ASSUME Typed, NEW x
    PROVE  ~ (LockLsn(x) # InvalidLsn /\ LockLsn(x) <= 1)
  <1>1. LockLsn(x) \in Nat /\ (LockLsn(x) # InvalidLsn => LockLsn(x) >= 2)
    BY RecordFacts DEF LockLsn
  <1> QED BY <1>1

LEMMA DieIInv ==
    ASSUME IInv, NEW n \in Replicas, Die(n)
    PROVE  IInv' /\ \A m \in Replicas : slot'[m].lock_lsn = slot[m].lock_lsn
  <1> DEFINE s == [replayed |-> 1, at |-> "none"]
  <1>1. /\ breaks < MaxDisconnects /\ breaks' = breaks + 1 /\ alive' = [alive EXCEPT ![n] = FALSE]
        /\ slot' = [slot EXCEPT ![n].active = FALSE] /\ snd' = [snd EXCEPT ![n] = IdleSnd]
        /\ msg' = [msg EXCEPT ![n] = NoMsg] /\ rcv' = [rcv EXCEPT ![n] = InvalidLsn]
        /\ query' = [query EXCEPT ![n] = [x \in Xacts |-> FALSE]]
        /\ lock' = [lock EXCEPT ![n] = [x \in Xacts |-> "none"]]
        /\ running' = [running EXCEPT ![n] = [x \in Xacts |-> FALSE]]
        /\ alrLsn' = [alrLsn EXCEPT ![n] = InvalidLsn] /\ worker' = [worker EXCEPT ![n] = "acquire"]
        /\ startup' = [startup EXCEPT ![n] = s]
        /\ UNCHANGED <<wal, ddl, oldest, ddlLsn>>
    BY DEF Die, Cut, prim
  <1>2. /\ IdleSnd \in Senders /\ IdleSnd.pc # "set" /\ IdleSnd.oldest = 0 /\ NoMsg \in Replies
        /\ InvalidLsn \in Nat /\ s \in StartupStates /\ s.replayed = 1 /\ s.at = "none"
    BY DEF IdleSnd, Senders, NoMsg, Replies, InvalidLsn, StartupStates
  <1> HIDE DEF s
  <1>3. /\ slot'[n] \in Slots /\ slot'[n].in_use = slot[n].in_use
        /\ slot'[n].apply_lsn = slot[n].apply_lsn /\ slot'[n].lock_lsn = slot[n].lock_lsn
    <2>1. slot[n] \in Slots /\ slot'[n] = [slot[n] EXCEPT !.active = FALSE]
      BY <1>1 DEF IInv, Typed
    <2> QED BY <2>1 DEF Slots
  <1>4. \A m \in Replicas \ {n} :
          /\ slot'[m] = slot[m] /\ snd'[m] = snd[m] /\ msg'[m] = msg[m] /\ rcv'[m] = rcv[m]
          /\ query'[m] = query[m] /\ lock'[m] = lock[m] /\ running'[m] = running[m]
          /\ alrLsn'[m] = alrLsn[m] /\ worker'[m] = worker[m] /\ startup'[m] = startup[m]
          /\ alive'[m] = alive[m]
    BY <1>1 DEF IInv, Typed
  <1>5. /\ snd'[n] = IdleSnd /\ msg'[n] = NoMsg /\ rcv'[n] = InvalidLsn /\ alrLsn'[n] = InvalidLsn
        /\ worker'[n] = "acquire" /\ startup'[n] = s
        /\ \A x \in Xacts : ~query'[n][x] /\ lock'[n][x] = "none"
    BY <1>1 DEF IInv, Typed
  <1>6. ~alive'[n]
    BY <1>1 DEF IInv, Typed
  <1>7. Typed'
    <2>1. slot' \in [Replicas -> Slots]
      BY <1>1, <1>3 DEF IInv, Typed
    <2>2. breaks' \in 0 .. MaxDisconnects
      BY <1>1, BoundAssumption DEF IInv, Typed
    <2>3. /\ [x \in Xacts |-> FALSE] \in [Xacts -> BOOLEAN]
          /\ [x \in Xacts |-> "none"] \in [Xacts -> LockStates]
      BY DEF LockStates
    <2>4. snd' \in [Replicas -> Senders] /\ msg' \in [Replicas -> Replies] /\ startup' \in [Replicas -> StartupStates]
      BY <1>1, <1>2 DEF IInv, Typed
    <2>5. /\ query' \in [Replicas -> [Xacts -> BOOLEAN]] /\ running' \in [Replicas -> [Xacts -> BOOLEAN]]
          /\ lock' \in [Replicas -> [Xacts -> LockStates]]
      BY <1>1, <2>3 DEF IInv, Typed
    <2> QED BY <1>1, <1>2, <2>1, <2>2, <2>4, <2>5 DEF IInv, Typed
  <1>8. /\ Redone(n)' = 1 /\ ReadUpTo(n)' = 1
        /\ \A m \in Replicas \ {n} : Redone(m)' = Redone(m) /\ ReadUpTo(m)' = ReadUpTo(m)
    BY <1>2, <1>4, <1>5 DEF Redone, ReadUpTo
  <1>9. Bounded'
    <2>1. InsertLsn' = InsertLsn
      BY <1>1, SameWal
    <2>2. 0 <= InsertLsn /\ 1 <= InsertLsn
      BY Lsns0 DEF InsertLsn, IInv, Typed
    <2> QED BY <1>1, <1>2, <1>3, <1>4, <1>5, <1>8, <2>1, <2>2 DEF IInv, Bounded
  <1>10. WalSound'
    BY <1>1, WalFrame DEF IInv
  <1>11. NoQueryDuringFileOp'
    BY <1>1, <1>4, <1>5 DEF IInv, NoQueryDuringFileOp
  <1>12. \A x : LockLsn(x)' = LockLsn(x) /\ EndLsn(x)' = EndLsn(x)
    BY <1>1, SameWal
  <1>13. LocksSound'
    <2>1. ASSUME NEW x \in Xacts
          PROVE  LockOK(n, x)'
      <3>1. ~Applied(n, x)'
        BY <1>8, <1>12, NothingApplied DEF IInv, Applied
      <3> QED BY <1>5, <3>1 DEF LockOK
    <2>2. ASSUME NEW m \in Replicas \ {n}, NEW x \in Xacts
          PROVE  LockOK(m, x)'
      <3>1. LockOK(m, x) /\ (Applied(m, x)' <=> Applied(m, x)) /\ (Finished(m, x)' <=> Finished(m, x))
        BY <1>8, <1>12 DEF IInv, LocksSound, Applied, Finished
      <3> QED BY <1>4, <1>12, <3>1 DEF LockOK
    <2> QED BY <2>1, <2>2 DEF LocksSound
  <1>14. WorkersSound'
    <2>1. InvalidLsn <= 1
      BY DEF InvalidLsn
    <2>2. WorkerOK(n)'
      BY <1>5, <1>8, <2>1 DEF WorkerOK
    <2>3. \A m \in Replicas \ {n} : WorkerOK(m)'
      BY <1>4, <1>8, <1>12 DEF IInv, WorkersSound, WorkerOK
    <2> QED BY <2>2, <2>3 DEF WorkersSound
  <1>15. ReportsSound'
    <2>1. ReplicaOK(n)'
      BY <1>5, <1>6 DEF ReplicaOK
    <2>2. \A m \in Replicas \ {n} : ReplicaOK(m)'
      BY <1>4, <1>8 DEF IInv, ReportsSound, ReplicaOK, Reported
    <2> QED BY <2>1, <2>2 DEF ReportsSound
  <1>16. ProgressSound'
    <2>1. \A m \in Replicas : snd'[m].pc = "set" => snd[m].pc = "set" /\ snd'[m].oldest = snd[m].oldest
      BY <1>2, <1>4, <1>5
    <2>2. \A m \in Replicas : alive'[m] => alive[m] /\ slot'[m] = slot[m]
      BY <1>4, <1>6
    <2> QED BY <1>1, <1>12, <2>1, <2>2 DEF IInv, ProgressSound, ProgressOK
  <1> QED BY <1>3, <1>4, <1>7, <1>9, <1>10, <1>11, <1>13, <1>14, <1>15, <1>16 DEF IInv

(***************************************************************************)
(* The theorems.                                                           *)
(***************************************************************************)

LEMMA InitIInv ==
    ASSUME Init
    PROVE  IInv
  <1>1. /\ wal = <<>> /\ oldest = 1 /\ ddlLsn = 1
        /\ \A x \in Xacts : ddl[x] = "idle"
        /\ \A n \in Replicas :
             /\ slot[n] = [in_use |-> TRUE, active |-> TRUE, apply_lsn |-> 1, lock_lsn |-> 1]
             /\ snd[n] = IdleSnd /\ startup[n] = [replayed |-> 1, at |-> "none"]
             /\ alrLsn[n] = InvalidLsn /\ worker[n] = "acquire" /\ rcv[n] = InvalidLsn /\ msg[n] = NoMsg
             /\ alive[n]
             /\ \A x \in Xacts : lock[n][x] = "none" /\ ~query[n][x]
    BY DEF Init
  <1>2. IdleSnd \in Senders /\ IdleSnd.pc = "idle" /\ IdleSnd.oldest = 0 /\ NoMsg \in Replies
    BY DEF IdleSnd, Senders, NoMsg, Replies, InvalidLsn
  <1>3. Typed
    <2>1. slot \in [Replicas -> Slots] /\ startup \in [Replicas -> StartupStates]
      BY DEF Init, Slots, StartupStates
    <2>2. wal \in Seq(Records) /\ ddl \in [Xacts -> DdlStates] /\ oldest \in Nat /\ ddlLsn \in Nat
      BY DEF Init, DdlStates
    <2>3. snd \in [Replicas -> Senders] /\ msg \in [Replicas -> Replies]
      BY <1>2 DEF Init
    <2>4. /\ lock \in [Replicas -> [Xacts -> LockStates]] /\ running \in [Replicas -> [Xacts -> BOOLEAN]]
          /\ query \in [Replicas -> [Xacts -> BOOLEAN]]
      BY DEF Init, LockStates
    <2>5. /\ alrLsn \in [Replicas -> Nat] /\ worker \in [Replicas -> {"acquire", "getting", "release"}]
          /\ rcv \in [Replicas -> Nat] /\ alive \in [Replicas -> BOOLEAN] /\ breaks \in 0 .. MaxDisconnects
      BY BoundAssumption DEF Init, InvalidLsn
    <2> QED BY <2>1, <2>2, <2>3, <2>4, <2>5 DEF Typed
  <1>4. Len(wal) = 0 /\ InsertLsn = 1 /\ \A k, x : RecordLsn(k, x) = InvalidLsn
    BY <1>1 DEF InsertLsn, RecordLsn
  <1>5. \A x : LockLsn(x) = InvalidLsn /\ EndLsn(x) = InvalidLsn
    BY <1>4 DEF LockLsn, EndLsn
  <1>6. \A n \in Replicas : /\ Redone(n) = 1 /\ ReadUpTo(n) = 1 /\ startup[n].replayed = 1
                            /\ slot[n].in_use /\ slot[n].apply_lsn = 1 /\ slot[n].lock_lsn = 1
    BY <1>1 DEF Redone, ReadUpTo
  <1>7. Bounded
    BY <1>1, <1>2, <1>4, <1>6 DEF Bounded
  <1>8. WalSound
    BY <1>1, <1>4, <1>5 DEF WalSound
  <1>9. LocksSound /\ WorkersSound
    BY <1>1, <1>5, <1>6 DEF LocksSound, LockOK, Applied, WorkersSound, WorkerOK, InvalidLsn
  <1>10. ReportsSound
    BY <1>1, <1>6 DEF ReportsSound, ReplicaOK, Reported
  <1>11. ProgressSound /\ NoQueryDuringFileOp
    BY <1>1, <1>2, <1>6 DEF ProgressSound, ProgressOK, NoQueryDuringFileOp, InvalidLsn
  <1> QED BY <1>3, <1>7, <1>8, <1>9, <1>10, <1>11 DEF IInv

LEMMA NextIInv ==
    ASSUME IInv, [Next]_vars
    PROVE  IInv'
  <1>1. ASSUME NEW x \in Xacts, Backend(x)
        PROVE  IInv'
    BY <1>1, LogLockIInv, LogDataIInv, WaitDdlLockIInv, EndIInv, PendingDeletesIInv DEF Backend
  <1>2. ASSUME NEW n \in Replicas, Startup(n)
        PROVE  IInv'
    BY <1>2, ReadRecordIInv, ApplyWalRecordIInv, SetReplayedIInv DEF Startup
  <1>3. ASSUME NEW n \in Replicas, Worker(n)
        PROVE  IInv'
    BY <1>3, PopLockIInv, ReleaseXactsIInv, GotLockIInv DEF Worker
  <1>4. ASSUME NEW n \in Replicas, WalReceiver(n)
        PROVE  IInv'
    BY <1>4, ReadApplyLsnIInv, SendReplyIInv DEF WalReceiver
  <1>5. ASSUME NEW n \in Replicas, WalSender(n)
        PROVE  IInv'
    BY <1>5, RecordReplicaLsnIInv, ComputeReplicaLsnIInv, SetOldestReplicaLsnIInv, WakeWaitersIInv
       DEF WalSender
  <1>6. ASSUME NEW n \in Replicas, NEW x \in Xacts, QueryBegin(n, x) \/ QueryEnd(n, x)
        PROVE  IInv'
    BY <1>6, QueryBeginIInv, QueryEndIInv
  <1>7. ASSUME NEW n \in Replicas, Disconnect(n) \/ Reconnect(n) \/ Die(n) \/ DropSlot(n)
        PROVE  IInv'
    BY <1>7, DisconnectIInv, ReconnectIInv, DieIInv, DropSlotIInv
  <1>8. CASE UNCHANGED vars
    <2>1. UNCHANGED <<wal, ddl, slot, snd, oldest, ddlLsn, startup, lock, running, alrLsn, worker, query,
                      rcv, msg, alive, breaks>>
      BY <1>8 DEF vars, prim, progress, alr, net
    <2>2. Typed'
      BY <2>1 DEF IInv, Typed
    <2> QED BY <2>1, <2>2, BoundedFrame, WalFrame, AlrFrame, ReportsFrame, ProgressFrame, FilesFrame DEF IInv
  <1> QED BY <1>1, <1>2, <1>3, <1>4, <1>5, <1>6, <1>7, <1>8 DEF Next

\* The inductive invariant holds in every state.
THEOREM Invariance == Spec => []IInv
  BY InitIInv, NextIInv, PTL DEF Spec

\* Slots, replies, locks and workers have their types, no position is past the end
\* of the WAL, and the worker acquires one lock at a time, which is the Assert of
\* alr_release_locks.
THEOREM TypeCorrect == Spec => []TypeOK
  <1>1. ASSUME IInv
        PROVE  TypeOK
    <2>1. Typed /\ Bounded /\ ReportsSound /\ WorkersSound
      BY <1>1 DEF IInv
    <2>2. InsertLsn \in Nat /\ \A p \in Nat : p <= InsertLsn => p \in Lsns
      BY <1>1, Lsns0 DEF Lsns
    <2>3. ASSUME NEW n \in Replicas
          PROVE  /\ slot[n].apply_lsn \in Lsns /\ slot[n].lock_lsn \in Lsns /\ snd[n].oldest \in Lsns
                 /\ startup[n].replayed \in Lsns /\ alrLsn[n] \in Lsns /\ rcv[n] \in Lsns
                 /\ msg[n].apply \in Lsns /\ msg[n].lock \in Lsns
      <3>1. /\ slot[n].apply_lsn \in Nat /\ slot[n].lock_lsn \in Nat /\ snd[n].oldest \in Nat
            /\ startup[n].replayed \in Nat /\ alrLsn[n] \in Nat /\ rcv[n] \in Nat
            /\ msg[n].apply \in Nat /\ msg[n].lock \in Nat /\ Redone(n) \in Nat
        BY <1>1, <2>1, Lsns0 DEF Typed, Slots, Senders, Replies
      <3>2. startup[n].replayed <= InsertLsn /\ Redone(n) <= InsertLsn
        BY <1>1, <2>2, <3>1, Lsns0
      <3>3. /\ slot[n].apply_lsn <= InsertLsn /\ slot[n].lock_lsn <= InsertLsn /\ snd[n].oldest <= InsertLsn
        BY <2>1 DEF Bounded
      <3>4. alrLsn[n] <= InsertLsn
        BY <2>1, <2>2, <3>1, <3>2 DEF WorkersSound, WorkerOK
      <3>5. rcv[n] <= InsertLsn
        BY <2>1, <2>2, <3>1, <3>2 DEF ReportsSound, ReplicaOK, InvalidLsn
      <3>6. msg[n].apply <= InsertLsn /\ msg[n].lock <= InsertLsn
        <4>1. CASE msg[n] = NoMsg
          BY <2>2, <4>1 DEF NoMsg, InvalidLsn
        <4>2. CASE msg[n] # NoMsg
          BY <2>1, <2>2, <3>1, <3>2, <4>2 DEF ReportsSound, ReplicaOK, Reported
        <4> QED BY <4>1, <4>2
      <3> QED BY <2>2, <3>1, <3>2, <3>3, <3>4, <3>5, <3>6
    <2>4. oldest \in Lsns /\ ddlLsn \in Lsns
      BY <2>1, <2>2 DEF Typed, Bounded
    <2>5. slot \in [Replicas -> [in_use : BOOLEAN, active : BOOLEAN, apply_lsn : Lsns, lock_lsn : Lsns]]
      BY <2>1, <2>3 DEF Typed, Slots
    <2>6. snd \in [Replicas -> [pc : {"idle", "compute", "set", "release"}, oldest : Lsns, reply : BOOLEAN]]
      BY <2>1, <2>3 DEF Typed, Senders
    <2>7. startup \in [Replicas -> [replayed : Lsns, at : {"none", "read", "redone"}]]
      BY <2>1, <2>3 DEF Typed, StartupStates
    <2>8. alrLsn \in [Replicas -> Lsns] /\ rcv \in [Replicas -> Lsns]
      BY <2>1, <2>3 DEF Typed
    <2>9. msg \in [Replicas -> [apply : Lsns, lock : Lsns]]
      BY <2>1, <2>3 DEF Typed, Replies
    <2>10. ASSUME NEW n \in Replicas
           PROVE  Cardinality({x \in Xacts : lock[n][x] = "getting"}) = IF worker[n] = "getting" THEN 1 ELSE 0
      <3>1. CASE worker[n] = "getting"
        <4>1. PICK x \in Xacts : {y \in Xacts : lock[n][y] = "getting"} = {x}
          BY <2>1, <3>1 DEF WorkersSound, WorkerOK
        <4> QED BY <3>1, <4>1, FS_Singleton
      <3>2. CASE worker[n] # "getting"
        <4>1. {y \in Xacts : lock[n][y] = "getting"} = {}
          BY <2>1, <3>2 DEF WorkersSound, WorkerOK
        <4> QED BY <3>2, <4>1, FS_EmptySet
      <3> QED BY <3>1, <3>2
    <2> HIDE DEF Lsns
    <2> QED BY <2>1, <2>4, <2>5, <2>6, <2>7, <2>8, <2>9, <2>10
            DEF TypeOK, Typed, Records, DdlStates, LockStates
  <1> QED BY <1>1, Invariance, PTL

\* Synchronous DDL as a whole: while the primary changes or unlinks the files of a
\* relation, after polar_wait_ddl_lock, no query of any replica uses it.
\* Replicas may disconnect, reconnect, die and lose their slot; none is restarted.
THEOREM SynchronousDdl == Spec => []NoQueryDuringFileOp
  <1>1. IInv => NoQueryDuringFileOp
    BY DEF IInv
  <1> QED BY <1>1, Invariance, PTL

\* A lock LSN in a slot stands for locks that the replica holds, although the
\* walreceiver reads the apply LSN and polar_alr_ctl->lsn one after the other.
THEOREM ReportsStandForLocks == Spec => []ReportedLockHeld
  <1>1. ASSUME IInv
        PROVE  ReportedLockHeld
    <2> SUFFICES ASSUME NEW n \in Replicas, NEW x \in Xacts, alive[n],
                        LockLsn(x) # InvalidLsn, EndLsn(x) = InvalidLsn, slot[n].lock_lsn >= LockLsn(x)
                 PROVE  lock[n][x] = "got"
      BY DEF ReportedLockHeld
    <2>1. slot[n].lock_lsn \in Nat /\ Reported(n, slot[n].lock_lsn) /\ LockLsn(x) \in Nat
      BY <1>1, Lsns0 DEF IInv, Typed, Slots, ReportsSound, ReplicaOK
    <2>2. LockLsn(x) <= slot[n].lock_lsn
      BY <2>1
    <2> QED BY <1>1, <2>1, <2>2, ReportedHeld DEF Finished
  <1> QED BY <1>1, Invariance, PTL

\* oldest_apply_lsn is valid while a replica runs and never past the record that a
\* replica is at, however polar_compute_and_set_replica_lsn of several walsenders
\* interleaves.
THEOREM OldestApplyStaysSafe == Spec => []OldestApplySafe
  <1>1. ASSUME IInv
        PROVE  OldestApplySafe
    <2> SUFFICES ASSUME NEW n \in Replicas, alive[n]
                 PROVE  oldest # InvalidLsn /\ oldest <= ReadUpTo(n)
      BY DEF OldestApplySafe
    <2>1. oldest # InvalidLsn /\ oldest <= slot[n].apply_lsn /\ slot[n].apply_lsn <= ReadUpTo(n)
      BY <1>1 DEF IInv, ProgressSound, ProgressOK, ReportsSound, ReplicaOK
    <2>2. oldest \in Nat /\ slot[n].apply_lsn \in Nat /\ ReadUpTo(n) \in Nat
      BY <1>1, Lsns0 DEF IInv, Typed, Slots
    <2> QED BY <2>1, <2>2
  <1> QED BY <1>1, Invariance, PTL

LEMMA LockLsnStep ==
    ASSUME IInv, [Next]_vars, NEW n \in Replicas, slot'[n].in_use
    PROVE  slot[n].lock_lsn <= slot'[n].lock_lsn
  <1>1. \A m \in Replicas : slot[m].lock_lsn \in Nat /\ slot[m].lock_lsn <= slot[m].lock_lsn
    BY DEF IInv, Typed, Slots
  <1>2. CASE UNCHANGED slot
    BY <1>1, <1>2
  <1>3. ASSUME NEW x \in Xacts, Backend(x)
        PROVE  UNCHANGED slot
    BY <1>3 DEF Backend, LogLock, LogData, WaitDdlLock, CancelWait, Commit, PendingDeletes, progress
  <1>4. ASSUME NEW m \in Replicas, ApplyWalRecord(m) \/ SetReplayed(m) \/ Worker(m) \/ WalReceiver(m)
        PROVE  UNCHANGED slot
    BY <1>4 DEF ApplyWalRecord, SetReplayed, Worker, PopLock, ReleaseXacts, GotLock,
                WalReceiver, ReadApplyLsn, SendReply, progress
  <1>5. ASSUME NEW m \in Replicas, ComputeReplicaLsn(m) \/ SetOldestReplicaLsn(m) \/ WakeWaiters(m)
        PROVE  UNCHANGED slot
    BY <1>5 DEF ComputeReplicaLsn, SetOldestReplicaLsn, WakeWaiters
  <1>6. ASSUME NEW m \in Replicas, NEW x \in Xacts, QueryBegin(m, x) \/ QueryEnd(m, x)
        PROVE  UNCHANGED slot
    BY <1>6 DEF QueryBegin, QueryEnd, progress
  <1>7. CASE UNCHANGED vars
    BY <1>2, <1>7 DEF vars, progress
  <1>8. ASSUME NEW m \in Replicas, RecordReplicaLsn(m)
        PROVE  slot[n].lock_lsn <= slot'[n].lock_lsn
    <2>1. slot[m].lock_lsn <= slot'[m].lock_lsn
      BY <1>8, RecordReplicaLsnIInv
    <2>2. n # m => slot'[n] = slot[n]
      BY <1>8 DEF RecordReplicaLsn, IInv, Typed
    <2> QED BY <1>1, <2>1, <2>2
  <1>9. ASSUME NEW m \in Replicas, Disconnect(m)
        PROVE  slot[n].lock_lsn <= slot'[n].lock_lsn
    <2>1. slot[m].lock_lsn = slot'[m].lock_lsn
      BY <1>9, DisconnectIInv
    <2>2. n # m => slot'[n] = slot[n]
      BY <1>9 DEF Disconnect, IInv, Typed
    <2> QED BY <1>1, <2>1, <2>2
  <1>10. ASSUME NEW m \in Replicas, ReadRecord(m) \/ Reconnect(m) \/ Die(m)
         PROVE  slot[n].lock_lsn <= slot'[n].lock_lsn
    BY <1>1, <1>10, ReadRecordIInv, ReconnectIInv, DieIInv
  <1>11. ASSUME NEW m \in Replicas, DropSlot(m)
         PROVE  slot[n].lock_lsn <= slot'[n].lock_lsn
    <2>1. n # m
      BY <1>11, DropSlotIInv
    <2>2. slot'[n] = slot[n]
      BY <1>11, <2>1 DEF DropSlot, IInv, Typed
    <2> QED BY <1>1, <2>2
  <1> QED BY <1>2, <1>3, <1>4, <1>5, <1>6, <1>7, <1>8, <1>9, <1>10, <1>11
          DEF Next, Startup, WalSender

\* The Assert of polar_record_replica_lsn holds: lock LSNs arrive in order at the
\* slot, across broken connections and whatever the worker did meanwhile.
THEOREM LockLsnsInOrder == Spec => LockLsnMonotone
  <1>1. ASSUME IInv, [Next]_vars
        PROVE  [\A n \in Replicas : slot'[n].in_use => slot[n].lock_lsn <= slot'[n].lock_lsn]_vars
    BY <1>1, LockLsnStep
  <1> QED BY <1>1, Invariance, PTL DEF Spec, LockLsnMonotone

===========================================================================
