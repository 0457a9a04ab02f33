------------------------ MODULE FlushControlProofs ------------------------
(***************************************************************************)
(* Proofs about flush control, for any numbers of pages, copy buffers,     *)
(* processes and crashes.                                                  *)
(*                                                                         *)
(* A change that is missing on storage is at or after the oldest_lsn of    *)
(* its buffer, or of its copy buffer (ChangeOK).  A consistent LSN being   *)
(* computed is not past any oldest_lsn in the flush list, nor past that of *)
(* any copy buffer except those still to be looked at (CalcOK); since a    *)
(* buffer in the list is copied with its own oldest_lsn, copies made       *)
(* behind the scan do no harm.                                             *)
(* Redo that restores a page whole may take changes back; they are at or   *)
(* after the record being replayed (first part of ChangeOK).               *)
(***************************************************************************)
EXTENDS FlushControl, SequenceTheorems, WellFoundedInduction, TLAPS

(***************************************************************************)
(* The inductive invariant.                                                *)
(***************************************************************************)

\* LSNs are ordered as time is: storage, the WAL flushed, the WAL inserted.
LsnsOK ==
    /\ mode # "panic"
    /\ 1 <= ctlRedo /\ ctlRedo <= flushed
    /\ consistent <= MaxValidLsn
    /\ consistent # InvalidLsn => ctlRedo <= consistent
    /\ ckpt.pc = "wait" => ctlRedo <= ckpt.redo
    /\ mode = "recover" =>
         /\ ctlRedo <= replay /\ replay <= InsertLsn
         /\ \A p \in replayed : replay < pageLsn[p]
         /\ apply = InvalidLsn /\ consistent = InvalidLsn /\ ckpt.pc = "idle"

\* The page, its buffer and its copy.
PageOK(p) ==
    /\ 1 <= pageLsn[p] /\ pageLsn[p] <= InsertLsn
    /\ 1 <= disk[p] /\ disk[p] <= flushed
    /\ ~dirty[p] => disk[p] = pageLsn[p]
    /\ oldest[p] # InvalidLsn =>
         ctlRedo <= oldest[p] /\ consistent <= oldest[p] /\ oldest[p] <= MaxValidLsn
    /\ owner[p] # None =>
         /\ mode = "run" /\ dirty[p] /\ oldest[p] # InvalidLsn
         /\ copy[p] # None => touched[p]
    /\ copy[p] = None => ~touched[p]

CopyOK(p) ==
    copy[p] # None =>
        /\ mode = "run" /\ dirty[p]
        /\ cOldest[copy[p]] # InvalidLsn
        /\ ctlRedo <= cOldest[copy[p]] /\ consistent <= cOldest[copy[p]]
        /\ cOldest[copy[p]] <= oldest[p]
        /\ 1 <= cLsn[copy[p]] /\ cLsn[copy[p]] <= pageLsn[p]
        /\ ~touched[p] => cLsn[copy[p]] = pageLsn[p]
        /\ \A q \in Pages : copy[q] = copy[p] => q = p

SlotsOK == \A c \in Slots : cOldest[c] # InvalidLsn => \E p \in Pages : copy[p] = c

WrittenBack(p) == \E f \in Flushers : flusher[f].pc = "written" /\ flusher[f].page = p

\* Where the change of p by the record at s is.
ChangeOK(p, s) ==
    p \in log[s] =>
        /\ s < pageLsn[p] \/ (mode = "recover" /\ replay <= s)
        /\ disk[p] <= s => ctlRedo <= s
        /\ disk[p] <= s /\ s < pageLsn[p] =>
             /\ oldest[p] # InvalidLsn
             /\ IF copy[p] = None THEN oldest[p] <= s ELSE cOldest[copy[p]] <= s
        /\ copy[p] # None =>
             /\ cLsn[copy[p]] <= s => oldest[p] <= s
             /\ s < disk[p] => s < cLsn[copy[p]] \/ WrittenBack(p)

HintOK(h) ==
    /\ ~LogHints => hint[h].lsn = InvalidLsn
    /\ hint[h].page # None =>
         /\ mode = "run" /\ owner[hint[h].page] = None
         /\ hint[h].lsn <= InsertLsn
         /\ hint[h].lsn # InvalidLsn =>
              \A s \in 1 .. Len(log) : hint[h].page \in log[s] => s < hint[h].lsn

\* FlushBuffer writes nothing from the future of a replica.
Checked == Fullpage \/ ~LogHints

FlusherOK(f) ==
    LET r == flusher[f] IN
    /\ mode = "recover" => r.apply = InvalidLsn
    /\ r.pc # "idle" =>
         /\ r.page \in Pages
         /\ apply = InvalidLsn \/ (r.apply # InvalidLsn /\ r.apply <= apply)
    /\ r.pc \in SharePcs => owner[r.page] = None
    /\ r.pc \in {"flush", "write"} =>
         Fullpage \/ LogHints \/ apply = InvalidLsn \/ pageLsn[r.page] <= apply
    /\ r.pc \in IoPcs =>
         /\ dirty[r.page]
         /\ \A g \in Flushers : flusher[g].pc \in IoPcs /\ flusher[g].page = r.page => g = f
    /\ r.pc = "write" => pageLsn[r.page] <= flushed
    /\ r.pc = "written" => disk[r.page] = pageLsn[r.page]
    /\ r.pc \in {"writeCopy", "copyWritten"} => copy[r.page] # None
    /\ r.pc = "writeCopy" =>
         /\ cLsn[copy[r.page]] <= flushed
         /\ apply = InvalidLsn \/ cLsn[copy[r.page]] <= apply
    /\ r.pc = "copyWritten" => disk[r.page] = cLsn[copy[r.page]]

FutureOK == Checked => NoFuturePage

CalcOK(x) ==
    LET r == calc[x] IN
    /\ r.cur <= consistent
    /\ x = Checkpointer /\ r.pc # "idle" => mode = "run" /\ ckpt.pc = "idle"
    /\ r.pc \in {"scan", "done"} =>
         /\ r.cur <= r.val /\ r.val <= MaxValidLsn
         /\ ctlRedo <= r.val \/ (x # Checkpointer /\ consistent # InvalidLsn)
         /\ \A p \in Pages :
              /\ oldest[p] # InvalidLsn => r.val <= oldest[p]
              /\ copy[p] # None /\ (r.pc = "done" \/ copy[p] \notin r.todo) =>
                   r.val <= cOldest[copy[p]]

IInv ==
    /\ TypeOK /\ LsnsOK /\ SlotsOK /\ FutureOK
    /\ \A p \in Pages : PageOK(p) /\ CopyOK(p)
    /\ \A p \in Pages : \A s \in 1 .. Len(log) : ChangeOK(p, s)
    /\ \A h \in Hinters : HintOK(h)
    /\ \A f \in Flushers : FlusherOK(f)
    /\ \A x \in Calculators : CalcOK(x)

(***************************************************************************)
(* Facts about the operators.                                              *)
(***************************************************************************)

\* The WAL has a length, and its records are sets of pages.
LEMMA WalFacts ==
    ASSUME TypeOK
    PROVE  /\ Len(log) \in Nat /\ InsertLsn = Len(log) + 1 /\ InsertLsn \in Nat
           /\ flushed \in Nat /\ 1 <= flushed /\ flushed <= InsertLsn
           /\ MaxValidLsn \in Nat
  BY DEF TypeOK, InsertLsn, MaxValidLsn, Lsns

\* A record is appended to the WAL.
LEMMA AppendFacts ==
    ASSUME TypeOK, NEW S \in SUBSET Pages, NEW I \in SUBSET Pages,
           log' = Append(log, S), whole' = Append(whole, I)
    PROVE  /\ log' \in Seq(SUBSET Pages) /\ Len(log') = Len(log) + 1
           /\ whole' \in Seq(SUBSET Pages) /\ Len(whole') = Len(log')
           /\ InsertLsn' = InsertLsn + 1
           /\ \A s \in 1 .. Len(log) : log'[s] = log[s]
           /\ log'[Len(log) + 1] = S
           /\ 1 .. Len(log') = (1 .. Len(log)) \cup {Len(log) + 1}
  BY WalFacts DEF TypeOK, InsertLsn

\* SyncOneBuffer goes on to another step.
LEMMA StepFacts ==
    ASSUME TypeOK, NEW f \in Flushers, NEW pc \in SharePcs, Step(f, pc)
    PROVE  /\ flusher' \in [Flushers -> [pc : SharePcs \cup {"idle", "lock"},
                                         page : Pages \cup {None}, apply : Lsns]]
           /\ flusher'[f].pc = pc /\ flusher'[f].page = flusher[f].page
           /\ flusher'[f].apply = flusher[f].apply
           /\ \A g \in Flushers : g # f => flusher'[g] = flusher[g]
  <1>1. flusher \in [Flushers -> [pc : SharePcs \cup {"idle", "lock"},
                                   page : Pages \cup {None}, apply : Lsns]]
    BY DEF TypeOK
  <1>2. flusher[f] \in [pc : SharePcs \cup {"idle", "lock"}, page : Pages \cup {None}, apply : Lsns]
    BY <1>1
  <1> QED BY <1>1, <1>2 DEF Step

\* SyncOneBuffer returns.
LEMMA ReturnFacts ==
    ASSUME TypeOK, NEW f \in Flushers, Return(f)
    PROVE  /\ flusher' \in [Flushers -> [pc : SharePcs \cup {"idle", "lock"},
                                         page : Pages \cup {None}, apply : Lsns]]
           /\ flusher'[f].pc = "idle" /\ flusher'[f].page = None
           /\ flusher'[f].apply = InvalidLsn
           /\ \A g \in Flushers : g # f => flusher'[g] = flusher[g]
  BY DEF TypeOK, Return, Asleep, Lsns, InvalidLsn

\* The CHOOSE of HeadLsn finds the smallest oldest_lsn.
LEMMA HeadFacts ==
    ASSUME TypeOK, InList # {}
    PROVE  /\ \E p \in InList : HeadLsn = oldest[p]
           /\ HeadLsn \in Nat
           /\ \A p \in InList : HeadLsn <= oldest[p]
  <1> DEFINE R == OpToRel(<, Nat)
             S == {oldest[p] : p \in InList}
  <1>1. IsWellFoundedOn(R, Nat)
    BY NatLessThanWellFounded
  <1>2. \A k, m \in Nat : k < m => <<k, m>> \in R
    BY DEF OpToRel
  <1> HIDE DEF R
  <1>3. S \subseteq Nat /\ S # {}
    <2>1. ASSUME NEW p \in InList
          PROVE  oldest[p] \in S /\ oldest[p] \in Nat
      BY DEF TypeOK, Lsns, InList
    <2> QED BY <2>1
  <1>4. PICK m \in S : \A k \in S : ~ (<<k, m>> \in R)
    BY <1>1, <1>3, WFMin
  <1>5. ASSUME NEW p \in InList
        PROVE  m <= oldest[p]
    <2>1. oldest[p] \in S /\ oldest[p] \in Nat /\ m \in Nat
      BY <1>3
    <2>2. ~ (oldest[p] < m)
      BY <1>2, <1>4, <2>1, Zenon
    <2> QED BY <2>1, <2>2
  <1>6. HeadLsn \in S /\ \A p \in InList : HeadLsn <= oldest[p]
    BY <1>5 DEF HeadLsn
  <1> QED BY <1>3, <1>6

(***************************************************************************)
(* WAL and replicas.                                                       *)
(***************************************************************************)

LEMMA XLogFlushInv ==
    ASSUME IInv, XLogFlush
    PROVE  IInv'
  <1> USE DEF XLogFlush, listVars, bufVars, diskVars, ckptVars, modeVars, InsertLsn, MaxValidLsn
  <1>1. TypeOK' /\ flushed <= flushed' /\ flushed' \in Nat /\ flushed \in Nat
    BY WalFacts DEF IInv, TypeOK
  <1>2. LsnsOK' /\ SlotsOK' /\ FutureOK'
    BY <1>1 DEF IInv, TypeOK, LsnsOK, SlotsOK, FutureOK, NoFuturePage, Checked, Lsns
  <1>3. ASSUME NEW p \in Pages
        PROVE  PageOK(p)' /\ CopyOK(p)'
    BY <1>1 DEF IInv, TypeOK, PageOK, CopyOK, Lsns
  <1>4. ASSUME NEW p \in Pages, NEW s \in 1 .. Len(log)
        PROVE  ChangeOK(p, s)'
    BY DEF IInv, ChangeOK, WrittenBack
  <1>5. ASSUME NEW h \in Hinters
        PROVE  HintOK(h)'
    BY DEF IInv, HintOK
  <1>6. ASSUME NEW f \in Flushers
        PROVE  FlusherOK(f)'
    BY <1>1 DEF IInv, TypeOK, FlusherOK, IoPcs, SharePcs, Lsns
  <1>7. ASSUME NEW x \in Calculators
        PROVE  CalcOK(x)'
    BY DEF IInv, CalcOK
  <1> QED BY <1>1, <1>2, <1>3, <1>4, <1>5, <1>6, <1>7 DEF IInv

\* oldest_apply_lsn grows, or is given up.
LEMMA ReplicaInv ==
    ASSUME IInv, ReplicaApplies \/ ReplicaLeaves
    PROVE  IInv'
  <1> USE DEF walVars, listVars, bufVars, diskVars, ckptVars, modeVars, InsertLsn, MaxValidLsn
  <1>1. /\ mode = "run" /\ apply # InvalidLsn
        /\ apply' = InvalidLsn \/ (apply \in Nat /\ apply' = apply + 1)
        /\ UNCHANGED <<walVars, listVars, bufVars, diskVars, ckptVars, modeVars,
                       consistent, flusher, calc, hint>>
    BY DEF ReplicaApplies, ReplicaLeaves, IInv, TypeOK, Lsns
  <1>2. TypeOK'
    <2>1. apply' \in Lsns
      BY <1>1 DEF Lsns, InvalidLsn
    <2> QED BY <1>1, <2>1 DEF IInv, TypeOK
  <1>3. LsnsOK' /\ SlotsOK'
    BY <1>1 DEF IInv, LsnsOK, SlotsOK
  <1>4. FutureOK'
    BY <1>1 DEF IInv, TypeOK, FutureOK, NoFuturePage, Checked, Lsns, InvalidLsn
  <1>5. ASSUME NEW p \in Pages
        PROVE  PageOK(p)' /\ CopyOK(p)'
    BY <1>1 DEF IInv, PageOK, CopyOK
  <1>6. ASSUME NEW p \in Pages, NEW s \in 1 .. Len(log)
        PROVE  ChangeOK(p, s)'
    BY <1>1 DEF IInv, ChangeOK, WrittenBack
  <1>7. ASSUME NEW h \in Hinters
        PROVE  HintOK(h)'
    BY <1>1 DEF IInv, HintOK
  <1>8. ASSUME NEW f \in Flushers
        PROVE  FlusherOK(f)'
    BY <1>1 DEF IInv, TypeOK, FlusherOK, IoPcs, SharePcs, Lsns, InvalidLsn
  <1>9. ASSUME NEW x \in Calculators
        PROVE  CalcOK(x)'
    BY <1>1 DEF IInv, CalcOK
  <1> QED BY <1>1, <1>2, <1>3, <1>4, <1>5, <1>6, <1>7, <1>8, <1>9 DEF IInv

(***************************************************************************)
(* SyncOneBuffer() before the page is written.                             *)
(***************************************************************************)

FlusherFrame ==
    UNCHANGED <<log, whole, listVars, pageLsn, dirty, owner, diskVars, ckptVars, modeVars,
                apply, consistent, calc, hint>>

\* A step of a flusher that at most flushes WAL and clears BM_JUST_DIRTIED.
LEMMA FlusherStep ==
    ASSUME IInv, NEW f \in Flushers, flusher[f].pc # "written",
           TypeOK', flushed <= flushed', FlusherFrame,
           \A g \in Flushers : g # f => flusher'[g] = flusher[g],
           \A g \in Flushers : FlusherOK(g)'
    PROVE  IInv'
  <1> USE DEF FlusherFrame, walVars, listVars, bufVars, diskVars, ckptVars, modeVars, InsertLsn, MaxValidLsn
  <1>1. flushed' \in Nat /\ flushed \in Nat
    BY DEF IInv, TypeOK
  <1>2. LsnsOK' /\ SlotsOK' /\ FutureOK'
    BY <1>1 DEF IInv, TypeOK, LsnsOK, SlotsOK, FutureOK, NoFuturePage, Checked, Lsns
  <1>3. ASSUME NEW p \in Pages
        PROVE  PageOK(p)' /\ CopyOK(p)'
    BY <1>1 DEF IInv, TypeOK, PageOK, CopyOK, Lsns
  <1>4. ASSUME NEW p \in Pages, NEW s \in 1 .. Len(log)
        PROVE  ChangeOK(p, s)'
    <2>1. WrittenBack(p) => WrittenBack(p)'
      BY DEF WrittenBack
    <2> QED BY <2>1 DEF IInv, ChangeOK
  <1>5. ASSUME NEW h \in Hinters
        PROVE  HintOK(h)'
    BY DEF IInv, HintOK
  <1>6. ASSUME NEW x \in Calculators
        PROVE  CalcOK(x)'
    BY DEF IInv, CalcOK
  <1> QED BY <1>1, <1>2, <1>3, <1>4, <1>5, <1>6 DEF IInv

LEMMA SyncBeginInv ==
    ASSUME IInv, NEW f \in Flushers, NEW p \in Pages, SyncBegin(f, p)
    PROVE  IInv'
  <1> USE DEF walVars, listVars, bufVars, diskVars, ckptVars, modeVars
  <1>1. /\ FlusherFrame /\ UNCHANGED <<flushed, justDirtied>>
        /\ flusher[f].pc = "idle" /\ Up /\ flushed <= flushed'
    BY WalFacts DEF SyncBegin, FlusherFrame, IInv
  <1>2. /\ flusher' = [flusher EXCEPT ![f] = [pc |-> "lock", page |-> p, apply |-> apply]]
        /\ flusher'[f] = [pc |-> "lock", page |-> p, apply |-> apply]
        /\ \A g \in Flushers : g # f => flusher'[g] = flusher[g]
    BY DEF SyncBegin, IInv, TypeOK
  <1>3. TypeOK'
    BY <1>1, <1>2 DEF IInv, TypeOK, FlusherFrame, InsertLsn
  <1>4. ASSUME NEW g \in Flushers
        PROVE  FlusherOK(g)'
    <2>1. CASE g = f
      BY <1>1, <1>2, <2>1 DEF IInv, TypeOK, LsnsOK, FlusherOK, IoPcs, SharePcs, Lsns, FlusherFrame
    <2>2. CASE g # f
      BY <1>1, <1>2, <2>2 DEF IInv, TypeOK, FlusherOK, IoPcs, SharePcs, Lsns, FlusherFrame
    <2> QED BY <2>1, <2>2
  <1> QED BY <1>1, <1>2, <1>3, <1>4, FlusherStep DEF IInv, TypeOK

\* FlusherOK of the others, when f ends up outside the I/O of its page.
LEMMA OthersWait ==
    ASSUME IInv, NEW f \in Flushers, FlusherFrame, flushed <= flushed', TypeOK',
           flusher'[f].pc \notin IoPcs,
           \A g \in Flushers : g # f => flusher'[g] = flusher[g]
    PROVE  \A g \in Flushers : g # f => FlusherOK(g)'
  <1> SUFFICES ASSUME NEW g \in Flushers, g # f
               PROVE  FlusherOK(g)'
    OBVIOUS
  <1> USE DEF FlusherFrame, diskVars, listVars, modeVars
  <1>1. flusher'[g] = flusher[g] /\ FlusherOK(g)
    BY DEF IInv
  <1>2. flushed \in Nat /\ flushed' \in Nat /\ pageLsn \in [Pages -> Nat] /\ cLsn \in [Slots -> Nat]
        /\ copy \in [Pages -> Slots \cup {None}]
    BY DEF IInv, TypeOK, Lsns
  <1>3. flusher[g].pc \in IoPcs =>
          \A k \in Flushers : flusher'[k].pc \in IoPcs /\ flusher'[k].page = flusher[g].page => k = g
    BY <1>1 DEF FlusherOK
  <1> QED BY <1>1, <1>2, <1>3 DEF FlusherOK, IoPcs, SharePcs

LEMMA WaitStep ==
    ASSUME IInv, NEW f \in Flushers, FlusherFrame, flushed <= flushed', TypeOK',
           flusher[f].pc # "written", flusher'[f].pc \notin IoPcs,
           \A g \in Flushers : g # f => flusher'[g] = flusher[g],
           FlusherOK(f)'
    PROVE  IInv'
  <1>1. \A g \in Flushers : g # f => FlusherOK(g)'
    BY OthersWait
  <1>2. \A g \in Flushers : FlusherOK(g)'
    BY <1>1
  <1> QED BY <1>2, FlusherStep

LEMMA SyncDecideInv ==
    ASSUME IInv, NEW f \in Flushers, SyncDecide(f)
    PROVE  IInv'
  <1> USE DEF walVars, listVars, bufVars, diskVars, ckptVars, modeVars
  <1> DEFINE p == flusher[f].page
  <1>1. /\ FlusherFrame /\ UNCHANGED <<flushed, justDirtied>>
        /\ flusher[f].pc = "lock" /\ Up /\ owner[p] = None /\ flushed <= flushed'
    BY WalFacts DEF SyncDecide, FlusherFrame, IInv
  <1>2. PICK pc \in Choices(p, flusher[f].apply) :
           IF pc = "idle" THEN Return(f) ELSE Step(f, pc)
    BY DEF SyncDecide
  <1>3. pc \in {"flush", "flushCopy", "copy", "idle"}
    BY DEF Choices
  <1>4. p \in Pages
    BY <1>1 DEF IInv, FlusherOK
  <1>5. CASE pc = "idle"
    <2>1. Return(f)
      BY <1>2, <1>5
    <2>2. TypeOK'
      BY <1>1, <2>1, ReturnFacts DEF IInv, TypeOK, FlusherFrame, InsertLsn
    <2>3. FlusherOK(f)'
      BY <1>1, <2>1, ReturnFacts DEF IInv, FlusherOK, IoPcs, SharePcs
    <2>4. flusher'[f].pc \notin IoPcs /\ \A g \in Flushers : g # f => flusher'[g] = flusher[g]
      BY <2>1, ReturnFacts DEF IInv, IoPcs
    <2> QED BY <1>1, <2>2, <2>3, <2>4, WaitStep
  <1>6. CASE pc # "idle"
    <2>1. Step(f, pc) /\ pc \in SharePcs /\ pc \notin IoPcs
      BY <1>2, <1>3, <1>6 DEF SharePcs, IoPcs
    <2>2. TypeOK'
      BY <1>1, <2>1, StepFacts DEF IInv, TypeOK, FlusherFrame, InsertLsn
    <2>3. pc = "flush" => CanBeFlushed(p, flusher[f].apply) \/ Fullpage
      BY <1>2 DEF Choices
    <2>4. /\ flusher'[f].pc = pc /\ flusher'[f].page = p /\ flusher'[f].apply = flusher[f].apply
          /\ UNCHANGED <<apply, mode, owner, pageLsn>>
      BY <1>1, <2>1, StepFacts DEF IInv, FlusherFrame
    <2>5. /\ FlusherOK(f) /\ apply \in Nat /\ pageLsn[p] \in Nat /\ flusher[f].apply \in Nat
      BY <1>4 DEF IInv, TypeOK, Lsns
    <2>6. FlusherOK(f)'
      BY <1>1, <1>3, <1>4, <1>6, <2>1, <2>3, <2>4, <2>5 DEF FlusherOK, CanBeFlushed
    <2>7. \A g \in Flushers : g # f => flusher'[g] = flusher[g]
      BY <2>1, StepFacts DEF IInv
    <2> QED BY <1>1, <2>1, <2>2, <2>4, <2>6, <2>7, WaitStep
  <1> QED BY <1>5, <1>6

\* The flusher becomes the one that does the I/O of its page.
LEMMA IoStep ==
    ASSUME IInv, NEW f \in Flushers, FlusherFrame, flushed <= flushed', TypeOK',
           flusher[f].pc # "written", ~IoInProgress(flusher[f].page),
           flusher'[f].page = flusher[f].page,
           \A g \in Flushers : g # f => flusher'[g] = flusher[g],
           (\A g \in Flushers : flusher'[g].pc \in IoPcs /\ flusher'[g].page = flusher'[f].page => g = f)
              => FlusherOK(f)'
    PROVE  IInv'
  <1> USE DEF FlusherFrame, diskVars, listVars, modeVars
  <1>1. \A g \in Flushers : flusher'[g].pc \in IoPcs /\ flusher'[g].page = flusher'[f].page => g = f
    BY DEF IoInProgress
  <1>2. ASSUME NEW g \in Flushers, g # f
        PROVE  FlusherOK(g)'
    <2>1. flusher'[g] = flusher[g] /\ FlusherOK(g)
      BY <1>2 DEF IInv
    <2>2. flushed \in Nat /\ flushed' \in Nat /\ pageLsn \in [Pages -> Nat] /\ cLsn \in [Slots -> Nat]
          /\ copy \in [Pages -> Slots \cup {None}]
      BY DEF IInv, TypeOK, Lsns
    <2>3. flusher[g].pc \in IoPcs =>
            \A k \in Flushers : flusher'[k].pc \in IoPcs /\ flusher'[k].page = flusher[g].page => k = g
      BY <1>1, <2>1 DEF FlusherOK, IoInProgress
    <2> QED BY <2>1, <2>2, <2>3 DEF FlusherOK, IoPcs, SharePcs
  <1>3. \A g \in Flushers : FlusherOK(g)'
    BY <1>1, <1>2
  <1> QED BY <1>3, FlusherStep

\* What the larger of two LSNs is.
LEMMA LargerFacts ==
    \A a, b \in Nat : /\ Larger(a, b) \in Nat /\ a <= Larger(a, b) /\ b <= Larger(a, b)
                      /\ \A c \in Nat : a <= c /\ b <= c => Larger(a, b) <= c
  BY DEF Larger

LEMMA FlushStartInv ==
    ASSUME IInv, NEW f \in Flushers, FlushStart(f)
    PROVE  IInv'
  <1> USE DEF walVars, listVars, bufVars, diskVars, ckptVars, modeVars
  <1> DEFINE p == flusher[f].page
  <1>1. /\ FlusherFrame /\ flusher[f].pc = "flush" /\ ~IoInProgress(p)
    BY DEF FlushStart, FlusherFrame
  <1>2. p \in Pages /\ FlusherOK(f) /\ PageOK(p) /\ flushed \in Nat /\ pageLsn[p] \in Nat
    BY <1>1, WalFacts DEF IInv, FlusherOK, TypeOK, Lsns
  <1>3. CASE ~dirty[p] /\ Return(f) /\ UNCHANGED <<justDirtied, flushed>>
    <2>1. TypeOK'
      BY <1>1, <1>3, ReturnFacts DEF IInv, TypeOK, FlusherFrame, InsertLsn
    <2>2. FlusherOK(f)'
      BY <1>1, <1>3, ReturnFacts DEF IInv, FlusherOK, IoPcs, SharePcs
    <2>3. flusher'[f].pc \notin IoPcs /\ \A g \in Flushers : g # f => flusher'[g] = flusher[g]
      BY <1>3, ReturnFacts DEF IInv, IoPcs
    <2> QED BY <1>1, <1>2, <1>3, <2>1, <2>2, <2>3, WaitStep
  <1>4. CASE /\ dirty[p] /\ justDirtied' = [justDirtied EXCEPT ![p] = FALSE]
             /\ flushed' = Larger(flushed, pageLsn[p])
             /\ Step(f, "write")
    <2>1. flushed' \in Nat /\ flushed <= flushed' /\ pageLsn[p] <= flushed' /\ flushed' <= InsertLsn
      <3>1. pageLsn[p] <= InsertLsn /\ flushed <= InsertLsn /\ InsertLsn \in Nat
        BY <1>2, WalFacts DEF IInv, PageOK
      <3> QED BY <1>2, <1>4, <3>1, LargerFacts
    <2>2. "write" \in SharePcs /\ "write" \in IoPcs
      BY DEF SharePcs, IoPcs
    <2>6. justDirtied' \in [Pages -> BOOLEAN]
      BY <1>4 DEF IInv, TypeOK
    <2>3. TypeOK'
      BY <1>1, <1>4, <2>1, <2>2, <2>6, StepFacts, WalFacts DEF IInv, TypeOK, FlusherFrame, InsertLsn
    <2>4. /\ flusher'[f].pc = "write" /\ flusher'[f].page = p /\ flusher'[f].apply = flusher[f].apply
          /\ \A g \in Flushers : g # f => flusher'[g] = flusher[g]
      BY <1>4, <2>2, StepFacts DEF IInv
    <2>5. ASSUME \A g \in Flushers : flusher'[g].pc \in IoPcs /\ flusher'[g].page = flusher'[f].page => g = f
          PROVE  FlusherOK(f)'
      BY <1>1, <1>2, <1>4, <2>1, <2>4, <2>5 DEF FlusherOK, FlusherFrame, SharePcs, IoPcs
    <2> QED BY <1>1, <2>1, <2>3, <2>4, <2>5, IoStep
  <1> QED BY <1>3, <1>4 DEF FlushStart

LEMMA CopyFlushStartInv ==
    ASSUME IInv, NEW f \in Flushers, CopyFlushStart(f)
    PROVE  IInv'
  <1> USE DEF walVars, listVars, bufVars, diskVars, ckptVars, modeVars
  <1> DEFINE p == flusher[f].page
  <1>1. /\ FlusherFrame /\ flusher[f].pc = "flushCopy" /\ ~IoInProgress(p) /\ UNCHANGED justDirtied
    BY DEF CopyFlushStart, FlusherFrame
  <1>2. p \in Pages /\ FlusherOK(f) /\ PageOK(p) /\ CopyOK(p) /\ flushed \in Nat /\ pageLsn[p] \in Nat
    BY <1>1, WalFacts DEF IInv, FlusherOK, TypeOK, Lsns
  <1>3. CASE Return(f) /\ UNCHANGED flushed
    <2>1. TypeOK'
      BY <1>1, <1>3, ReturnFacts DEF IInv, TypeOK, FlusherFrame, InsertLsn
    <2>2. FlusherOK(f)'
      BY <1>1, <1>3, ReturnFacts DEF IInv, FlusherOK, IoPcs, SharePcs
    <2>3. flusher'[f].pc \notin IoPcs /\ \A g \in Flushers : g # f => flusher'[g] = flusher[g]
      BY <1>3, ReturnFacts DEF IInv, IoPcs
    <2> QED BY <1>1, <1>2, <1>3, <2>1, <2>2, <2>3, WaitStep
  <1>4. CASE /\ dirty[p] /\ copy[p] # None /\ CopyCanBeFlushed(p, apply)
             /\ flushed' = Larger(flushed, cLsn[copy[p]])
             /\ Step(f, "writeCopy")
    <2>0. cLsn[copy[p]] \in Nat /\ cLsn[copy[p]] <= pageLsn[p] /\ apply \in Nat
          /\ cLsn[copy[p]] <= InsertLsn
      <3>1. cLsn[copy[p]] \in Nat /\ cLsn[copy[p]] <= pageLsn[p] /\ apply \in Nat
        BY <1>2, <1>4 DEF CopyOK, IInv, TypeOK, Lsns
      <3> QED BY <1>2, <3>1, WalFacts DEF PageOK, IInv
    <2>1. flushed' \in Nat /\ flushed <= flushed' /\ cLsn[copy[p]] <= flushed' /\ flushed' <= InsertLsn
      BY <1>2, <1>4, <2>0, WalFacts, LargerFacts DEF IInv
    <2>2. "writeCopy" \in SharePcs /\ "writeCopy" \in IoPcs
      BY DEF SharePcs, IoPcs
    <2>3. TypeOK'
      BY <1>1, <1>4, <2>1, <2>2, StepFacts, WalFacts DEF IInv, TypeOK, FlusherFrame, InsertLsn
    <2>4. /\ flusher'[f].pc = "writeCopy" /\ flusher'[f].page = p /\ flusher'[f].apply = flusher[f].apply
          /\ \A g \in Flushers : g # f => flusher'[g] = flusher[g]
      BY <1>4, <2>2, StepFacts DEF IInv
    <2>5. apply = InvalidLsn \/ cLsn[copy[p]] <= apply
      BY <1>2, <1>4, <2>0 DEF CopyCanBeFlushed, CanBeFlushed
    <2>6. ASSUME \A g \in Flushers : flusher'[g].pc \in IoPcs /\ flusher'[g].page = flusher'[f].page => g = f
          PROVE  FlusherOK(f)'
      BY <1>1, <1>2, <1>4, <2>1, <2>4, <2>5, <2>6 DEF FlusherOK, FlusherFrame, SharePcs, IoPcs
    <2> QED BY <1>1, <2>1, <2>3, <2>4, <2>6, IoStep
  <1> QED BY <1>3, <1>4 DEF CopyFlushStart

(***************************************************************************)
(* The page, or its copy, is written to storage.                           *)
(***************************************************************************)

\* What a write leaves alone.
LEMMA WriteFrame ==
    ASSUME IInv, NEW f \in Flushers, flusher[f].pc \in IoPcs, flusher'[f].page = flusher[f].page,
           UNCHANGED <<walVars, listVars, bufVars, ckptVars, modeVars, apply, consistent, calc, hint>>,
           \A q \in Pages : q # flusher[f].page => disk'[q] = disk[q],
           \A g \in Flushers : g # f => flusher'[g] = flusher[g]
    PROVE  /\ LsnsOK' /\ SlotsOK'
           /\ \A p \in Pages : CopyOK(p)'
           /\ \A p \in Pages : p # flusher[f].page => PageOK(p)'
           /\ \A h \in Hinters : HintOK(h)'
           /\ \A x \in Calculators : CalcOK(x)'
           /\ \A g \in Flushers : g # f => FlusherOK(g)'
           /\ \A p \in Pages, s \in 1 .. Len(log) : p # flusher[f].page => ChangeOK(p, s)'
  <1> USE DEF walVars, listVars, bufVars, ckptVars, modeVars, InsertLsn, MaxValidLsn
  <1>1. LsnsOK' /\ SlotsOK'
    BY DEF IInv, LsnsOK, SlotsOK
  <1>2. ASSUME NEW p \in Pages
        PROVE  CopyOK(p)' /\ (p # flusher[f].page => PageOK(p)')
    BY DEF IInv, PageOK, CopyOK
  <1>3. ASSUME NEW h \in Hinters
        PROVE  HintOK(h)'
    BY DEF IInv, HintOK
  <1>4. ASSUME NEW x \in Calculators
        PROVE  CalcOK(x)'
    BY DEF IInv, CalcOK
  <1>5. ASSUME NEW g \in Flushers, g # f
        PROVE  FlusherOK(g)'
    <2>1. FlusherOK(g) /\ FlusherOK(f) /\ flusher'[g] = flusher[g]
      BY <1>5 DEF IInv
    <2>2. flusher[g].pc \in IoPcs =>
            /\ flusher[g].page # flusher[f].page
            /\ \A k \in Flushers : flusher'[k].pc \in IoPcs /\ flusher'[k].page = flusher[g].page => k = g
      BY <1>5, <2>1 DEF FlusherOK
    <2> QED BY <2>1, <2>2 DEF FlusherOK, IoPcs, SharePcs
  <1>6. ASSUME NEW p \in Pages, NEW s \in 1 .. Len(log), p # flusher[f].page
        PROVE  ChangeOK(p, s)'
    <2>1. WrittenBack(p) => WrittenBack(p)'
      BY <1>6 DEF WrittenBack
    <2> QED BY <1>6, <2>1 DEF IInv, ChangeOK
  <1> QED BY <1>1, <1>2, <1>3, <1>4, <1>5, <1>6

LEMMA FlushWriteInv ==
    ASSUME IInv, NEW f \in Flushers, FlushWrite(f)
    PROVE  IInv'
  <1> USE DEF walVars, listVars, bufVars, ckptVars, modeVars
  <1>0. PICK p \in Pages : flusher[f].page = p
    BY DEF IInv, FlusherOK, FlushWrite, CopyFlushWrite
  <1>1. /\ flusher[f].pc = "write" /\ flusher[f].pc \in IoPcs /\ "written" \in SharePcs
        /\ Step(f, "written")
        /\ disk' = [disk EXCEPT ![p] = pageLsn[p]]
        /\ snapshot' = [snapshot EXCEPT ![p] = Fullpage /\ ~CanBeFlushed(p, flusher[f].apply)]
        /\ UNCHANGED <<walVars, listVars, bufVars, ckptVars, modeVars, apply, consistent, calc, hint>>
    BY <1>0 DEF FlushWrite, SharePcs, IoPcs
  <1>2. /\ FlusherOK(f) /\ PageOK(p) /\ pageLsn[p] \in Nat /\ flushed \in Nat
        /\ flusher[f].apply \in Nat /\ apply \in Nat /\ disk[p] \in Nat
    BY <1>1, WalFacts DEF IInv, FlusherOK, TypeOK, Lsns
  <1>3. /\ flusher'[f].pc = "written" /\ flusher'[f].page = p /\ flusher'[f].apply = flusher[f].apply
        /\ \A g \in Flushers : g # f => flusher'[g] = flusher[g]
    BY <1>0, <1>1, StepFacts DEF IInv
  <1>4. /\ disk'[p] = pageLsn[p] /\ \A q \in Pages : q # p => disk'[q] = disk[q] /\ snapshot'[q] = snapshot[q]
        /\ snapshot'[p] = (Fullpage /\ ~CanBeFlushed(p, flusher[f].apply))
    BY <1>0, <1>1, <1>2 DEF IInv, TypeOK
  <1>5. TypeOK'
    <2>1. disk' \in [Pages -> Lsns] /\ snapshot' \in [Pages -> BOOLEAN]
      BY <1>0, <1>1, <1>2, OptionAssumption DEF IInv, TypeOK, CanBeFlushed
    <2> QED BY <1>1, <2>1, StepFacts DEF IInv, TypeOK, InsertLsn
  <1>6. FutureOK'
    <2>1. ASSUME Checked, apply # InvalidLsn
          PROVE  disk'[p] <= apply \/ snapshot'[p]
      <3>1. CASE pageLsn[p] <= apply
        BY <1>4, <3>1
      <3>2. CASE ~ (pageLsn[p] <= apply)
        <4>1. Fullpage
          BY <1>0, <1>1, <1>2, <2>1, <3>2 DEF FlusherOK, Checked
        <4>2. ~CanBeFlushed(p, flusher[f].apply)
          BY <1>0, <1>1, <1>2, <2>1, <3>2 DEF FlusherOK, CanBeFlushed
        <4> QED BY <1>4, <4>1, <4>2
      <3> QED BY <3>1, <3>2
    <2> QED BY <1>1, <1>4, <2>1 DEF IInv, FutureOK, Checked, NoFuturePage
  <1>7. PageOK(p)'
    BY <1>0, <1>1, <1>2, <1>4 DEF FlusherOK, PageOK, InsertLsn, MaxValidLsn, IoPcs
  <1>8. ASSUME NEW s \in 1 .. Len(log)
        PROVE  ChangeOK(p, s)'
    <2>1. WrittenBack(p)'
      BY <1>3 DEF WrittenBack
    <2>2. ChangeOK(p, s)
      BY <1>2 DEF IInv
    <2>3. p \in log[s] /\ pageLsn[p] <= s => ctlRedo <= s
      <3>1. /\ pageLsn[p] \in Nat /\ ctlRedo \in Nat /\ replay \in Nat
            /\ mode = "recover" => ctlRedo <= replay
        BY <1>2 DEF IInv, TypeOK, LsnsOK, Lsns
      <3> QED BY <2>2, <3>1 DEF ChangeOK
    <2> QED BY <1>0, <1>1, <1>2, <1>4, <2>1, <2>2, <2>3 DEF ChangeOK
  <1>9. FlusherOK(f)'
    <2>1. \A g \in Flushers : flusher'[g].pc \in IoPcs /\ flusher'[g].page = p => g = f
      BY <1>0, <1>1, <1>2, <1>3 DEF FlusherOK
    <2> QED BY <1>0, <1>1, <1>2, <1>3, <1>4, <2>1 DEF FlusherOK, IoPcs, SharePcs
  <1> QED BY <1>0, <1>1, <1>3, <1>4, <1>5, <1>6, <1>7, <1>8, <1>9, WriteFrame DEF IInv

LEMMA CopyFlushWriteInv ==
    ASSUME IInv, NEW f \in Flushers, CopyFlushWrite(f)
    PROVE  IInv'
  <1> USE DEF walVars, listVars, bufVars, ckptVars, modeVars
  <1>0. PICK p \in Pages : flusher[f].page = p
    BY DEF IInv, FlusherOK, FlushWrite, CopyFlushWrite
  <1>1. /\ flusher[f].pc = "writeCopy" /\ flusher[f].pc \in IoPcs /\ "copyWritten" \in SharePcs
        /\ Step(f, "copyWritten")
        /\ disk' = [disk EXCEPT ![p] = cLsn[copy[p]]]
        /\ snapshot' = [snapshot EXCEPT ![p] = FALSE]
        /\ UNCHANGED <<walVars, listVars, bufVars, ckptVars, modeVars, apply, consistent, calc, hint>>
    BY <1>0 DEF CopyFlushWrite, SharePcs, IoPcs
  <1>2. /\ FlusherOK(f) /\ PageOK(p) /\ CopyOK(p) /\ pageLsn[p] \in Nat /\ flushed \in Nat
        /\ apply \in Nat /\ disk[p] \in Nat
    BY <1>1, WalFacts DEF IInv, FlusherOK, TypeOK, Lsns
  <1>3. copy[p] # None /\ cLsn[copy[p]] \in Nat /\ cLsn[copy[p]] <= pageLsn[p]
    BY <1>0, <1>1, <1>2 DEF FlusherOK, CopyOK, IInv, TypeOK, Lsns
  <1>4. /\ flusher'[f].pc = "copyWritten" /\ flusher'[f].page = p /\ flusher'[f].apply = flusher[f].apply
        /\ \A g \in Flushers : g # f => flusher'[g] = flusher[g]
    BY <1>0, <1>1, StepFacts DEF IInv
  <1>5. /\ disk'[p] = cLsn[copy[p]]
        /\ \A q \in Pages : q # p => disk'[q] = disk[q] /\ snapshot'[q] = snapshot[q]
    BY <1>0, <1>1, <1>2 DEF IInv, TypeOK
  <1>6. TypeOK'
    <2>1. disk' \in [Pages -> Lsns] /\ snapshot' \in [Pages -> BOOLEAN]
      BY <1>0, <1>1, <1>2, <1>3 DEF IInv, TypeOK, Lsns
    <2> QED BY <1>1, <2>1, StepFacts DEF IInv, TypeOK, InsertLsn
  <1>7. FutureOK'
    <2>1. apply # InvalidLsn => disk'[p] <= apply
      BY <1>0, <1>1, <1>2, <1>5 DEF FlusherOK
    <2> QED BY <1>1, <1>5, <2>1 DEF IInv, FutureOK, Checked, NoFuturePage
  <1>8. PageOK(p)'
    BY <1>0, <1>1, <1>2, <1>3, <1>5 DEF FlusherOK, PageOK, CopyOK, InsertLsn, MaxValidLsn, IoPcs
  <1>9. ASSUME NEW s \in 1 .. Len(log)
        PROVE  ChangeOK(p, s)'
    <2>1. ~WrittenBack(p)
      BY <1>0, <1>1, <1>2 DEF WrittenBack, FlusherOK, IoPcs
    <2>2. ChangeOK(p, s)
      BY <1>2 DEF IInv
    <2> QED BY <1>0, <1>1, <1>2, <1>3, <1>5, <2>1, <2>2 DEF ChangeOK
  <1>10. FlusherOK(f)'
    <2>1. \A g \in Flushers : flusher'[g].pc \in IoPcs /\ flusher'[g].page = p => g = f
      BY <1>0, <1>1, <1>2, <1>4 DEF FlusherOK
    <2> QED BY <1>0, <1>1, <1>2, <1>4, <1>5, <2>1 DEF FlusherOK, IoPcs, SharePcs
  <1> QED BY <1>0, <1>1, <1>4, <1>5, <1>6, <1>7, <1>8, <1>9, <1>10, WriteFrame DEF IInv

(***************************************************************************)
(* Copy buffers are freed and allocated.                                   *)
(***************************************************************************)

\* Freeing the copy buffer of p leaves those of other pages alone.
LEMMA FreeFacts ==
    ASSUME IInv, NEW p \in Pages, FreeCopy(p)
    PROVE  /\ copy' \in [Pages -> Slots \cup {None}] /\ touched' \in [Pages -> BOOLEAN]
           /\ cOldest' \in [Slots -> Lsns] /\ cLsn' \in [Slots -> Lsns]
           /\ copy'[p] = None /\ ~touched'[p]
           /\ \A q \in Pages : q # p =>
                /\ copy'[q] = copy[q] /\ touched'[q] = touched[q]
                /\ copy[q] # None => /\ cOldest'[copy[q]] = cOldest[copy[q]]
                                     /\ cLsn'[copy[q]] = cLsn[copy[q]]
           /\ SlotsOK'
  <1>1. /\ copy' \in [Pages -> Slots \cup {None}] /\ touched' \in [Pages -> BOOLEAN]
        /\ cOldest' \in [Slots -> Lsns] /\ cLsn' \in [Slots -> Lsns]
        /\ copy'[p] = None /\ touched'[p] = FALSE
        /\ \A q \in Pages : q # p => copy'[q] = copy[q] /\ touched'[q] = touched[q]
    BY DEF FreeCopy, IInv, TypeOK, Lsns, InvalidLsn
  <1>2. \A c \in Slots : c # copy[p] => cOldest'[c] = cOldest[c] /\ cLsn'[c] = cLsn[c]
    BY DEF FreeCopy
  <1>3. ASSUME NEW q \in Pages, q # p, copy[q] # None
        PROVE  copy[q] \in Slots /\ copy[q] # copy[p]
    BY <1>3 DEF IInv, TypeOK, CopyOK
  <1>4. ASSUME NEW c \in Slots, cOldest'[c] # InvalidLsn
        PROVE  \E q \in Pages : copy'[q] = c
    <2>1. c # copy[p] /\ cOldest[c] # InvalidLsn
      BY <1>4 DEF FreeCopy
    <2>2. PICK q \in Pages : copy[q] = c
      BY <2>1 DEF IInv, SlotsOK
    <2> QED BY <1>1, <2>1, <2>2
  <1> QED BY <1>1, <1>2, <1>3, <1>4, Zenon DEF SlotsOK

\* The end of the I/O of p, which frees its copy buffer: what stays as it was.
LEMMA IoEndFrame ==
    ASSUME IInv, NEW f \in Flushers, NEW p \in Pages, flusher[f].page = p,
           flusher[f].pc \in {"written", "copyWritten"}, FreeCopy(p), Return(f),
           UNCHANGED <<walVars, pageLsn, justDirtied, owner, diskVars, ckptVars, modeVars,
                       apply, consistent, calc, hint>>,
           oldest' \in [Pages -> Nat], oldest'[p] \in {oldest[p], InvalidLsn},
           \A q \in Pages : q # p => oldest'[q] = oldest[q] /\ dirty'[q] = dirty[q]
    PROVE  /\ LsnsOK' /\ FutureOK'
           /\ CopyOK(p)'
           /\ \A q \in Pages : q # p => PageOK(q)' /\ CopyOK(q)'
           /\ \A q \in Pages, s \in 1 .. Len(log) : q # p => ChangeOK(q, s)'
           /\ \A h \in Hinters : HintOK(h)'
           /\ \A x \in Calculators : CalcOK(x)'
           /\ \A g \in Flushers : FlusherOK(g)'
  <1> USE DEF walVars, diskVars, ckptVars, modeVars, InsertLsn, MaxValidLsn
  <1>1. LsnsOK' /\ FutureOK'
    BY DEF IInv, LsnsOK, FutureOK, Checked, NoFuturePage
  <1>2. CopyOK(p)'
    BY FreeFacts DEF CopyOK
  <1>3. ASSUME NEW q \in Pages, q # p
        PROVE  PageOK(q)' /\ CopyOK(q)'
    <2>1. PageOK(q) /\ CopyOK(q)
      BY DEF IInv
    <2>2. PageOK(q)'
      BY <1>3, <2>1, FreeFacts DEF PageOK
    <2>3. \A r \in Pages : copy'[r] = copy[q] /\ copy[q] # None => copy[r] = copy[q]
      BY FreeFacts
    <2>4. CopyOK(q)'
      BY <1>3, <2>1, <2>3, FreeFacts DEF CopyOK
    <2> QED BY <2>2, <2>4
  <1>4. ASSUME NEW q \in Pages, NEW s \in 1 .. Len(log), q # p
        PROVE  ChangeOK(q, s)'
    <2>1. WrittenBack(q) => WrittenBack(q)'
      BY <1>4, ReturnFacts DEF WrittenBack, IInv
    <2>2. ChangeOK(q, s)
      BY DEF IInv
    <2> QED BY <1>4, <2>1, <2>2, FreeFacts DEF ChangeOK
  <1>5. ASSUME NEW h \in Hinters
        PROVE  HintOK(h)'
    BY DEF IInv, HintOK
  <1>6. ASSUME NEW x \in Calculators
        PROVE  CalcOK(x)'
    <2>1. CalcOK(x)
      BY DEF IInv
    <2>2. ASSUME calc[x].pc \in {"scan", "done"}, NEW q \in Pages
          PROVE  /\ oldest'[q] # InvalidLsn => calc[x].val <= oldest'[q]
                 /\ copy'[q] # None /\ (calc[x].pc = "done" \/ copy'[q] \notin calc[x].todo) =>
                      calc[x].val <= cOldest'[copy'[q]]
      <3>1. CASE q = p
        BY <2>1, <2>2, <3>1, FreeFacts DEF CalcOK
      <3>2. CASE q # p
        BY <2>1, <2>2, <3>2, FreeFacts DEF CalcOK
      <3> QED BY <3>1, <3>2
    <2> QED BY <2>1, <2>2 DEF CalcOK
  <1>7. ASSUME NEW g \in Flushers
        PROVE  FlusherOK(g)'
    <2>1. CASE g = f
      BY <2>1, ReturnFacts DEF IInv, FlusherOK, IoPcs, SharePcs
    <2>2. CASE g # f
      <3>1. FlusherOK(g) /\ FlusherOK(f) /\ flusher'[g] = flusher[g]
        BY <2>2, ReturnFacts DEF IInv
      <3>2. flusher[g].pc \in IoPcs =>
              /\ flusher[g].page # p
              /\ \A k \in Flushers : flusher'[k].pc \in IoPcs /\ flusher'[k].page = flusher[g].page => k = g
        <4>1. \A k \in Flushers : flusher'[k].pc \in IoPcs => flusher'[k] = flusher[k]
          BY ReturnFacts DEF IInv, IoPcs
        <4> QED BY <2>2, <3>1, <4>1 DEF FlusherOK, IoPcs
      <3>3. flusher[g].pc \in IoPcs =>
              /\ flusher[g].page \in Pages /\ dirty'[flusher[g].page] = dirty[flusher[g].page]
              /\ copy'[flusher[g].page] = copy[flusher[g].page]
              /\ copy[flusher[g].page] # None =>
                   cLsn'[copy[flusher[g].page]] = cLsn[copy[flusher[g].page]]
        BY <3>1, <3>2, FreeFacts DEF FlusherOK, IoPcs
      <3> QED BY <3>1, <3>2, <3>3 DEF FlusherOK, IoPcs, SharePcs
    <2> QED BY <2>1, <2>2
  <1> QED BY <1>1, <1>2, <1>3, <1>4, <1>5, <1>6, <1>7

LEMMA FlushEndInv ==
    ASSUME IInv, NEW f \in Flushers, FlushEnd(f)
    PROVE  IInv'
  <1> USE DEF walVars, diskVars, ckptVars, modeVars
  <1>0. PICK p \in Pages : flusher[f].page = p
    BY DEF IInv, FlusherOK, FlushEnd
  <1>1. /\ flusher[f].pc = "written" /\ FreeCopy(p) /\ Return(f)
        /\ oldest' = [oldest EXCEPT ![p] = InvalidLsn]
        /\ dirty' = [dirty EXCEPT ![p] = justDirtied[p]]
        /\ UNCHANGED <<walVars, pageLsn, justDirtied, owner, diskVars, ckptVars, modeVars,
                       apply, consistent, calc, hint>>
    BY <1>0 DEF FlushEnd
  <1>2. /\ oldest' \in [Pages -> Nat] /\ dirty' \in [Pages -> BOOLEAN] /\ oldest'[p] = InvalidLsn
        /\ \A q \in Pages : q # p => oldest'[q] = oldest[q] /\ dirty'[q] = dirty[q]
    BY <1>1 DEF IInv, TypeOK, Lsns, InvalidLsn
  <1>3. TypeOK' /\ SlotsOK'
    BY <1>1, <1>2, FreeFacts, ReturnFacts DEF IInv, TypeOK, InsertLsn, Lsns
  <1>4. disk[p] = pageLsn[p] /\ owner[p] = None /\ disk[p] \in Nat /\ PageOK(p)
    BY <1>0, <1>1 DEF IInv, FlusherOK, SharePcs, TypeOK, Lsns
  <1>5. PageOK(p)'
    BY <1>1, <1>2, <1>4, FreeFacts DEF PageOK, InsertLsn, MaxValidLsn
  <1>6. ASSUME NEW s \in 1 .. Len(log)
        PROVE  ChangeOK(p, s)'
    BY <1>1, <1>4, FreeFacts DEF IInv, ChangeOK
  <1> QED BY <1>0, <1>1, <1>2, <1>3, <1>5, <1>6, IoEndFrame DEF IInv

LEMMA CopyFlushEndInv ==
    ASSUME IInv, NEW f \in Flushers, CopyFlushEnd(f)
    PROVE  IInv'
  <1> USE DEF walVars, diskVars, ckptVars, modeVars
  <1>0. PICK p \in Pages : flusher[f].page = p
    BY DEF IInv, FlusherOK, CopyFlushEnd
  <1>1. /\ flusher[f].pc = "copyWritten" /\ FreeCopy(p) /\ Return(f)
        /\ UNCHANGED <<walVars, oldest, pageLsn, dirty, justDirtied, owner, diskVars, ckptVars, modeVars,
                       apply, consistent, calc, hint>>
    BY <1>0 DEF CopyFlushEnd, bufVars
  <1>2. oldest' \in [Pages -> Nat]
    BY <1>1 DEF IInv, TypeOK, Lsns
  <1>3. TypeOK' /\ SlotsOK'
    BY <1>1, <1>2, FreeFacts, ReturnFacts DEF IInv, TypeOK, InsertLsn, Lsns
  <1>4. /\ copy[p] # None /\ disk[p] = cLsn[copy[p]] /\ owner[p] = None
        /\ PageOK(p) /\ CopyOK(p) /\ oldest[p] # InvalidLsn
    <2>1. /\ copy[p] # None /\ disk[p] = cLsn[copy[p]] /\ owner[p] = None
          /\ PageOK(p) /\ CopyOK(p)
      BY <1>0, <1>1 DEF IInv, FlusherOK, SharePcs
    <2>2. copy[p] \in Slots /\ cOldest[copy[p]] \in Nat /\ oldest[p] \in Nat
      BY <2>1 DEF IInv, TypeOK, Lsns
    <2> QED BY <2>1, <2>2 DEF CopyOK, InvalidLsn
  <1>5. PageOK(p)'
    BY <1>1, <1>4, FreeFacts DEF PageOK, InsertLsn, MaxValidLsn
  <1>6. ASSUME NEW s \in 1 .. Len(log)
        PROVE  ChangeOK(p, s)'
    BY <1>1, <1>4, FreeFacts DEF IInv, ChangeOK
  <1> QED BY <1>0, <1>1, <1>2, <1>3, <1>5, <1>6, IoEndFrame DEF IInv

LEMMA CopyAllocInv ==
    ASSUME IInv, NEW f \in Flushers, CopyAlloc(f)
    PROVE  IInv'
  <1> USE DEF walVars, bufVars, diskVars, ckptVars, modeVars
  <1>0. PICK p \in Pages : flusher[f].page = p
    BY DEF IInv, FlusherOK, CopyAlloc
  <1>1. /\ flusher[f].pc = "copy" /\ Return(f) /\ ~IoInProgress(p)
        /\ UNCHANGED <<walVars, oldest, touched, bufVars, diskVars, ckptVars,
                       modeVars, apply, consistent, calc, hint>>
    BY <1>0 DEF CopyAlloc
  <1>2. CASE UNCHANGED <<copy, cOldest, cLsn>>
    <2>1. FlusherFrame /\ flushed <= flushed' /\ UNCHANGED <<flushed, justDirtied>>
      BY <1>1, <1>2, WalFacts DEF FlusherFrame, listVars, IInv
    <2>2. TypeOK'
      BY <1>1, <1>2, ReturnFacts DEF IInv, TypeOK, InsertLsn
    <2>3. FlusherOK(f)'
      BY <1>1, ReturnFacts DEF IInv, FlusherOK, IoPcs, SharePcs
    <2>4. flusher'[f].pc \notin IoPcs /\ \A g \in Flushers : g # f => flusher'[g] = flusher[g]
      BY <1>1, ReturnFacts DEF IInv, IoPcs
    <2> QED BY <1>1, <2>1, <2>2, <2>3, <2>4, WaitStep
  <1>3. ASSUME CopyAllowed(p, flusher[f].apply), NEW c \in FreeSlots,
               copy' = [copy EXCEPT ![p] = c], cOldest' = [cOldest EXCEPT ![c] = oldest[p]],
               cLsn' = [cLsn EXCEPT ![c] = pageLsn[p]]
        PROVE  IInv'
    <2>1. /\ c \in Slots /\ c # None /\ \A q \in Pages : copy[q] # c
          /\ dirty[p] /\ copy[p] = None /\ oldest[p] # InvalidLsn /\ mode = "run" /\ owner[p] = None
      BY <1>0, <1>1, <1>3, ProcessAssumption
         DEF FreeSlots, CopyAllowed, CopyIsSatisfied, IInv, TypeOK, LsnsOK, FlusherOK, SharePcs
    <2>2. /\ copy' \in [Pages -> Slots \cup {None}] /\ cOldest' \in [Slots -> Lsns] /\ cLsn' \in [Slots -> Lsns]
          /\ copy'[p] = c /\ cOldest'[c] = oldest[p] /\ cLsn'[c] = pageLsn[p]
          /\ \A q \in Pages : q # p => copy'[q] = copy[q]
          /\ \A d \in Slots : d # c => cOldest'[d] = cOldest[d] /\ cLsn'[d] = cLsn[d]
      BY <1>3, <2>1 DEF IInv, TypeOK
    <2>3. \A q \in Pages : q # p /\ copy[q] # None =>
             cOldest'[copy[q]] = cOldest[copy[q]] /\ cLsn'[copy[q]] = cLsn[copy[q]]
      BY <2>1, <2>2 DEF IInv, TypeOK
    <2>4. TypeOK'
      BY <1>1, <2>2, ReturnFacts DEF IInv, TypeOK, InsertLsn
    <2>5. LsnsOK' /\ FutureOK'
      BY <1>1 DEF IInv, LsnsOK, FutureOK, Checked, NoFuturePage, InsertLsn, MaxValidLsn
    <2>6. SlotsOK'
      <3>1. ASSUME NEW d \in Slots, cOldest'[d] # InvalidLsn
            PROVE  \E q \in Pages : copy'[q] = d
        <4>1. CASE d = c
          BY <2>2, <4>1
        <4>2. CASE d # c
          <5>1. PICK q \in Pages : copy[q] = d
            BY <2>2, <3>1, <4>2 DEF IInv, SlotsOK
          <5> QED BY <2>1, <2>2, <5>1, ProcessAssumption
        <4> QED BY <4>1, <4>2
      <3> QED BY <3>1 DEF SlotsOK
    <2>7. PageOK(p) /\ oldest[p] \in Nat /\ pageLsn[p] \in Nat
      BY DEF IInv, TypeOK, Lsns
    <2>8. ASSUME NEW q \in Pages
          PROVE  PageOK(q)' /\ CopyOK(q)'
      <3>1. PageOK(q) /\ CopyOK(q)
        BY DEF IInv
      <3>2. CASE q = p
        <4>1. PageOK(p)'
          BY <1>1, <2>1, <2>2, <2>7 DEF PageOK, InsertLsn, MaxValidLsn
        <4>2. CopyOK(p)'
          BY <1>1, <2>1, <2>2, <2>7 DEF PageOK, CopyOK
        <4> QED BY <3>2, <4>1, <4>2
      <3>3. CASE q # p
        <4>1. PageOK(q)'
          BY <1>1, <2>2, <3>1, <3>3 DEF PageOK, InsertLsn, MaxValidLsn
        <4>2. \A r \in Pages : copy'[r] = copy[q] /\ copy[q] # None => copy[r] = copy[q]
          BY <2>1, <2>2
        <4>3. CopyOK(q)'
          BY <1>1, <2>2, <2>3, <3>1, <3>3, <4>2 DEF CopyOK
        <4> QED BY <4>1, <4>3
      <3> QED BY <3>2, <3>3
    <2>9. ASSUME NEW q \in Pages, NEW s \in 1 .. Len(log)
          PROVE  ChangeOK(q, s)'
      <3>1. ChangeOK(q, s)
        BY DEF IInv
      <3>2. WrittenBack(q) => WrittenBack(q)'
        BY <1>1, ReturnFacts DEF WrittenBack, IInv
      <3>3. CASE q = p
        BY <1>1, <2>1, <2>2, <2>7, <3>1, <3>3 DEF ChangeOK
      <3>4. CASE q # p
        BY <1>1, <2>2, <2>3, <3>1, <3>2, <3>4 DEF ChangeOK
      <3> QED BY <3>3, <3>4
    <2>10. ASSUME NEW h \in Hinters
           PROVE  HintOK(h)'
      BY <1>1 DEF IInv, HintOK, InsertLsn
    <2>11. ASSUME NEW g \in Flushers
           PROVE  FlusherOK(g)'
      <3>1. CASE g = f
        BY <1>1, <3>1, ReturnFacts DEF IInv, FlusherOK, IoPcs, SharePcs
      <3>2. CASE g # f
        <4>1. FlusherOK(g) /\ flusher'[g] = flusher[g]
          BY <1>1, <3>2, ReturnFacts DEF IInv
        <4>2. \A k \in Flushers : flusher'[k].pc \in IoPcs => flusher'[k] = flusher[k]
          BY <1>1, ReturnFacts DEF IInv, IoPcs
        <4>3. flusher[g].pc \in IoPcs =>
                /\ flusher[g].page \in Pages /\ flusher[g].page # p
                /\ \A k \in Flushers : flusher'[k].pc \in IoPcs /\ flusher'[k].page = flusher[g].page => k = g
          BY <1>1, <4>1, <4>2 DEF FlusherOK, IoPcs, IoInProgress
        <4>4. flusher[g].pc \in IoPcs =>
                /\ copy'[flusher[g].page] = copy[flusher[g].page]
                /\ copy[flusher[g].page] # None =>
                     cLsn'[copy[flusher[g].page]] = cLsn[copy[flusher[g].page]]
          BY <2>2, <2>3, <4>3
        <4> QED BY <1>1, <4>1, <4>3, <4>4 DEF FlusherOK, IoPcs, SharePcs
      <3> QED BY <3>1, <3>2
    <2>12. ASSUME NEW x \in Calculators
           PROVE  CalcOK(x)'
      <3>1. CalcOK(x)
        BY DEF IInv
      <3>2. ASSUME calc[x].pc \in {"scan", "done"}, NEW q \in Pages
            PROVE  /\ oldest[q] # InvalidLsn => calc[x].val <= oldest[q]
                   /\ copy'[q] # None /\ (calc[x].pc = "done" \/ copy'[q] \notin calc[x].todo) =>
                        calc[x].val <= cOldest'[copy'[q]]
        <4>1. CASE q = p
          BY <2>1, <2>2, <3>1, <3>2, <4>1 DEF CalcOK
        <4>2. CASE q # p
          BY <2>2, <2>3, <3>1, <3>2, <4>2 DEF CalcOK
        <4> QED BY <4>1, <4>2
      <3> QED BY <1>1, <3>1, <3>2 DEF CalcOK, InsertLsn, MaxValidLsn
    <2> QED BY <1>1, <2>4, <2>5, <2>6, <2>8, <2>9, <2>10, <2>11, <2>12 DEF IInv
  <1> QED BY <1>0, <1>2, <1>3 DEF CopyAlloc

(***************************************************************************)
(* Pages are modified.                                                     *)
(***************************************************************************)

\* How the LSNs of the system as a whole are ordered.
LEMMA LsnFacts ==
    ASSUME IInv
    PROVE  /\ mode \in {"run", "recover"}
           /\ ctlRedo \in Nat /\ 1 <= ctlRedo /\ ctlRedo <= MaxValidLsn
           /\ consistent \in Nat /\ consistent <= MaxValidLsn
           /\ MaxValidLsn \in Nat /\ MaxValidLsn <= InsertLsn /\ InsertLsn \in Nat
           /\ mode = "run" => MaxValidLsn = InsertLsn
  <1>1. /\ ctlRedo \in Nat /\ consistent \in Nat /\ replay \in Nat /\ LsnsOK
        /\ mode \in {"run", "recover"}
    BY DEF IInv, TypeOK, Lsns, LsnsOK
  <1>2. /\ InsertLsn \in Nat /\ MaxValidLsn \in Nat /\ flushed \in Nat /\ flushed <= InsertLsn
    BY WalFacts DEF IInv
  <1> QED BY <1>1, <1>2 DEF LsnsOK, MaxValidLsn

LEMMA MarkBufferDirtyInv ==
    ASSUME IInv, NEW w \in Writers, NEW p \in Pages, MarkBufferDirty(w, p)
    PROVE  IInv'
  <1> USE DEF walVars, diskVars, ckptVars, modeVars
  <1>1. /\ mode = "run" /\ owner[p] = None /\ ~Shared(p)
        /\ owner' = [owner EXCEPT ![p] = w]
        /\ dirty' = [dirty EXCEPT ![p] = TRUE]
        /\ justDirtied' = [justDirtied EXCEPT ![p] = TRUE]
        /\ UNCHANGED <<walVars, copy, cOldest, cLsn, pageLsn, diskVars, ckptVars,
                       modeVars, apply, consistent, flusher, calc, hint>>
    BY DEF MarkBufferDirty
  <1>2. /\ owner' \in [Pages -> Writers \cup {None}] /\ owner'[p] = w /\ w # None
        /\ dirty' \in [Pages -> BOOLEAN] /\ dirty'[p] = TRUE
        /\ justDirtied' \in [Pages -> BOOLEAN]
        /\ \A q \in Pages : q # p => owner'[q] = owner[q] /\ dirty'[q] = dirty[q]
    BY <1>1, ProcessAssumption DEF IInv, TypeOK
  <1>3. /\ PageOK(p) /\ CopyOK(p) /\ LsnsOK
        /\ oldest[p] \in Nat /\ InsertLsn \in Nat /\ InsertLsn >= 1 /\ pageLsn[p] \in Nat
        /\ consistent <= InsertLsn /\ ctlRedo <= InsertLsn /\ ctlRedo \in Nat /\ consistent \in Nat
    <2>1. /\ PageOK(p) /\ CopyOK(p) /\ LsnsOK /\ oldest[p] \in Nat /\ pageLsn[p] \in Nat
      BY DEF IInv, TypeOK, Lsns
    <2> QED BY <1>1, <2>1, LsnFacts
  \* The buffer is in the list, not behind what a computation has seen.
  <1>4. /\ oldest' \in [Pages -> Nat] /\ touched' \in [Pages -> BOOLEAN]
        /\ \A q \in Pages : q # p => oldest'[q] = oldest[q] /\ touched'[q] = touched[q]
        /\ oldest'[p] # InvalidLsn
        /\ \/ oldest'[p] = InsertLsn
           \/ oldest'[p] = oldest[p]
        /\ copy[p] # None => touched'[p] /\ oldest[p] # InvalidLsn
        /\ copy[p] = None => ~touched'[p]
        /\ \/ oldest[p] = InvalidLsn \/ oldest'[p] = oldest[p]
           \/ (copy[p] # None /\ ~touched[p])
    <2>1. oldest \in [Pages -> Nat] /\ touched \in [Pages -> BOOLEAN]
      BY DEF IInv, TypeOK, Lsns
    <2>2. copy[p] = None => ~touched[p]
      BY <1>3 DEF PageOK
    <2>3. copy[p] # None => oldest[p] # InvalidLsn
      BY <1>3 DEF CopyOK, IInv, TypeOK, Lsns, InvalidLsn
    <2>4. SetFakeOldestLsn(p)
      BY DEF MarkBufferDirty
    <2>5. CASE /\ oldest[p] = InvalidLsn /\ oldest' = [oldest EXCEPT ![p] = InsertLsn] /\ UNCHANGED touched
      BY <1>3, <2>1, <2>2, <2>3, <2>5 DEF InvalidLsn
    <2>6. CASE /\ oldest[p] # InvalidLsn /\ copy[p] # None /\ ~touched[p]
               /\ oldest' = [oldest EXCEPT ![p] = InsertLsn] /\ touched' = [touched EXCEPT ![p] = TRUE]
      BY <1>3, <2>1, <2>2, <2>3, <2>6 DEF InvalidLsn
    <2>7. CASE /\ oldest[p] # InvalidLsn /\ (copy[p] = None \/ touched[p]) /\ UNCHANGED <<oldest, touched>>
      BY <1>3, <2>1, <2>2, <2>3, <2>7 DEF InvalidLsn
    <2> QED BY <2>4, <2>5, <2>6, <2>7 DEF SetFakeOldestLsn
  <1>5. TypeOK'
    BY <1>1, <1>2, <1>4 DEF IInv, TypeOK, InsertLsn, Lsns
  <1>6. LsnsOK' /\ SlotsOK' /\ FutureOK'
    BY <1>1 DEF IInv, LsnsOK, SlotsOK, FutureOK, Checked, NoFuturePage, InsertLsn, MaxValidLsn
  <1>7. ASSUME NEW q \in Pages
        PROVE  PageOK(q)' /\ CopyOK(q)'
    <2>1. CASE q = p
      <3>1. PageOK(p)'
        BY <1>1, <1>2, <1>3, <1>4, ProcessAssumption DEF PageOK, MaxValidLsn, InsertLsn
      <3>2. copy[p] # None => cOldest[copy[p]] \in Nat /\ cLsn[copy[p]] \in Nat /\ cOldest[copy[p]] <= oldest'[p]
        <4>1. copy[p] # None => cOldest[copy[p]] \in Nat /\ cLsn[copy[p]] \in Nat
          BY DEF IInv, TypeOK, Lsns
        <4>2. oldest[p] # InvalidLsn => oldest[p] <= InsertLsn
          BY <1>1, <1>3 DEF PageOK, MaxValidLsn
        <4> QED BY <1>3, <1>4, <4>1, <4>2 DEF CopyOK
      <3>3. CopyOK(p)'
        BY <1>1, <1>2, <1>3, <1>4, <3>2 DEF CopyOK
      <3> QED BY <2>1, <3>1, <3>3
    <2>2. CASE q # p
      <3>1. PageOK(q) /\ CopyOK(q)
        BY DEF IInv
      <3>2. PageOK(q)'
        BY <1>1, <1>2, <1>4, <2>2, <3>1 DEF PageOK, MaxValidLsn, InsertLsn
      <3>3. CopyOK(q)'
        BY <1>1, <1>2, <1>4, <2>2, <3>1 DEF CopyOK
      <3> QED BY <3>2, <3>3
    <2> QED BY <2>1, <2>2
  <1>8. ASSUME NEW q \in Pages, NEW s \in 1 .. Len(log)
        PROVE  ChangeOK(q, s)'
    <2>1. ChangeOK(q, s) /\ (WrittenBack(q) => WrittenBack(q)')
      BY <1>1 DEF IInv, WrittenBack
    <2>2. CASE q = p
      <3>1. p \in log[s] => s < pageLsn[p]
        BY <1>1, <2>1, <2>2 DEF ChangeOK
      <3>2. copy[p] # None /\ ~touched[p] => cLsn[copy[p]] = pageLsn[p]
        BY <1>3 DEF CopyOK
      <3>3. p \in log[s] /\ copy[p] # None /\ cLsn[copy[p]] <= s => oldest'[p] <= s
        BY <1>3, <1>4, <2>1, <2>2, <3>1, <3>2 DEF ChangeOK
      <3>4. p \in log[s] /\ disk[p] <= s /\ copy[p] = None => oldest'[p] <= s
        BY <1>4, <2>1, <2>2, <3>1 DEF ChangeOK
      <3> QED BY <1>1, <1>4, <2>1, <2>2, <3>3, <3>4 DEF ChangeOK
    <2>3. CASE q # p
      BY <1>1, <1>4, <2>1, <2>3 DEF ChangeOK
    <2> QED BY <2>2, <2>3
  <1>9. ASSUME NEW h \in Hinters
        PROVE  HintOK(h)'
    <2>1. hint[h].page # p
      BY <1>1 DEF Shared
    <2>2. HintOK(h) /\ hint[h].page \in Pages \cup {None}
      BY DEF IInv, TypeOK
    <2> QED BY <1>1, <1>2, <2>1, <2>2 DEF HintOK, InsertLsn
  <1>10. ASSUME NEW f \in Flushers
         PROVE  FlusherOK(f)'
    <2>1. flusher[f].pc \in SharePcs => flusher[f].page # p
      BY <1>1 DEF Shared
    <2> QED BY <1>1, <1>2, <2>1 DEF IInv, FlusherOK, SharePcs, IoPcs
  <1>11. ASSUME NEW x \in Calculators
         PROVE  CalcOK(x)'
    <2>1. calc[x].val \in Nat /\ CalcOK(x)
      BY DEF IInv, TypeOK, Lsns
    <2> QED BY <1>1, <1>3, <1>4, <2>1 DEF CalcOK, MaxValidLsn, InsertLsn
  <1> QED BY <1>1, <1>5, <1>6, <1>7, <1>8, <1>9, <1>10, <1>11 DEF IInv

\* The WAL grows by a record: nothing else than the record itself has to be seen to.
LEMMA WalGrows ==
    ASSUME IInv, NEW S \in SUBSET Pages, NEW I \in SUBSET Pages,
           log' = Append(log, S), whole' = Append(whole, I), mode = "run",
           UNCHANGED <<flushed, listVars, dirty, diskVars, ckptVars, modeVars, apply, consistent, flusher, calc>>
    PROVE  /\ LsnsOK' /\ SlotsOK' /\ FutureOK'
           /\ \A x \in Calculators : CalcOK(x)'
           /\ \A p \in Pages : UNCHANGED <<pageLsn, owner>> => PageOK(p)' /\ CopyOK(p)'
           /\ \A f \in Flushers : UNCHANGED <<pageLsn, owner>> => FlusherOK(f)'
  <1> USE DEF listVars, diskVars, ckptVars, modeVars
  <1>1. InsertLsn' = InsertLsn + 1 /\ InsertLsn \in Nat /\ MaxValidLsn = InsertLsn /\ MaxValidLsn' = InsertLsn + 1
        /\ consistent \in Nat
    BY AppendFacts, WalFacts, LsnFacts DEF IInv, MaxValidLsn
  <1>2. LsnsOK' /\ SlotsOK' /\ FutureOK'
    BY <1>1 DEF IInv, LsnsOK, SlotsOK, FutureOK, Checked, NoFuturePage
  <1>3. ASSUME NEW x \in Calculators
        PROVE  CalcOK(x)'
    <2>1. CalcOK(x) /\ calc[x].val \in Nat
      BY DEF IInv, TypeOK, Lsns
    <2> QED BY <1>1, <2>1 DEF CalcOK
  <1>4. ASSUME NEW p \in Pages, UNCHANGED <<pageLsn, owner>>
        PROVE  PageOK(p)' /\ CopyOK(p)'
    <2>1. PageOK(p) /\ CopyOK(p) /\ pageLsn[p] \in Nat /\ oldest[p] \in Nat
      BY DEF IInv, TypeOK, Lsns
    <2> QED BY <1>1, <1>4, <2>1 DEF PageOK, CopyOK
  <1>5. ASSUME NEW f \in Flushers, UNCHANGED <<pageLsn, owner>>
        PROVE  FlusherOK(f)'
    BY <1>5 DEF IInv, FlusherOK
  <1> QED BY <1>2, <1>3, <1>4, <1>5

LEMMA XLogInsertInv ==
    ASSUME IInv, NEW w \in Writers, XLogInsert(w)
    PROVE  IInv'
  <1> USE DEF listVars, diskVars, ckptVars, modeVars
  <1> DEFINE S == {p \in Pages : owner[p] = w}
  <1>1. /\ mode = "run" /\ log' = Append(log, S)
        /\ pageLsn' = [p \in Pages |-> IF p \in S THEN InsertLsn + 1 ELSE pageLsn[p]]
        /\ owner' = [p \in Pages |-> IF p \in S THEN None ELSE owner[p]]
        /\ UNCHANGED <<flushed, listVars, dirty, justDirtied, diskVars, ckptVars,
                       modeVars, apply, consistent, flusher, calc, hint>>
    BY DEF XLogInsert
  <1>2. PICK T \in SUBSET Pages : T = S
    OBVIOUS
  <1>I. PICK I \in SUBSET Pages : whole' = Append(whole, I)
    BY DEF XLogInsert, WholePages
  <1>3. /\ log' = Append(log, T)
        /\ \A p \in Pages : p \in T <=> owner[p] = w
        /\ \A p \in T : pageLsn'[p] = InsertLsn + 1 /\ owner'[p] = None /\ owner[p] # None
        /\ \A p \in Pages \ T : pageLsn'[p] = pageLsn[p] /\ owner'[p] = owner[p]
    BY <1>1, <1>2, ProcessAssumption
  <1> HIDE DEF S
  <1>4. /\ InsertLsn \in Nat /\ InsertLsn' = InsertLsn + 1 /\ MaxValidLsn = InsertLsn
        /\ flushed \in Nat /\ flushed <= InsertLsn
        /\ log' \in Seq(SUBSET Pages) /\ InsertLsn = Len(log) + 1
        /\ whole' \in Seq(SUBSET Pages) /\ Len(whole') = Len(log')
        /\ ctlRedo \in Nat /\ ctlRedo <= InsertLsn /\ MaxValidLsn' = InsertLsn + 1
        /\ consistent \in Nat
    BY <1>I, <1>1, <1>3, AppendFacts, WalFacts, LsnFacts DEF IInv, MaxValidLsn
  <1>5. TypeOK'
    <2>1. pageLsn' \in [Pages -> Lsns] /\ owner' \in [Pages -> Writers \cup {None}]
      BY <1>1, <1>4 DEF IInv, TypeOK, Lsns
    <2>2. flushed' \in 1 .. InsertLsn'
      BY <1>1, <1>4, WalFacts DEF IInv
    <2> QED BY <1>1, <1>4, <2>1, <2>2 DEF IInv, TypeOK
  <1>6. /\ LsnsOK' /\ SlotsOK' /\ FutureOK' /\ \A x \in Calculators : CalcOK(x)'
    BY <1>I, <1>1, <1>3, WalGrows
  <1>7. ASSUME NEW p \in Pages
        PROVE  PageOK(p)' /\ CopyOK(p)'
    <2>1. PageOK(p) /\ CopyOK(p) /\ pageLsn[p] \in Nat /\ oldest[p] \in Nat
      BY DEF IInv, TypeOK, Lsns
    <2>2. pageLsn[p] <= pageLsn'[p] /\ pageLsn'[p] <= InsertLsn + 1 /\ pageLsn'[p] \in Nat
      BY <1>3, <1>4, <2>1 DEF PageOK
    <2>3. PageOK(p)'
      <3>1. CASE p \in T
        <4>1. dirty[p] /\ owner'[p] = None
          BY <1>3, <2>1, <3>1 DEF PageOK
        <4> QED BY <1>1, <1>4, <2>1, <2>2, <4>1 DEF PageOK
      <3>2. CASE p \notin T
        <4>1. pageLsn'[p] = pageLsn[p] /\ owner'[p] = owner[p]
          BY <1>3, <3>2
        <4> QED BY <1>1, <1>4, <2>1, <2>2, <4>1 DEF PageOK
      <3> QED BY <3>1, <3>2
    <2>4. copy[p] # None => cLsn[copy[p]] \in Nat
      BY DEF IInv, TypeOK, Lsns
    <2>5. copy[p] # None /\ ~touched[p] => pageLsn'[p] = pageLsn[p]
      BY <1>3, <2>1 DEF PageOK
    <2>6. CopyOK(p)'
      BY <1>1, <2>1, <2>2, <2>4, <2>5 DEF CopyOK
    <2> QED BY <2>3, <2>6
  <1>8. ASSUME NEW p \in Pages, NEW s \in 1 .. Len(log')
        PROVE  ChangeOK(p, s)'
    <2>1. PageOK(p) /\ CopyOK(p) /\ pageLsn[p] \in Nat /\ oldest[p] \in Nat /\ disk[p] \in Nat
      BY DEF IInv, TypeOK, Lsns
    <2>2. copy[p] # None => cLsn[copy[p]] \in Nat /\ cOldest[copy[p]] \in Nat
      BY DEF IInv, TypeOK, Lsns
    <2>3. WrittenBack(p) => WrittenBack(p)'
      BY <1>1 DEF WrittenBack
    <2>4. CASE s \in 1 .. Len(log)
      <3>1. log'[s] = log[s] /\ ChangeOK(p, s) /\ s < InsertLsn
        BY <1>I, <1>3, <1>4, <2>4, AppendFacts DEF IInv
      <3>2. p \in log[s] => s < pageLsn[p] /\ s < pageLsn'[p]
        BY <1>1, <1>3, <1>4, <2>1, <2>4, <3>1 DEF ChangeOK
      <3> QED BY <1>1, <2>3, <3>1, <3>2 DEF ChangeOK
    <2>5. CASE s = Len(log) + 1
      <3>1. log'[s] = T /\ s = InsertLsn
        BY <1>I, <1>3, <1>4, <2>5, AppendFacts DEF IInv
      <3>2. CASE p \notin T
        BY <3>1, <3>2 DEF ChangeOK
      <3>3. CASE p \in T
        <4>1. /\ pageLsn'[p] = s + 1 /\ s \in Nat /\ disk[p] <= s /\ ctlRedo <= s
              /\ oldest[p] # InvalidLsn /\ oldest[p] <= s
          BY <1>3, <1>4, <2>1, <3>1, <3>3 DEF PageOK
        <4>2. copy[p] # None => cOldest[copy[p]] <= s
          BY <2>1, <2>2, <4>1 DEF CopyOK
        <4> QED BY <1>1, <2>1, <4>1, <4>2 DEF ChangeOK
      <3> QED BY <3>2, <3>3
    <2> QED BY <1>I, <1>3, <2>4, <2>5, AppendFacts DEF IInv
  <1>9. ASSUME NEW h \in Hinters
        PROVE  HintOK(h)'
    <2>1. HintOK(h) /\ hint[h].page \in Pages \cup {None} /\ hint[h].lsn \in Nat
      BY DEF IInv, TypeOK, Lsns
    <2>2. CASE hint[h].page = None
      BY <1>1, <2>1, <2>2 DEF HintOK
    <2>3. CASE hint[h].page \in Pages
      <3>1. owner[hint[h].page] = None /\ hint[h].page \notin T /\ owner'[hint[h].page] = None
        BY <1>3, <2>1, <2>3, ProcessAssumption DEF HintOK
      <3>2. ASSUME NEW s \in 1 .. Len(log'), hint[h].page \in log'[s]
            PROVE  s \in 1 .. Len(log) /\ hint[h].page \in log[s]
        BY <1>I, <1>3, <3>1, <3>2, AppendFacts DEF IInv
      <3> QED BY <1>1, <1>4, <2>1, <3>1, <3>2 DEF HintOK
    <2> QED BY <2>1, <2>2, <2>3
  <1>10. ASSUME NEW f \in Flushers
         PROVE  FlusherOK(f)'
    <2>1. FlusherOK(f)
      BY DEF IInv
    <2>2. flusher[f].pc \in SharePcs =>
            /\ pageLsn'[flusher[f].page] = pageLsn[flusher[f].page]
            /\ owner'[flusher[f].page] = None
      BY <1>3, <2>1, ProcessAssumption DEF FlusherOK, SharePcs
    <2> QED BY <1>1, <2>1, <2>2 DEF FlusherOK, SharePcs, IoPcs
  <1> QED BY <1>5, <1>6, <1>7, <1>8, <1>9, <1>10 DEF IInv

LEMMA HintBeginInv ==
    ASSUME IInv, NEW h \in Hinters, NEW p \in Pages, HintBegin(h, p)
    PROVE  IInv'
  <1> USE DEF listVars, bufVars, diskVars, ckptVars, modeVars
  <1> DEFINE logged == LogHints /\ pageLsn[p] <= redoPtr
  <1>1. /\ mode = "run" /\ owner[p] = None
        /\ IF logged THEN log' = Append(log, {}) ELSE UNCHANGED <<log, whole>>
        /\ logged => \E I \in SUBSET Pages : whole' = Append(whole, I)
        /\ hint' = [hint EXCEPT ![h] =
                      [page |-> p, lsn |-> IF logged THEN InsertLsn + 1 ELSE InvalidLsn]]
        /\ UNCHANGED <<flushed, listVars, bufVars, diskVars, ckptVars, modeVars,
                       apply, consistent, flusher, calc>>
    BY DEF HintBegin, WholePages
  <1>2. InsertLsn \in Nat /\ flushed \in Nat /\ flushed <= InsertLsn /\ InsertLsn = Len(log) + 1
    BY WalFacts DEF IInv
  <1>3. /\ hint' \in [Hinters -> [page : Pages \cup {None}, lsn : Lsns]]
        /\ hint'[h].page = p /\ hint'[h].lsn = IF logged THEN InsertLsn + 1 ELSE InvalidLsn
        /\ \A g \in Hinters : g # h => hint'[g] = hint[g]
    BY <1>1, <1>2 DEF IInv, TypeOK, Lsns, InvalidLsn
  <1>4. p # None
    BY ProcessAssumption
  <1>5. CASE ~logged
    <2>1. UNCHANGED <<log, whole>> /\ hint'[h].lsn = InvalidLsn
      BY <1>1, <1>3, <1>5
    <2>2. TypeOK'
      BY <1>1, <1>3, <2>1 DEF IInv, TypeOK, InsertLsn
    <2>3. LsnsOK' /\ SlotsOK' /\ FutureOK'
      BY <1>1, <2>1 DEF IInv, LsnsOK, SlotsOK, FutureOK, Checked, NoFuturePage, InsertLsn, MaxValidLsn
    <2>4. ASSUME NEW q \in Pages
          PROVE  PageOK(q)' /\ CopyOK(q)'
      BY <1>1, <2>1 DEF IInv, PageOK, CopyOK, InsertLsn, MaxValidLsn
    <2>5. ASSUME NEW q \in Pages, NEW s \in 1 .. Len(log)
          PROVE  ChangeOK(q, s)'
      BY <1>1, <2>1 DEF IInv, ChangeOK, WrittenBack
    <2>6. ASSUME NEW g \in Hinters
          PROVE  HintOK(g)'
      <3>1. CASE g = h
        BY <1>1, <1>2, <1>3, <2>1, <3>1 DEF HintOK, InsertLsn, InvalidLsn
      <3>2. CASE g # h
        <4>1. HintOK(g) /\ hint'[g] = hint[g]
          BY <1>3, <3>2 DEF IInv
        <4> QED BY <1>1, <2>1, <4>1 DEF HintOK, InsertLsn
      <3> QED BY <3>1, <3>2
    <2>7. ASSUME NEW f \in Flushers
          PROVE  FlusherOK(f)'
      BY <1>1 DEF IInv, FlusherOK
    <2>8. ASSUME NEW x \in Calculators
          PROVE  CalcOK(x)'
      BY <1>1, <2>1 DEF IInv, CalcOK, InsertLsn, MaxValidLsn
    <2> QED BY <2>1, <2>2, <2>3, <2>4, <2>5, <2>6, <2>7, <2>8 DEF IInv
  <1>6. CASE logged
    <2>1. log' = Append(log, {}) /\ {} \in SUBSET Pages /\ hint'[h].lsn = InsertLsn + 1 /\ LogHints
      BY <1>1, <1>3, <1>6
    <2>I. PICK I \in SUBSET Pages : whole' = Append(whole, I)
      BY <1>1, <1>6
    <2>2. /\ InsertLsn' = InsertLsn + 1 /\ log' \in Seq(SUBSET Pages) /\ Len(log') = Len(log) + 1
          /\ \A s \in 1 .. Len(log) : log'[s] = log[s]
          /\ whole' \in Seq(SUBSET Pages) /\ Len(whole') = Len(log')
          /\ log'[Len(log) + 1] = {} /\ 1 .. Len(log') = (1 .. Len(log)) \cup {Len(log) + 1}
      BY <2>1, <2>I, AppendFacts DEF IInv
    <2>3. flushed' \in 1 .. InsertLsn'
      BY <1>1, <1>2, <2>2, WalFacts DEF IInv
    <2>4. TypeOK'
      BY <1>1, <1>3, <2>2, <2>3 DEF IInv, TypeOK
    <2>5. ASSUME NEW q \in Pages, NEW s \in 1 .. Len(log')
          PROVE  ChangeOK(q, s)'
      <3>1. CASE s \in 1 .. Len(log)
        <4>1. ChangeOK(q, s) /\ log'[s] = log[s]
          BY <2>2, <3>1 DEF IInv
        <4> QED BY <1>1, <4>1 DEF ChangeOK, WrittenBack
      <3>2. CASE s = Len(log) + 1
        BY <2>2, <3>2 DEF ChangeOK
      <3> QED BY <2>2, <3>1, <3>2
    <2>6. ASSUME NEW g \in Hinters
          PROVE  HintOK(g)'
      <3>1. CASE g = h
        BY <1>1, <1>2, <1>3, <2>1, <2>2, <3>1 DEF HintOK
      <3>2. CASE g # h
        <4>1. HintOK(g) /\ hint'[g] = hint[g] /\ hint[g].lsn \in Nat
          BY <1>3, <3>2 DEF IInv, TypeOK, Lsns
        <4>2. ASSUME NEW s \in 1 .. Len(log'), hint[g].page \in log'[s]
              PROVE  s \in 1 .. Len(log) /\ hint[g].page \in log[s]
          BY <2>2, <4>2
        <4>3. InsertLsn' = InsertLsn + 1
          BY <2>2
        <4> QED BY <1>1, <1>2, <4>1, <4>2, <4>3 DEF HintOK
      <3> QED BY <3>1, <3>2
    <2>7. /\ LsnsOK' /\ SlotsOK' /\ FutureOK' /\ \A x \in Calculators : CalcOK(x)'
          /\ \A q \in Pages : PageOK(q)' /\ CopyOK(q)'
          /\ \A f \in Flushers : FlusherOK(f)'
      BY <1>1, <2>1, <2>I, WalGrows
    <2> QED BY <2>4, <2>5, <2>6, <2>7 DEF IInv
  <1> QED BY <1>5, <1>6

LEMMA HintEndInv ==
    ASSUME IInv, NEW h \in Hinters, HintEnd(h)
    PROVE  IInv'
  <1> USE DEF walVars, listVars, diskVars, ckptVars, modeVars
  <1>0. PICK p \in Pages : hint[h].page = p
    BY DEF IInv, TypeOK, HintEnd
  <1>1. /\ mode = "run"
        /\ pageLsn' = IF dirty[p] \/ hint[h].lsn = InvalidLsn THEN pageLsn
                      ELSE [pageLsn EXCEPT ![p] = hint[h].lsn]
        /\ dirty' = [dirty EXCEPT ![p] = TRUE]
        /\ justDirtied' = [justDirtied EXCEPT ![p] = TRUE]
        /\ hint' = [hint EXCEPT ![h] = NoHint]
        /\ UNCHANGED <<walVars, listVars, owner, diskVars, ckptVars, modeVars,
                       apply, consistent, flusher, calc>>
    BY <1>0 DEF HintEnd
  <1>2. /\ HintOK(h) /\ PageOK(p) /\ CopyOK(p) /\ hint[h].lsn \in Nat /\ pageLsn[p] \in Nat /\ disk[p] \in Nat
        /\ p # None /\ InsertLsn \in Nat
    BY ProcessAssumption, WalFacts DEF IInv, TypeOK, Lsns
  <1>3. /\ hint' \in [Hinters -> [page : Pages \cup {None}, lsn : Lsns]]
        /\ hint'[h].page = None /\ hint'[h].lsn = InvalidLsn
        /\ \A g \in Hinters : g # h => hint'[g] = hint[g]
        /\ dirty' \in [Pages -> BOOLEAN] /\ justDirtied' \in [Pages -> BOOLEAN]
        /\ dirty'[p] = TRUE
        /\ \A q \in Pages : q # p => dirty'[q] = dirty[q]
    BY <1>1 DEF IInv, TypeOK, Lsns, InvalidLsn, NoHint
  <1>4. /\ pageLsn' \in [Pages -> Lsns]
        /\ \A q \in Pages : q # p => pageLsn'[q] = pageLsn[q]
        /\ dirty[p] \/ hint[h].lsn = InvalidLsn => pageLsn'[p] = pageLsn[p]
        /\ ~dirty[p] /\ hint[h].lsn # InvalidLsn => pageLsn'[p] = hint[h].lsn
    BY <1>1, <1>2 DEF IInv, TypeOK, Lsns
  <1>5. TypeOK'
    BY <1>1, <1>3, <1>4 DEF IInv, TypeOK, InsertLsn
  <1>6. LsnsOK' /\ SlotsOK' /\ FutureOK'
    BY <1>1 DEF IInv, LsnsOK, SlotsOK, FutureOK, Checked, NoFuturePage, InsertLsn, MaxValidLsn
  <1>7. ASSUME NEW q \in Pages
        PROVE  PageOK(q)' /\ CopyOK(q)'
    <2>1. CASE q = p
      <3>1. 1 <= pageLsn'[p] /\ pageLsn'[p] <= InsertLsn
        BY <1>0, <1>2, <1>4 DEF PageOK, HintOK, InvalidLsn
      <3>2. PageOK(p)'
        BY <1>1, <1>2, <1>3, <3>1 DEF PageOK, InsertLsn, MaxValidLsn
      <3>3. CopyOK(p)'
        BY <1>1, <1>2, <1>3, <1>4 DEF CopyOK
      <3> QED BY <2>1, <3>2, <3>3
    <2>2. CASE q # p
      <3>1. PageOK(q) /\ CopyOK(q) /\ pageLsn'[q] = pageLsn[q] /\ dirty'[q] = dirty[q]
        BY <1>3, <1>4, <2>2 DEF IInv
      <3> QED BY <1>1, <3>1 DEF PageOK, CopyOK, InsertLsn, MaxValidLsn
    <2> QED BY <2>1, <2>2
  <1>8. ASSUME NEW q \in Pages, NEW s \in 1 .. Len(log)
        PROVE  ChangeOK(q, s)'
    <2>1. ChangeOK(q, s) /\ (WrittenBack(q) => WrittenBack(q)')
      BY <1>1 DEF IInv, WrittenBack
    <2>2. q \in log[s] => s < pageLsn[q] /\ s < pageLsn'[q]
      BY <1>0, <1>1, <1>2, <1>4, <2>1 DEF ChangeOK, HintOK
    <2> QED BY <1>1, <2>1, <2>2 DEF ChangeOK
  <1>9. ASSUME NEW g \in Hinters
        PROVE  HintOK(g)'
    <2>1. CASE g = h
      BY <1>3, <2>1 DEF HintOK
    <2>2. CASE g # h
      <3>1. HintOK(g) /\ hint'[g] = hint[g]
        BY <1>3, <2>2 DEF IInv
      <3> QED BY <1>1, <3>1 DEF HintOK, InsertLsn
    <2> QED BY <2>1, <2>2
  <1>10. ASSUME NEW f \in Flushers
         PROVE  FlusherOK(f)'
    <2>1. FlusherOK(f)
      BY DEF IInv
    <2>2. flusher[f].pc \in IoPcs =>
            /\ dirty'[flusher[f].page]
            /\ pageLsn'[flusher[f].page] = pageLsn[flusher[f].page]
      BY <1>3, <1>4, <2>1 DEF FlusherOK, IoPcs
    <2>3. flusher[f].pc # "idle" /\ ~LogHints => pageLsn'[flusher[f].page] = pageLsn[flusher[f].page]
      BY <1>2, <1>4, <2>1 DEF FlusherOK, HintOK
    <2> QED BY <1>1, <2>1, <2>2, <2>3 DEF FlusherOK, IoPcs, SharePcs
  <1>11. ASSUME NEW x \in Calculators
         PROVE  CalcOK(x)'
    BY <1>1 DEF IInv, CalcOK, InsertLsn, MaxValidLsn
  <1> QED BY <1>1, <1>5, <1>6, <1>7, <1>8, <1>9, <1>10, <1>11 DEF IInv

(***************************************************************************)
(* The consistent LSN.                                                     *)
(***************************************************************************)

\* A step that changes only the state of a computation.
LEMMA CalcStep ==
    ASSUME IInv, NEW x \in Calculators, CalcUnchanged, UNCHANGED <<ckptVars, modeVars, consistent>>,
           calc' \in [Calculators -> [pc : {"idle", "sync", "scan", "done"},
                                      cur : Lsns, val : Lsns, todo : SUBSET Slots]],
           \A y \in Calculators : y # x => calc'[y] = calc[y],
           CalcOK(x)'
    PROVE  IInv'
  <1> USE DEF CalcUnchanged, walVars, listVars, bufVars, diskVars, ckptVars, modeVars
  <1>1. TypeOK'
    BY DEF IInv, TypeOK, InsertLsn
  <1>2. LsnsOK' /\ SlotsOK' /\ FutureOK'
    BY DEF IInv, LsnsOK, SlotsOK, FutureOK, Checked, NoFuturePage, InsertLsn, MaxValidLsn
  <1>3. ASSUME NEW q \in Pages
        PROVE  PageOK(q)' /\ CopyOK(q)'
    BY DEF IInv, PageOK, CopyOK, InsertLsn, MaxValidLsn
  <1>4. ASSUME NEW q \in Pages, NEW s \in 1 .. Len(log)
        PROVE  ChangeOK(q, s)'
    BY DEF IInv, ChangeOK, WrittenBack
  <1>5. ASSUME NEW h \in Hinters
        PROVE  HintOK(h)'
    BY DEF IInv, HintOK, InsertLsn
  <1>6. ASSUME NEW f \in Flushers
        PROVE  FlusherOK(f)'
    BY DEF IInv, FlusherOK
  <1>7. ASSUME NEW y \in Calculators, y # x
        PROVE  CalcOK(y)'
    BY <1>7 DEF IInv, CalcOK, InsertLsn, MaxValidLsn
  <1> QED BY <1>1, <1>2, <1>3, <1>4, <1>5, <1>6, <1>7 DEF IInv

LEMMA CalcBeginInv ==
    ASSUME IInv, NEW x \in Calculators, CalcBegin(x)
    PROVE  IInv'
  <1>1. /\ calc' \in [Calculators -> [pc : {"idle", "sync", "scan", "done"},
                                      cur : Lsns, val : Lsns, todo : SUBSET Slots]]
        /\ calc'[x].pc = "sync" /\ calc'[x].cur = consistent
        /\ \A y \in Calculators : y # x => calc'[y] = calc[y]
    <2>1. /\ calc \in [Calculators -> [pc : {"idle", "sync", "scan", "done"},
                                    cur : Lsns, val : Lsns, todo : SUBSET Slots]]
          /\ consistent \in Lsns
      BY DEF IInv, TypeOK
    <2> QED BY <2>1 DEF CalcBegin
  <1>2. x # Checkpointer /\ consistent \in Nat
    BY ProcessAssumption, LsnFacts DEF CalcBegin
  <1>3. CalcOK(x)'
    BY <1>1, <1>2 DEF CalcOK, CalcBegin
  <1> QED BY <1>1, <1>3, CalcStep DEF CalcBegin

LEMMA CkptCalcBeginInv ==
    ASSUME IInv, CkptCalcBegin
    PROVE  IInv'
  <1> DEFINE x == Checkpointer
  <1>0. x \in Calculators
    BY DEF Calculators
  <1>1. /\ calc' \in [Calculators -> [pc : {"idle", "sync", "scan", "done"},
                                      cur : Lsns, val : Lsns, todo : SUBSET Slots]]
        /\ calc'[x].pc = "sync" /\ calc'[x].cur = calc[x].cur
        /\ \A y \in Calculators : y # x => calc'[y] = calc[y]
    <2>1. calc \in [Calculators -> [pc : {"idle", "sync", "scan", "done"},
                                    cur : Lsns, val : Lsns, todo : SUBSET Slots]]
      BY DEF IInv, TypeOK
    <2> QED BY <1>0, <2>1 DEF CkptCalcBegin
  <1>2. CalcOK(x) /\ mode = "run" /\ ckpt.pc = "idle"
    BY <1>0 DEF CkptCalcBegin, CkptReady, IInv
  <1>3. CalcOK(x)'
    BY <1>1, <1>2 DEF CalcOK, CkptCalcBegin, modeVars, ckptVars
  <1> QED BY <1>0, <1>1, <1>3, CalcStep DEF CkptCalcBegin

LEMMA CalcHeadInv ==
    ASSUME IInv, NEW x \in Calculators, CalcHead(x)
    PROVE  IInv'
  <1> USE DEF CalcUnchanged, walVars, listVars, ckptVars, modeVars
  <1>1. CalcOK(x) /\ calc[x].pc = "sync"
    BY DEF CalcHead, IInv
  <1>2. UNCHANGED <<log, whole, listVars, ckptVars, modeVars, consistent>> /\ CalcUnchanged
    BY DEF CalcHead
  <1>3. CASE InList = {} /\ calc' = [calc EXCEPT ![x].pc = "done", ![x].val = MaxValidLsn]
    <2>1. /\ calc' \in [Calculators -> [pc : {"idle", "sync", "scan", "done"},
                                        cur : Lsns, val : Lsns, todo : SUBSET Slots]]
          /\ calc'[x].pc = "done" /\ calc'[x].cur = calc[x].cur /\ calc'[x].val = MaxValidLsn
          /\ \A y \in Calculators : y # x => calc'[y] = calc[y]
      <3>1. calc \in [Calculators -> [pc : {"idle", "sync", "scan", "done"},
                                    cur : Lsns, val : Lsns, todo : SUBSET Slots]]
        BY DEF IInv, TypeOK
      <3>2. MaxValidLsn \in Lsns
        BY LsnFacts DEF Lsns
      <3> QED BY <1>3, <3>1, <3>2
    <2>2. \A p \in Pages : oldest[p] = InvalidLsn /\ copy[p] = None
      <3>1. \A p \in Pages : oldest[p] = InvalidLsn
        BY <1>3 DEF InList
      <3>2. ASSUME NEW p \in Pages, copy[p] # None
            PROVE  FALSE
        <4>1. cOldest[copy[p]] \in Nat /\ cOldest[copy[p]] # 0 /\ cOldest[copy[p]] <= oldest[p]
          BY <3>2 DEF IInv, TypeOK, CopyOK, Lsns, InvalidLsn
        <4> QED BY <3>1, <4>1 DEF InvalidLsn
      <3> QED BY <3>1, <3>2
    <2>3. calc[x].cur \in Nat /\ calc[x].cur <= consistent
      BY <1>1 DEF CalcOK, IInv, TypeOK, Lsns
    <2>4. CalcOK(x)'
      <3>1. calc[x].cur <= MaxValidLsn /\ ctlRedo <= MaxValidLsn /\ MaxValidLsn <= MaxValidLsn
        BY <2>3, LsnFacts
      <3>2. MaxValidLsn' = MaxValidLsn
        BY <1>2 DEF MaxValidLsn, InsertLsn
      <3> QED BY <1>1, <1>2, <2>1, <2>2, <2>3, <3>1, <3>2 DEF CalcOK
    <2> QED BY <1>2, <2>1, <2>4, CalcStep
  <1>4. CASE /\ InList # {}
             /\ calc' = [calc EXCEPT ![x].pc = "scan", ![x].val = HeadLsn, ![x].todo = Slots]
    <2>1. PICK p \in InList : HeadLsn = oldest[p]
      BY <1>4, HeadFacts DEF IInv
    <2>2. HeadLsn \in Nat /\ \A q \in Pages : oldest[q] # InvalidLsn => HeadLsn <= oldest[q]
      BY <1>4, HeadFacts DEF IInv, InList
    <2>3. /\ calc' \in [Calculators -> [pc : {"idle", "sync", "scan", "done"},
                                        cur : Lsns, val : Lsns, todo : SUBSET Slots]]
          /\ calc'[x].pc = "scan" /\ calc'[x].cur = calc[x].cur /\ calc'[x].val = HeadLsn
          /\ calc'[x].todo = Slots
          /\ \A y \in Calculators : y # x => calc'[y] = calc[y]
      <3>1. calc \in [Calculators -> [pc : {"idle", "sync", "scan", "done"},
                                      cur : Nat, val : Nat, todo : SUBSET Slots]]
        BY DEF IInv, TypeOK, Lsns
      <3>2. ASSUME NEW v \in Nat, NEW S \in SUBSET Slots,
                   calc' = [calc EXCEPT ![x].pc = "scan", ![x].val = v, ![x].todo = S]
            PROVE  /\ calc' \in [Calculators -> [pc : {"idle", "sync", "scan", "done"},
                                                cur : Nat, val : Nat, todo : SUBSET Slots]]
                   /\ calc'[x].pc = "scan" /\ calc'[x].cur = calc[x].cur /\ calc'[x].val = v
                   /\ calc'[x].todo = S
                   /\ \A y \in Calculators : y # x => calc'[y] = calc[y]
        BY <3>1, <3>2
      <3> QED BY <1>4, <2>2, <3>2 DEF Lsns
    <2>4. ctlRedo <= HeadLsn /\ consistent <= HeadLsn /\ HeadLsn <= MaxValidLsn
      BY <2>1 DEF IInv, PageOK, InList
    <2>5. calc[x].cur \in Nat /\ calc[x].cur <= consistent
      BY <1>1 DEF CalcOK, IInv, TypeOK, Lsns
    <2>6. \A q \in Pages : copy[q] # None => copy[q] \in Slots
      BY DEF IInv, TypeOK
    <2>7. calc[x].cur <= HeadLsn
      BY <2>2, <2>4, <2>5, LsnFacts
    <2>8. CalcOK(x)'
      BY <1>1, <1>2, <2>2, <2>3, <2>4, <2>5, <2>6, <2>7 DEF CalcOK, MaxValidLsn, InsertLsn
    <2> QED BY <1>2, <2>3, <2>8, CalcStep
  <1> QED BY <1>3, <1>4 DEF CalcHead

LEMMA CalcScanInv ==
    ASSUME IInv, NEW x \in Calculators, CalcScan(x)
    PROVE  IInv'
  <1> USE DEF CalcUnchanged, walVars, listVars, ckptVars, modeVars
  <1>1. /\ CalcOK(x) /\ calc[x].pc = "scan" /\ calc[x].cur \in Nat /\ calc[x].val \in Nat
        /\ calc[x].todo \in SUBSET Slots
    BY DEF CalcScan, IInv, TypeOK, Lsns
  <1>2. UNCHANGED <<log, whole, listVars, ckptVars, modeVars, consistent>> /\ CalcUnchanged
        /\ MaxValidLsn' = MaxValidLsn
    BY DEF CalcScan, MaxValidLsn, InsertLsn
  <1>3. CASE calc[x].todo = {} /\ calc' = [calc EXCEPT ![x].pc = "done"]
    <2>1. /\ calc' \in [Calculators -> [pc : {"idle", "sync", "scan", "done"},
                                        cur : Lsns, val : Lsns, todo : SUBSET Slots]]
          /\ calc'[x].pc = "done" /\ calc'[x].cur = calc[x].cur /\ calc'[x].val = calc[x].val
          /\ \A y \in Calculators : y # x => calc'[y] = calc[y]
      <3>1. calc \in [Calculators -> [pc : {"idle", "sync", "scan", "done"},
                                    cur : Lsns, val : Lsns, todo : SUBSET Slots]]
        BY DEF IInv, TypeOK
      <3> QED BY <1>3, <3>1
    <2>2. CalcOK(x)'
      BY <1>1, <1>2, <1>3, <2>1 DEF CalcOK
    <2> QED BY <1>2, <2>1, <2>2, CalcStep
  <1>4. ASSUME NEW c \in calc[x].todo,
               calc' = [calc EXCEPT
                          ![x].todo = calc[x].todo \ {c},
                          ![x].val = IF cOldest[c] = InvalidLsn THEN calc[x].val
                                     ELSE Smaller(calc[x].val, cOldest[c])]
        PROVE  IInv'
    <2> DEFINE v == IF cOldest[c] = InvalidLsn THEN calc[x].val ELSE Smaller(calc[x].val, cOldest[c])
    <2>1. /\ c \in Slots /\ cOldest[c] \in Nat
          /\ v \in Nat /\ v <= calc[x].val /\ (cOldest[c] # InvalidLsn => v <= cOldest[c])
          /\ v = calc[x].val \/ (cOldest[c] # InvalidLsn /\ v = cOldest[c])
      BY <1>1, <1>4 DEF Smaller, IInv, TypeOK, Lsns
    <2>2. /\ calc' \in [Calculators -> [pc : {"idle", "sync", "scan", "done"},
                                        cur : Lsns, val : Lsns, todo : SUBSET Slots]]
          /\ calc'[x].pc = "scan" /\ calc'[x].cur = calc[x].cur /\ calc'[x].val = v
          /\ calc'[x].todo = calc[x].todo \ {c}
          /\ \A y \in Calculators : y # x => calc'[y] = calc[y]
      <3> HIDE DEF v
      <3>1. calc \in [Calculators -> [pc : {"idle", "sync", "scan", "done"},
                                      cur : Nat, val : Nat, todo : SUBSET Slots]]
        BY DEF IInv, TypeOK, Lsns
      <3>2. calc[x].todo \ {c} \in SUBSET Slots
        BY <1>1
      <3>3. calc' = [calc EXCEPT ![x].todo = calc[x].todo \ {c}, ![x].val = v]
        BY <1>4 DEF v
      <3> QED BY <1>1, <2>1, <3>1, <3>2, <3>3 DEF Lsns
    <2> HIDE DEF v
    \* A copy buffer in use is not behind the consistent LSN.
    <2>3. cOldest[c] # InvalidLsn => ctlRedo <= cOldest[c] /\ consistent <= cOldest[c]
      <3>1. ASSUME cOldest[c] # InvalidLsn
            PROVE  \E p \in Pages : copy[p] = c /\ c # None
        BY <2>1, <3>1, ProcessAssumption DEF IInv, SlotsOK
      <3> QED BY <3>1 DEF IInv, CopyOK
    <2>4. calc[x].cur <= v /\ v <= MaxValidLsn
      BY <1>1, <2>1, <2>3, LsnFacts DEF CalcOK
    <2>5. ctlRedo <= v \/ (x # Checkpointer /\ consistent # InvalidLsn)
      BY <1>1, <2>1, <2>3 DEF CalcOK
    <2>6. ASSUME NEW p \in Pages
          PROVE  /\ oldest[p] # InvalidLsn => v <= oldest[p]
                 /\ copy[p] # None /\ copy[p] \notin calc[x].todo \ {c} => v <= cOldest[copy[p]]
      <3>1. oldest[p] \in Nat /\ CopyOK(p) /\ (copy[p] # None => cOldest[copy[p]] \in Nat)
        BY DEF IInv, TypeOK, Lsns
      <3> QED BY <1>1, <2>1, <3>1 DEF CalcOK, CopyOK
    <2>7. CalcOK(x)'
      BY <1>1, <1>2, <2>2, <2>4, <2>5, <2>6 DEF CalcOK
    <2> QED BY <1>2, <2>2, <2>7, CalcStep
  <1> QED BY <1>3, <1>4 DEF CalcScan

\* A computation ends; its result may be published and become the redo point.
LEMMA PublishStep ==
    ASSUME IInv, NEW x \in Calculators, calc[x].pc = "done", calc' = [calc EXCEPT ![x] = NoCalc],
           consistent' = consistent \/ (mode = "run" /\ consistent' = Larger(consistent, calc[x].val)),
           CalcUnchanged, UNCHANGED <<ctlRedo, modeVars>>,
           \/ UNCHANGED <<ckpt, redoPtr>>
           \/ /\ mode = "run" /\ x = Checkpointer
              /\ ckpt' = [pc |-> "wait", redo |-> calc[x].val] /\ redoPtr' = calc[x].val
    PROVE  IInv'
  <1> USE DEF CalcUnchanged, walVars, listVars, bufVars, diskVars, modeVars
  <1> DEFINE v == calc[x].val
  <1>1. CalcOK(x) /\ v \in Nat
    BY DEF IInv, TypeOK, Lsns
  <1>2. /\ calc' \in [Calculators -> [pc : {"idle", "sync", "scan", "done"},
                                      cur : Lsns, val : Lsns, todo : SUBSET Slots]]
        /\ calc'[x].pc = "idle" /\ calc'[x].cur = InvalidLsn
        /\ \A y \in Calculators : y # x => calc'[y] = calc[y]
    BY DEF IInv, TypeOK, NoCalc, Lsns, InvalidLsn
  <1>3. /\ consistent' \in Nat /\ consistent <= consistent' /\ consistent \in Nat
        /\ consistent' = consistent \/ (mode = "run" /\ consistent' = v)
    BY <1>1, LsnFacts DEF Larger
  <1>4. MaxValidLsn' = MaxValidLsn /\ v <= MaxValidLsn /\ consistent' <= MaxValidLsn
    <2>1. MaxValidLsn' = MaxValidLsn
      BY DEF MaxValidLsn, InsertLsn
    <2>2. v <= MaxValidLsn
      BY <1>1 DEF CalcOK
    <2> QED BY <1>3, <2>1, <2>2, LsnFacts
  <1>5. TypeOK'
    <2>1. ckpt' \in [pc : {"idle", "wait"}, redo : Lsns] /\ redoPtr' \in Lsns
      BY <1>1 DEF IInv, TypeOK, Lsns
    <2> QED BY <1>2, <1>3, <2>1 DEF IInv, TypeOK, InsertLsn, Lsns
  <1>6. consistent' # InvalidLsn => ctlRedo <= consistent'
    BY <1>1, <1>3, LsnFacts DEF CalcOK, IInv, LsnsOK, InvalidLsn
  <1>7. ckpt'.pc = "wait" => ctlRedo <= ckpt'.redo
    BY <1>1 DEF IInv, LsnsOK, CalcOK
  <1>8. mode = "recover" => ckpt'.pc = "idle" /\ consistent' = InvalidLsn
    BY <1>3 DEF IInv, LsnsOK
  <1>9. LsnsOK' /\ SlotsOK' /\ FutureOK'
    BY <1>4, <1>6, <1>7, <1>8 DEF IInv, LsnsOK, SlotsOK, FutureOK, Checked, NoFuturePage, InsertLsn
  <1>10. ASSUME NEW q \in Pages
         PROVE  PageOK(q)' /\ CopyOK(q)'
    <2>1. PageOK(q) /\ CopyOK(q)
      BY DEF IInv
    <2>2. oldest[q] # InvalidLsn => consistent' <= oldest[q]
      BY <1>1, <1>3, <2>1 DEF PageOK, CalcOK
    <2>3. copy[q] # None => consistent' <= cOldest[copy[q]]
      BY <1>1, <1>3, <2>1 DEF CopyOK, CalcOK
    <2> QED BY <1>4, <2>1, <2>2, <2>3 DEF PageOK, CopyOK, InsertLsn
  <1>11. ASSUME NEW q \in Pages, NEW s \in 1 .. Len(log)
         PROVE  ChangeOK(q, s)'
    BY DEF IInv, ChangeOK, WrittenBack
  <1>12. ASSUME NEW h \in Hinters
         PROVE  HintOK(h)'
    BY DEF IInv, HintOK, InsertLsn
  <1>13. ASSUME NEW f \in Flushers
         PROVE  FlusherOK(f)'
    BY DEF IInv, FlusherOK
  <1>14. ASSUME NEW y \in Calculators
         PROVE  CalcOK(y)'
    <2>1. CASE y = x
      BY <1>2, <1>3, <2>1 DEF CalcOK, InvalidLsn
    <2>2. CASE y # x
      <3>1. CalcOK(y) /\ calc'[y] = calc[y] /\ calc[y].cur \in Nat
        BY <1>2, <2>2 DEF IInv, TypeOK, Lsns
      <3>2. consistent # InvalidLsn => consistent' # InvalidLsn
        BY <1>3 DEF InvalidLsn
      <3>3. calc[y].cur <= consistent'
        BY <1>3, <3>1 DEF CalcOK
      <3>4. y = Checkpointer => UNCHANGED ckpt
        BY <2>2
      <3> QED BY <1>4, <3>1, <3>2, <3>3, <3>4 DEF CalcOK
    <2> QED BY <2>1, <2>2
  <1> QED BY <1>5, <1>9, <1>10, <1>11, <1>12, <1>13, <1>14 DEF IInv

LEMMA CalcEndInv ==
    ASSUME IInv, NEW x \in Calculators, CalcEnd(x)
    PROVE  IInv'
  <1>1. ~ (calc[x].val < calc[x].cur)
    BY DEF CalcEnd, IInv, TypeOK, CalcOK, Lsns
  <1>2. /\ calc[x].pc = "done" /\ calc' = [calc EXCEPT ![x] = NoCalc] /\ CalcUnchanged
        /\ UNCHANGED <<ckptVars, replay, replayed, crashes, mode>>
        /\ IF x = MainBgwriter THEN SetConsistent(calc[x].val) ELSE UNCHANGED consistent
    BY <1>1 DEF CalcEnd
  <1> QED BY <1>2, PublishStep DEF SetConsistent, ckptVars, modeVars

\* The redo point is not behind the last one: FixRedo does not PANIC.
LEMMA CkptCalcEndInv ==
    ASSUME IInv, CkptCalcEnd
    PROVE  IInv'
  <1> DEFINE x == Checkpointer
  <1>0. x \in Calculators
    BY DEF Calculators
  <1>1. /\ mode = "run" /\ calc[x].pc = "done" /\ calc' = [calc EXCEPT ![x] = NoCalc]
        /\ CalcUnchanged /\ UNCHANGED <<ctlRedo, replay, replayed, crashes>>
        /\ SetConsistent(calc[x].val) /\ FixRedo(calc[x].val)
    BY DEF CkptCalcEnd
  <1>2. ~ (calc[x].val < ctlRedo)
    BY <1>0, <1>1 DEF IInv, TypeOK, CalcOK, Lsns
  <1>3. ckpt' = [pc |-> "wait", redo |-> calc[x].val] /\ redoPtr' = calc[x].val /\ UNCHANGED mode
    BY <1>1, <1>2 DEF FixRedo
  <1> QED BY <1>0, <1>1, <1>3, PublishStep DEF SetConsistent, modeVars

(***************************************************************************)
(* Checkpoints.                                                            *)
(***************************************************************************)

LEMMA BeginCheckPointInv ==
    ASSUME IInv, CkptNormal \/ CkptIncremental
    PROVE  IInv'
  <1> USE DEF CalcUnchanged, walVars, listVars, bufVars, diskVars, modeVars
  <1> DEFINE lsn == IF CkptNormal THEN InsertLsn ELSE consistent
  <1>1. lsn \in Nat /\ ctlRedo <= lsn /\ mode = "run" /\ ctlRedo \in Nat
    BY LsnFacts DEF CkptNormal, CkptIncremental, CkptReady, IInv, LsnsOK
  <1>2. /\ calc[Checkpointer].pc = "idle" /\ CalcUnchanged /\ FixRedo(lsn)
        /\ UNCHANGED <<ctlRedo, replay, replayed, crashes, consistent, calc>>
    BY DEF CkptNormal, CkptIncremental, CkptReady
  <1> HIDE DEF lsn
  <1>3. ckpt' = [pc |-> "wait", redo |-> lsn] /\ redoPtr' = lsn /\ UNCHANGED mode
    BY <1>1, <1>2 DEF FixRedo
  <1>4. TypeOK'
    BY <1>1, <1>2, <1>3 DEF IInv, TypeOK, InsertLsn, Lsns
  <1>5. LsnsOK' /\ SlotsOK' /\ FutureOK'
    BY <1>1, <1>2, <1>3 DEF IInv, LsnsOK, SlotsOK, FutureOK, Checked, NoFuturePage, InsertLsn, MaxValidLsn
  <1>6. ASSUME NEW q \in Pages
        PROVE  PageOK(q)' /\ CopyOK(q)'
    BY <1>2, <1>3 DEF IInv, PageOK, CopyOK, InsertLsn, MaxValidLsn
  <1>7. ASSUME NEW q \in Pages, NEW s \in 1 .. Len(log)
        PROVE  ChangeOK(q, s)'
    BY <1>2, <1>3 DEF IInv, ChangeOK, WrittenBack
  <1>8. ASSUME NEW h \in Hinters
        PROVE  HintOK(h)'
    BY <1>2, <1>3 DEF IInv, HintOK, InsertLsn
  <1>9. ASSUME NEW f \in Flushers
        PROVE  FlusherOK(f)'
    BY <1>2, <1>3 DEF IInv, FlusherOK
  <1>10. ASSUME NEW y \in Calculators
         PROVE  CalcOK(y)'
    BY <1>2, <1>3 DEF IInv, CalcOK, InsertLsn, MaxValidLsn
  <1> QED BY <1>2, <1>4, <1>5, <1>6, <1>7, <1>8, <1>9, <1>10 DEF IInv

LEMMA CkptEndInv ==
    ASSUME IInv, CkptEnd
    PROVE  IInv'
  <1> USE DEF listVars, bufVars, diskVars, modeVars
  <1>1. /\ mode = "run" /\ ckpt.pc = "wait" /\ ckpt.redo <= consistent
        /\ flushed' = InsertLsn /\ ctlRedo' = ckpt.redo /\ ckpt' = NoCkpt
        /\ UNCHANGED <<log, whole, listVars, bufVars, diskVars, redoPtr, modeVars,
                       apply, consistent, flusher, calc, hint>>
    BY DEF CkptEnd
  <1>2. /\ ckpt.redo \in Nat /\ 1 <= ckpt.redo /\ ckpt.redo <= InsertLsn /\ InsertLsn \in Nat
        /\ ctlRedo \in Nat /\ ctlRedo <= ckpt.redo /\ consistent \in Nat /\ consistent # InvalidLsn
        /\ flushed \in Nat /\ flushed <= InsertLsn /\ 1 <= InsertLsn /\ LsnsOK
        /\ InsertLsn' = InsertLsn /\ MaxValidLsn' = MaxValidLsn /\ MaxValidLsn = InsertLsn
    <2>1. ckpt.redo \in Nat /\ LsnsOK
      BY DEF IInv, TypeOK, Lsns
    <2>2. ctlRedo <= ckpt.redo
      BY <1>1, <2>1 DEF LsnsOK
    <2>3. InsertLsn' = InsertLsn /\ MaxValidLsn' = MaxValidLsn
      BY <1>1 DEF InsertLsn, MaxValidLsn
    <2> QED BY <1>1, <2>1, <2>2, <2>3, LsnFacts, WalFacts DEF IInv, InvalidLsn
  <1>3. TypeOK'
    <2>1. ckpt' \in [pc : {"idle", "wait"}, redo : Lsns]
      BY <1>1 DEF Lsns, NoCkpt, InvalidLsn
    <2>2. flushed' \in 1 .. InsertLsn' /\ ctlRedo' \in Lsns
      BY <1>1, <1>2 DEF Lsns
    <2> QED BY <1>1, <2>1, <2>2 DEF IInv, TypeOK
  <1>4. LsnsOK' /\ SlotsOK' /\ FutureOK'
    BY <1>1, <1>2 DEF IInv, LsnsOK, SlotsOK, FutureOK, Checked, NoFuturePage, NoCkpt
  <1>5. ASSUME NEW q \in Pages
        PROVE  PageOK(q)' /\ CopyOK(q)'
    <2>1. PageOK(q) /\ CopyOK(q) /\ disk[q] \in Nat /\ oldest[q] \in Nat
      BY DEF IInv, TypeOK, Lsns
    <2>2. copy[q] # None => cOldest[copy[q]] \in Nat
      BY DEF IInv, TypeOK, Lsns
    <2>3. PageOK(q)'
      BY <1>1, <1>2, <2>1 DEF PageOK
    <2>4. CopyOK(q)'
      BY <1>1, <1>2, <2>1, <2>2 DEF CopyOK
    <2> QED BY <2>3, <2>4
  <1>6. ASSUME NEW q \in Pages, NEW s \in 1 .. Len(log)
        PROVE  ChangeOK(q, s)'
    <2>1. PageOK(q) /\ CopyOK(q) /\ ChangeOK(q, s) /\ oldest[q] \in Nat
      BY DEF IInv, TypeOK, Lsns
    <2>2. copy[q] # None => cOldest[copy[q]] \in Nat
      BY DEF IInv, TypeOK, Lsns
    \* The change is covered, and the consistent LSN is behind what covers it.
    <2>3. q \in log[s] /\ disk[q] <= s => ckpt.redo <= s
      <3>1. CASE copy[q] = None
        BY <1>1, <1>2, <2>1, <3>1 DEF ChangeOK, PageOK
      <3>2. CASE copy[q] # None
        BY <1>1, <1>2, <2>1, <2>2, <3>2 DEF ChangeOK, CopyOK
      <3> QED BY <3>1, <3>2
    <2> QED BY <1>1, <2>1, <2>3 DEF ChangeOK, WrittenBack
  <1>7. ASSUME NEW h \in Hinters
        PROVE  HintOK(h)'
    BY <1>1, <1>2 DEF IInv, HintOK
  <1>8. ASSUME NEW f \in Flushers
        PROVE  FlusherOK(f)'
    <2>1. FlusherOK(f) /\ pageLsn \in [Pages -> Nat] /\ cLsn \in [Slots -> Nat]
          /\ copy \in [Pages -> Slots \cup {None}]
      BY DEF IInv, TypeOK, Lsns
    <2> QED BY <1>1, <1>2, <2>1 DEF FlusherOK, IoPcs, SharePcs
  <1>9. ASSUME NEW x \in Calculators
        PROVE  CalcOK(x)'
    <2>1. CalcOK(x)
      BY DEF IInv
    <2>2. x = Checkpointer => calc[x].pc = "idle"
      BY <1>1, <2>1 DEF CalcOK
    <2> QED BY <1>1, <1>2, <2>1, <2>2 DEF CalcOK
  <1> QED BY <1>1, <1>3, <1>4, <1>5, <1>6, <1>7, <1>8, <1>9 DEF IInv

(***************************************************************************)
(* Crash and recovery.                                                     *)
(***************************************************************************)

\* The WAL on storage is the part before flushed.
LEMMA StorageFacts ==
    ASSUME TypeOK, NEW wal \in Seq(SUBSET Pages), Len(wal) = Len(log)
    PROVE  /\ WalOnStorage(wal) \in Seq(SUBSET Pages) /\ Len(WalOnStorage(wal)) = flushed - 1
           /\ \A s \in 1 .. flushed - 1 : WalOnStorage(wal)[s] = wal[s] /\ s \in 1 .. Len(log)
  <1>1. flushed \in Nat /\ 1 <= flushed /\ flushed - 1 <= Len(log) /\ Len(log) \in Nat
    BY WalFacts
  <1> QED BY <1>1 DEF WalOnStorage

LEMMA CrashInv ==
    ASSUME IInv, Crash
    PROVE  IInv'
  <1>1. /\ mode' = "recover" /\ replay' = ctlRedo /\ replayed' = {} /\ pageLsn' = disk
        /\ log' = WalOnStorage(log) /\ whole' = WalOnStorage(whole)
        /\ crashes' = crashes + 1
        /\ apply' = InvalidLsn /\ consistent' = InvalidLsn
        /\ ckpt' = NoCkpt /\ redoPtr' = ctlRedo
        /\ UNCHANGED <<flushed, disk, snapshot, ctlRedo>>
    BY DEF Crash, diskVars
  <1>2. \A p \in Pages : /\ dirty'[p] = FALSE /\ oldest'[p] = InvalidLsn /\ owner'[p] = None
                         /\ copy'[p] = None /\ touched'[p] = FALSE
    BY DEF Crash
  <1>3. /\ \A c \in Slots : cOldest'[c] = InvalidLsn
        /\ \A h \in Hinters : hint'[h].page = None /\ hint'[h].lsn = InvalidLsn
        /\ \A f \in Flushers : flusher'[f].pc = "idle" /\ flusher'[f].apply = InvalidLsn
        /\ \A x \in Calculators : calc'[x].pc = "idle" /\ calc'[x].cur = InvalidLsn
    BY DEF Crash, NoHint, Asleep, NoCalc
  <1>4. /\ log' \in Seq(SUBSET Pages) /\ Len(log') = flushed - 1 /\ InsertLsn' = flushed
        /\ \A s \in 1 .. flushed - 1 : log'[s] = log[s] /\ s \in 1 .. Len(log)
        /\ flushed \in Nat /\ 1 <= flushed /\ flushed' \in 1 .. InsertLsn'
        /\ whole' \in Seq(SUBSET Pages) /\ Len(whole') = Len(log')
    <2>0. TypeOK /\ log \in Seq(SUBSET Pages) /\ whole \in Seq(SUBSET Pages) /\ Len(whole) = Len(log)
      BY DEF IInv, TypeOK
    <2>1. /\ log' \in Seq(SUBSET Pages) /\ Len(log') = flushed - 1
          /\ whole' \in Seq(SUBSET Pages) /\ Len(whole') = flushed - 1
          /\ \A s \in 1 .. flushed - 1 : log'[s] = log[s] /\ s \in 1 .. Len(log)
      BY <1>1, <2>0, StorageFacts
    <2>2. flushed \in Nat /\ 1 <= flushed
      BY WalFacts DEF IInv
    <2>3. InsertLsn' = flushed
      BY <2>1, <2>2 DEF InsertLsn
    <2> QED BY <1>1, <2>1, <2>2, <2>3
  <1>5. TypeOK'
    <2>1. /\ dirty' \in [Pages -> BOOLEAN] /\ justDirtied' \in [Pages -> BOOLEAN]
          /\ oldest' \in [Pages -> Lsns] /\ owner' \in [Pages -> Writers \cup {None}]
          /\ copy' \in [Pages -> Slots \cup {None}] /\ touched' \in [Pages -> BOOLEAN]
          /\ cOldest' \in [Slots -> Lsns] /\ cLsn' \in [Slots -> Lsns]
      BY DEF Crash, Lsns, InvalidLsn
    <2>2. /\ hint' \in [Hinters -> [page : Pages \cup {None}, lsn : Lsns]]
          /\ flusher' \in [Flushers -> [pc : SharePcs \cup {"idle", "lock"},
                                        page : Pages \cup {None}, apply : Lsns]]
          /\ calc' \in [Calculators -> [pc : {"idle", "sync", "scan", "done"},
                                        cur : Lsns, val : Lsns, todo : SUBSET Slots]]
          /\ ckpt' \in [pc : {"idle", "wait"}, redo : Lsns]
      BY DEF Crash, Lsns, InvalidLsn, NoHint, Asleep, NoCalc, NoCkpt
    <2>3. /\ disk \in [Pages -> Lsns] /\ snapshot \in [Pages -> BOOLEAN]
          /\ ctlRedo \in Lsns /\ crashes' \in Nat
      BY <1>1 DEF IInv, TypeOK
    <2>4. apply' \in Lsns /\ consistent' \in Lsns /\ mode' \in {"run", "recover", "panic"}
      BY <1>1 DEF Lsns, InvalidLsn
    <2> QED BY <1>1, <1>4, <2>1, <2>2, <2>3, <2>4 DEF TypeOK
  <1>6. ctlRedo \in Nat /\ 1 <= ctlRedo /\ ctlRedo <= flushed
    BY DEF IInv, TypeOK, LsnsOK, Lsns
  <1>7. LsnsOK' /\ SlotsOK' /\ FutureOK'
    <2>1. MaxValidLsn' = ctlRedo
      BY <1>1 DEF MaxValidLsn
    <2>2. LsnsOK'
      BY <1>1, <1>4, <1>6, <2>1 DEF LsnsOK, NoCkpt, InvalidLsn
    <2> QED BY <1>1, <1>3, <2>2 DEF SlotsOK, FutureOK, NoFuturePage
  <1>8. ASSUME NEW p \in Pages
        PROVE  PageOK(p)' /\ CopyOK(p)'
    <2>1. PageOK(p) /\ disk[p] \in Nat
      BY DEF IInv, TypeOK, Lsns
    <2> QED BY <1>1, <1>2, <1>4, <2>1 DEF PageOK, CopyOK
  <1>9. ASSUME NEW p \in Pages, NEW s \in 1 .. Len(log')
        PROVE  ChangeOK(p, s)'
    <2>1. ChangeOK(p, s) /\ log'[s] = log[s] /\ disk[p] \in Nat
      BY <1>4 DEF IInv, TypeOK, Lsns
    <2> QED BY <1>1, <1>2, <2>1 DEF ChangeOK
  <1>10. ASSUME NEW h \in Hinters
         PROVE  HintOK(h)'
    BY <1>3 DEF HintOK
  <1>11. ASSUME NEW f \in Flushers
         PROVE  FlusherOK(f)'
    BY <1>3 DEF FlusherOK, IoPcs, SharePcs
  <1>12. ASSUME NEW x \in Calculators
         PROVE  CalcOK(x)'
    BY <1>1, <1>3 DEF CalcOK, InvalidLsn
  <1> QED BY <1>5, <1>7, <1>8, <1>9, <1>10, <1>11, <1>12 DEF IInv

\* Redo changes the page, or restores it from an image: changes after the record that
\* the page had lost by this are still to be replayed.
LEMMA RedoInv ==
    ASSUME IInv, NEW p \in Pages, ReplayPage(p), NeedsRedo(p)
    PROVE  IInv'
  <1> USE DEF walVars, diskVars, ckptVars, modeVars
  <1>1. /\ mode = "recover" /\ replay < InsertLsn /\ replayed' = replayed \cup {p}
        /\ owner[p] = None /\ ~Shared(p)
        /\ pageLsn' = [pageLsn EXCEPT ![p] = replay + 1]
        /\ dirty' = [dirty EXCEPT ![p] = TRUE]
        /\ justDirtied' = [justDirtied EXCEPT ![p] = TRUE]
        /\ oldest' = IF oldest[p] = InvalidLsn THEN [oldest EXCEPT ![p] = replay] ELSE oldest
        /\ UNCHANGED <<walVars, copy, touched, cOldest, cLsn, owner, diskVars,
                       ckptVars, mode, replay, crashes, apply, consistent, flusher, calc, hint>>
    BY DEF ReplayPage
  <1>2. /\ PageOK(p) /\ CopyOK(p) /\ replay \in Nat /\ pageLsn[p] \in Nat /\ disk[p] \in Nat
        /\ oldest[p] \in Nat /\ LsnsOK
    BY DEF IInv, TypeOK, Lsns
  <1>3. /\ ctlRedo \in Nat /\ 1 <= ctlRedo /\ ctlRedo <= replay /\ InsertLsn \in Nat
        /\ consistent = InvalidLsn /\ apply = InvalidLsn /\ MaxValidLsn = replay
    BY <1>1, LsnFacts DEF IInv, LsnsOK, MaxValidLsn
  <1>4. copy[p] = None
    BY <1>1, <1>2 DEF CopyOK
  <1>5. /\ pageLsn' \in [Pages -> Lsns] /\ pageLsn'[p] = replay + 1
        /\ dirty' \in [Pages -> BOOLEAN] /\ dirty'[p] = TRUE /\ justDirtied' \in [Pages -> BOOLEAN]
        /\ oldest' \in [Pages -> Lsns]
        /\ oldest'[p] = IF oldest[p] = InvalidLsn THEN replay ELSE oldest[p]
        /\ \A q \in Pages : q # p => /\ pageLsn'[q] = pageLsn[q] /\ dirty'[q] = dirty[q]
                                     /\ oldest'[q] = oldest[q]
    BY <1>1, <1>2 DEF IInv, TypeOK, Lsns
  <1>6. oldest'[p] # InvalidLsn /\ oldest'[p] <= replay /\ ctlRedo <= oldest'[p] /\ oldest'[p] \in Nat
    BY <1>2, <1>3, <1>5 DEF PageOK, InvalidLsn
  <1>7. TypeOK'
    BY <1>1, <1>5 DEF IInv, TypeOK, InsertLsn
  <1>8. LsnsOK' /\ SlotsOK' /\ FutureOK'
    BY <1>1, <1>2, <1>5 DEF IInv, LsnsOK, SlotsOK, FutureOK, Checked, NoFuturePage, InsertLsn, MaxValidLsn
  <1>9. InsertLsn' = InsertLsn /\ MaxValidLsn' = replay
    BY <1>1 DEF InsertLsn, MaxValidLsn
  <1>10. ASSUME NEW q \in Pages
         PROVE  PageOK(q)' /\ CopyOK(q)'
    <2>1. CASE q = p
      BY <1>1, <1>2, <1>3, <1>4, <1>5, <1>6, <1>9, <2>1 DEF PageOK, CopyOK, InvalidLsn
    <2>2. CASE q # p
      <3>1. PageOK(q) /\ CopyOK(q)
        BY DEF IInv
      <3> QED BY <1>1, <1>3, <1>5, <1>9, <2>2, <3>1 DEF PageOK, CopyOK
    <2> QED BY <2>1, <2>2
  <1>11. ASSUME NEW q \in Pages, NEW s \in 1 .. Len(log)
         PROVE  ChangeOK(q, s)'
    <2>1. ChangeOK(q, s) /\ (WrittenBack(q) => WrittenBack(q)')
      BY <1>1 DEF IInv, WrittenBack
    <2>2. CASE q # p
      BY <1>1, <1>5, <2>1, <2>2 DEF ChangeOK
    <2>3. CASE q = p
      <3>1. CASE s < replay
        <4>1. p \in log[s] => s < pageLsn[p]
          BY <1>1, <1>2, <2>1, <2>3, <3>1 DEF ChangeOK
        <4>2. p \in log[s] /\ disk[p] <= s => oldest[p] # InvalidLsn /\ oldest[p] <= s
          BY <1>4, <2>1, <2>3, <4>1 DEF ChangeOK
        <4> QED BY <1>1, <1>2, <1>4, <1>5, <2>1, <2>3, <3>1, <4>2 DEF ChangeOK
      <3>2. CASE replay <= s
        <4>1. s < pageLsn'[p] => s = replay
          BY <1>2, <1>5, <3>2
        <4> QED BY <1>1, <1>2, <1>3, <1>4, <1>5, <1>6, <2>1, <2>3, <3>2, <4>1 DEF ChangeOK
      <3> QED BY <1>2, <3>1, <3>2
    <2> QED BY <2>2, <2>3
  <1>12. ASSUME NEW h \in Hinters
         PROVE  HintOK(h)'
    BY <1>1 DEF IInv, HintOK, InsertLsn
  <1>13. ASSUME NEW f \in Flushers
         PROVE  FlusherOK(f)'
    <2>1. FlusherOK(f) /\ (flusher[f].pc \in SharePcs => flusher[f].page # p)
      BY <1>1 DEF IInv, Shared
    <2> QED BY <1>1, <1>3, <1>5, <2>1 DEF FlusherOK, SharePcs, IoPcs
  <1>14. ASSUME NEW x \in Calculators
         PROVE  CalcOK(x)'
    <2>1. CalcOK(x) /\ calc[x].val \in Nat
      BY DEF IInv, TypeOK, Lsns
    <2>2. calc[x].pc \in {"scan", "done"} =>
            \A q \in Pages : oldest'[q] # InvalidLsn => calc[x].val <= oldest'[q]
      BY <1>2, <1>3, <1>5, <2>1 DEF CalcOK
    <2> QED BY <1>1, <1>3, <1>9, <2>1, <2>2 DEF CalcOK
  <1> QED BY <1>1, <1>7, <1>8, <1>10, <1>11, <1>12, <1>13, <1>14 DEF IInv

\* The page has the change already.
LEMMA RedoSkippedInv ==
    ASSUME IInv, NEW p \in Pages, ReplayPage(p), ~NeedsRedo(p)
    PROVE  IInv'
  <1> USE DEF walVars, listVars, bufVars, diskVars, ckptVars
  <1>1. /\ mode = "recover" /\ replayed' = replayed \cup {p} /\ replay < pageLsn[p]
        /\ UNCHANGED <<walVars, listVars, bufVars, diskVars, ckptVars, mode, replay,
                       crashes, apply, consistent, flusher, calc, hint>>
    <2>1. replay \in Nat /\ pageLsn[p] \in Nat
      BY DEF IInv, TypeOK, Lsns
    <2> QED BY <2>1 DEF ReplayPage, NeedsRedo
  <1>2. TypeOK'
    BY <1>1 DEF IInv, TypeOK, InsertLsn
  <1>3. LsnsOK' /\ SlotsOK' /\ FutureOK'
    BY <1>1 DEF IInv, LsnsOK, SlotsOK, FutureOK, Checked, NoFuturePage, InsertLsn, MaxValidLsn
  <1>4. ASSUME NEW q \in Pages
        PROVE  PageOK(q)' /\ CopyOK(q)'
    BY <1>1 DEF IInv, PageOK, CopyOK, InsertLsn, MaxValidLsn
  <1>5. ASSUME NEW q \in Pages, NEW s \in 1 .. Len(log)
        PROVE  ChangeOK(q, s)'
    BY <1>1 DEF IInv, ChangeOK, WrittenBack
  <1>6. ASSUME NEW h \in Hinters
        PROVE  HintOK(h)'
    BY <1>1 DEF IInv, HintOK, InsertLsn
  <1>7. ASSUME NEW f \in Flushers
        PROVE  FlusherOK(f)'
    BY <1>1 DEF IInv, FlusherOK
  <1>8. ASSUME NEW x \in Calculators
        PROVE  CalcOK(x)'
    BY <1>1 DEF IInv, CalcOK, InsertLsn, MaxValidLsn
  <1> QED BY <1>1, <1>2, <1>3, <1>4, <1>5, <1>6, <1>7, <1>8 DEF IInv

\* The position of recovery moves on, or recovery is over.
LEMMA ReplayInv ==
    ASSUME IInv, ReplayNext \/ EndRecovery
    PROVE  IInv'
  <1> USE DEF walVars, listVars, bufVars, diskVars, ckptVars
  <1>1. /\ mode = "recover" /\ crashes' = crashes
        /\ UNCHANGED <<walVars, listVars, bufVars, diskVars, ckptVars, apply, consistent, flusher, calc, hint>>
        /\ replay \in Nat /\ replay' \in Nat /\ replay <= replay' /\ replay' <= InsertLsn
        /\ InsertLsn \in Nat
        /\ mode' \in {"run", "recover"} /\ (mode' = "run" => replay = InsertLsn)
        /\ replayed' \subseteq Pages /\ (mode' = "recover" => replayed' = {})
    <2>1. replay \in Nat /\ InsertLsn \in Nat
      BY WalFacts DEF IInv, TypeOK, Lsns
    <2>2. CASE ReplayNext
      BY <2>1, <2>2 DEF ReplayNext
    <2>3. CASE EndRecovery
      BY <2>1, <2>3 DEF EndRecovery, IInv, TypeOK
    <2> QED BY <2>2, <2>3
  <1>2. /\ InsertLsn' = InsertLsn /\ MaxValidLsn = replay /\ MaxValidLsn' \in Nat
        /\ replay <= MaxValidLsn' /\ MaxValidLsn' <= InsertLsn
    BY <1>1 DEF InsertLsn, MaxValidLsn
  \* What recovery has passed has been replayed.
  <1>3. ASSUME NEW p \in Pages, NEW s \in 1 .. Len(log), p \in log[s]
        PROVE  s < pageLsn[p] \/ (mode' = "recover" /\ replay' <= s)
    <2>0. s < InsertLsn
      BY WalFacts DEF IInv
    <2>1. ChangeOK(p, s) /\ pageLsn[p] \in Nat /\ s < InsertLsn
      BY <2>0 DEF IInv, TypeOK, Lsns
    <2>2. CASE s < pageLsn[p]
      BY <2>2
    <2>3. CASE ~ (s < pageLsn[p])
      <3>1. replay <= s
        BY <1>3, <2>1, <2>3 DEF ChangeOK
      <3>2. ~EndRecovery
        BY <1>1, <2>1, <3>1 DEF EndRecovery
      <3>3. mode' = "recover" /\ replay' = replay + 1 /\ log[replay] \subseteq replayed
        BY <1>1, <3>2 DEF ReplayNext, BlockRefs
      <3>4. s # replay
        BY <1>1, <1>3, <2>1, <2>3, <3>3 DEF IInv, LsnsOK
      <3> QED BY <1>1, <3>1, <3>3, <3>4
    <2> QED BY <2>2, <2>3
  <1>4. TypeOK'
    BY <1>1 DEF IInv, TypeOK, InsertLsn, Lsns
  <1>5. LsnsOK' /\ SlotsOK' /\ FutureOK'
    <2>1. LsnsOK /\ ctlRedo \in Nat /\ consistent \in Nat
      BY DEF IInv, TypeOK, Lsns
    <2>2. LsnsOK'
      <3>1. mode' # "panic" /\ ctlRedo <= flushed /\ 1 <= ctlRedo /\ ctlRedo <= replay
        BY <1>1, <2>1 DEF LsnsOK
      <3>2. consistent = InvalidLsn /\ apply = InvalidLsn /\ ckpt.pc = "idle"
        BY <1>1, <2>1 DEF LsnsOK
      <3> QED BY <1>1, <1>2, <2>1, <3>1, <3>2 DEF LsnsOK, InvalidLsn
    <2> QED BY <1>1, <2>2 DEF IInv, SlotsOK, FutureOK, Checked, NoFuturePage
  <1>6. ASSUME NEW p \in Pages
        PROVE  PageOK(p)' /\ CopyOK(p)'
    <2>1. PageOK(p) /\ CopyOK(p) /\ oldest[p] \in Nat
      BY DEF IInv, TypeOK, Lsns
    <2>2. PageOK(p)'
      BY <1>1, <1>2, <2>1 DEF PageOK
    <2> QED BY <1>1, <2>1, <2>2 DEF CopyOK
  <1>7. ASSUME NEW p \in Pages, NEW s \in 1 .. Len(log)
        PROVE  ChangeOK(p, s)'
    <2>1. ChangeOK(p, s) /\ (WrittenBack(p) => WrittenBack(p)')
      BY <1>1 DEF IInv, WrittenBack
    <2> QED BY <1>1, <1>3, <2>1 DEF ChangeOK
  <1>8. ASSUME NEW h \in Hinters
        PROVE  HintOK(h)'
    BY <1>1 DEF IInv, HintOK
  <1>9. ASSUME NEW f \in Flushers
        PROVE  FlusherOK(f)'
    BY <1>1 DEF IInv, FlusherOK
  <1>10. ASSUME NEW x \in Calculators
         PROVE  CalcOK(x)'
    <2>1. CalcOK(x) /\ calc[x].val \in Nat
      BY DEF IInv, TypeOK, Lsns
    <2> QED BY <1>1, <1>2, <2>1 DEF CalcOK
  <1> QED BY <1>1, <1>4, <1>5, <1>6, <1>7, <1>8, <1>9, <1>10 DEF IInv

(***************************************************************************)
(* The invariant holds in every reachable state.                           *)
(***************************************************************************)

LEMMA InitInv ==
    ASSUME Init
    PROVE  IInv
  <1>1. /\ log = <<>> /\ Len(log) = 0 /\ whole = <<>> /\ Len(whole) = 0 /\ replayed = {} /\ InsertLsn = 1 /\ flushed = 1 /\ MaxValidLsn = 1
        /\ mode = "run" /\ replay = 1 /\ crashes = 0 /\ redoPtr = 1 /\ ctlRedo = 1
        /\ apply \in {0, 1} /\ consistent = 0 /\ ckpt = [pc |-> "idle", redo |-> 0]
    BY DEF Init, InsertLsn, MaxValidLsn, InvalidLsn, NoCkpt
  <1>2. \A p \in Pages : /\ pageLsn[p] = 1 /\ disk[p] = 1 /\ ~dirty[p] /\ ~touched[p]
                         /\ oldest[p] = InvalidLsn /\ owner[p] = None /\ copy[p] = None
    BY DEF Init
  <1>3. /\ \A c \in Slots : cOldest[c] = InvalidLsn
        /\ \A h \in Hinters : hint[h].page = None /\ hint[h].lsn = InvalidLsn
        /\ \A f \in Flushers : flusher[f].pc = "idle" /\ flusher[f].apply = InvalidLsn
        /\ \A x \in Calculators : calc[x].pc = "idle" /\ calc[x].cur = InvalidLsn
    BY DEF Init, NoHint, Asleep, NoCalc
  <1>4. TypeOK
    <2>1. /\ dirty \in [Pages -> BOOLEAN] /\ justDirtied \in [Pages -> BOOLEAN]
          /\ oldest \in [Pages -> Lsns] /\ owner \in [Pages -> Writers \cup {None}]
          /\ copy \in [Pages -> Slots \cup {None}] /\ touched \in [Pages -> BOOLEAN]
          /\ cOldest \in [Slots -> Lsns] /\ cLsn \in [Slots -> Lsns]
          /\ pageLsn \in [Pages -> Lsns] /\ disk \in [Pages -> Lsns]
          /\ snapshot \in [Pages -> BOOLEAN]
      BY DEF Init, Lsns, InvalidLsn
    <2>2. /\ hint \in [Hinters -> [page : Pages \cup {None}, lsn : Lsns]]
          /\ flusher \in [Flushers -> [pc : SharePcs \cup {"idle", "lock"},
                                       page : Pages \cup {None}, apply : Lsns]]
          /\ calc \in [Calculators -> [pc : {"idle", "sync", "scan", "done"},
                                       cur : Lsns, val : Lsns, todo : SUBSET Slots]]
          /\ ckpt \in [pc : {"idle", "wait"}, redo : Lsns]
      BY DEF Init, Lsns, InvalidLsn, NoHint, Asleep, NoCalc, NoCkpt
    <2>3. log \in Seq(SUBSET Pages) /\ whole \in Seq(SUBSET Pages)
      BY <1>1
    <2> QED BY <1>1, <2>1, <2>2, <2>3 DEF TypeOK, Lsns
  <1>5. LsnsOK /\ SlotsOK
    BY <1>1, <1>3 DEF LsnsOK, SlotsOK, InvalidLsn
  <1>6. FutureOK
    BY <1>1, <1>2 DEF FutureOK, NoFuturePage, InvalidLsn
  <1>7. \A p \in Pages : PageOK(p) /\ CopyOK(p)
    BY <1>1, <1>2 DEF PageOK, CopyOK
  <1>8. \A h \in Hinters : HintOK(h)
    BY <1>3 DEF HintOK
  <1>9. \A f \in Flushers : FlusherOK(f)
    BY <1>3 DEF FlusherOK, IoPcs, SharePcs
  <1>10. \A x \in Calculators : CalcOK(x)
    BY <1>1, <1>3 DEF CalcOK, InvalidLsn
  <1> QED BY <1>1, <1>4, <1>5, <1>6, <1>7, <1>8, <1>9, <1>10 DEF IInv

LEMMA NextInv ==
    ASSUME IInv, [Next]_vars
    PROVE  IInv'
  <1>1. ASSUME NEW w \in Writers, XLogInsert(w) \/ \E p \in Pages : MarkBufferDirty(w, p)
        PROVE  IInv'
    BY <1>1, XLogInsertInv, MarkBufferDirtyInv
  <1>2. ASSUME NEW h \in Hinters, HintEnd(h) \/ \E p \in Pages : HintBegin(h, p)
        PROVE  IInv'
    BY <1>2, HintEndInv, HintBeginInv
  <1>3. CASE XLogFlush \/ ReplicaApplies \/ ReplicaLeaves
    BY <1>3, XLogFlushInv, ReplicaInv
  <1>4. ASSUME NEW f \in Flushers, Flush(f)
        PROVE  IInv'
    BY <1>4, SyncDecideInv, FlushStartInv, FlushWriteInv, FlushEndInv, CopyFlushStartInv,
       CopyFlushWriteInv, CopyFlushEndInv, CopyAllocInv DEF Flush
  <1>5. ASSUME NEW f \in Flushers, NEW p \in Pages, SyncBegin(f, p)
        PROVE  IInv'
    BY <1>5, SyncBeginInv
  <1>6. ASSUME NEW x \in Calculators, Calculate(x)
        PROVE  IInv'
    BY <1>6, CalcBeginInv, CalcHeadInv, CalcScanInv, CalcEndInv DEF Calculate
  <1>7. CASE BeginCheckPoint \/ CkptCalcEnd \/ CkptEnd
    BY <1>7, BeginCheckPointInv, CkptCalcBeginInv, CkptCalcEndInv, CkptEndInv DEF BeginCheckPoint
  <1>8. CASE Crash \/ Recover
    BY <1>8, CrashInv, RedoInv, RedoSkippedInv, ReplayInv DEF Recover
  <1>9. CASE UNCHANGED vars
    BY <1>9 DEF vars, walVars, listVars, bufVars, diskVars, ckptVars, modeVars,
                IInv, TypeOK, LsnsOK, SlotsOK, FutureOK, NoFuturePage, Checked, PageOK, CopyOK,
                ChangeOK, WrittenBack, HintOK, FlusherOK, CalcOK, MaxValidLsn, InsertLsn
  <1> QED BY <1>1, <1>2, <1>3, <1>4, <1>5, <1>6, <1>7, <1>8, <1>9 DEF Next

\* Whatever the interleaving of writers, hint setters, flushers, bgwriters, the
\* checkpointer, replicas, crashes and recovery, the invariant above holds.
THEOREM Invariance == Spec => []IInv
  BY InitInv, NextInv, PTL DEF Spec

(***************************************************************************)
(* What follows from it.                                                   *)
(***************************************************************************)

\* The state of flush control keeps its types, and the WAL on storage is never
\* ahead of the WAL inserted (XLogFlush).
THEOREM TypeCorrect == Spec => []TypeOK
  <1>1. IInv => TypeOK
    BY DEF IInv
  <1> QED BY <1>1, Invariance, PTL

\* A change that is missing on storage is covered by the oldest_lsn of its buffer
\* or of its copy, and the published consistent LSN is past neither, so that it
\* is never past the change (polar_cal_cur_consistent_lsn).
THEOREM ConsistentStaysSafe == Spec => []ConsistentSafe
  <1>1. ASSUME IInv
        PROVE  ConsistentSafe
    <2> SUFFICES ASSUME NEW p \in Pages, NEW s \in 1 .. Len(log), p \in log[s], disk[p] <= s
                 PROVE  consistent <= s
      BY DEF ConsistentSafe, Unwritten
    <2>1. /\ ChangeOK(p, s) /\ PageOK(p) /\ CopyOK(p) /\ LsnsOK
          /\ consistent \in Nat /\ oldest[p] \in Nat /\ s \in Nat
          /\ copy[p] # None => cOldest[copy[p]] \in Nat
      BY <1>1 DEF IInv, TypeOK, Lsns
    <2>2. CASE s < pageLsn[p]
      BY <2>1, <2>2 DEF ChangeOK, PageOK, CopyOK
    <2>3. CASE mode = "recover"
      BY <2>1, <2>3 DEF LsnsOK, InvalidLsn
    <2> QED BY <2>1, <2>2, <2>3 DEF ChangeOK
  <1> QED BY <1>1, Invariance, PTL

\* A crash at any moment finds a redo point that is early enough
\* (CreateCheckPoint, polar_wait_consistent_lsn).
THEOREM RedoStaysSafe == Spec => []RedoSafe
  <1>1. IInv => RedoSafe
    BY DEF IInv, RedoSafe, Unwritten, ChangeOK
  <1> QED BY <1>1, Invariance, PTL

\* No change of the WAL is missing in the pages of a running primary, after any
\* number of crashes and recoveries (StartupXLOG, XLogReadBufferForRedo).
THEOREM RecoveryComplete == Spec => []NothingLost
  <1>1. ASSUME IInv
        PROVE  NothingLost
    <2> SUFFICES ASSUME mode = "run", NEW p \in Pages, NEW s \in 1 .. Len(log), p \in log[s]
                 PROVE  pageLsn[p] > s
      BY DEF NothingLost
    <2>1. ChangeOK(p, s) /\ pageLsn[p] \in Nat /\ s \in Nat
      BY <1>1 DEF IInv, TypeOK, Lsns
    <2>2. s < pageLsn[p]
      BY <2>1 DEF ChangeOK
    <2> QED BY <2>1, <2>2
  <1> QED BY <1>1, Invariance, PTL

\* FlushBuffer and polar_flush_copy_buffer write no page before its WAL.
THEOREM LogBeforeData == Spec => []WalBeforeData
  <1>1. IInv => WalBeforeData
    BY DEF IInv, WalBeforeData, PageOK
  <1> QED BY <1>1, Invariance, PTL

\* A buffer that is not BM_DIRTY has the page of storage, whichever processes
\* flushed it, its copy, or set hints on it: it may be evicted.
THEOREM CleanPagesOnStorage == Spec => []EvictionSafe
  <1>1. IInv => EvictionSafe
    BY DEF IInv, EvictionSafe, PageOK
  <1> QED BY <1>1, Invariance, PTL

\* The pool of copy buffers is never leaked from nor shared: each used one is the
\* copy of one page in the flush list, and a free one has no oldest_lsn
\* (copy_buffer_alloc, polar_free_copy_buffer).
THEOREM CopiesStayOwned == Spec => []CopiesOwned
  <1>1. ASSUME IInv
        PROVE  CopiesOwned
    <2>1. ASSUME NEW p \in Pages, copy[p] # None
          PROVE  /\ oldest[p] # InvalidLsn /\ dirty[p]
                 /\ cOldest[copy[p]] # InvalidLsn
                 /\ cOldest[copy[p]] <= oldest[p]
                 /\ cLsn[copy[p]] <= pageLsn[p]
                 /\ \A q \in Pages : copy[q] = copy[p] => q = p
      <3>1. CopyOK(p) /\ oldest[p] \in Nat /\ cOldest[copy[p]] \in Nat
        BY <1>1, <2>1 DEF IInv, TypeOK, Lsns
      <3> QED BY <2>1, <3>1 DEF CopyOK, InvalidLsn
    <2>2. \A p, q \in Pages : copy[p] = copy[q] /\ copy[p] # None => p = q
      BY <2>1
    <2>3. \A c \in FreeSlots : cOldest[c] = InvalidLsn
      BY <1>1 DEF IInv, SlotsOK, FreeSlots
    <2> QED BY <2>1, <2>2, <2>3 DEF CopiesOwned
  <1> QED BY <1>1, Invariance, PTL

\* Neither the PANIC of update_consistent_lsn_delta nor that of CreateCheckPoint
\* can be reached.
THEOREM NoPanic == Spec => []NeverPanics
  <1>1. IInv => NeverPanics
    BY DEF IInv, LsnsOK, NeverPanics
  <1> QED BY <1>1, Invariance, PTL

\* No page on storage is from the future of a replica, unless its snapshot was
\* logged, provided that hint bits are not logged or full page snapshots are on:
\* with logged hints and no snapshots, a hint set between the check of
\* SyncOneBuffer and FlushBuffer puts a newer LSN on the page.
THEOREM NoPageFromFuture == Fullpage \/ ~LogHints => (Spec => []NoFuturePage)
  <1>1. SUFFICES ASSUME Checked
                 PROVE  Spec => []NoFuturePage
    BY DEF Checked
  <1>2. IInv => NoFuturePage
    BY <1>1 DEF IInv, FutureOK
  <1> QED BY <1>2, Invariance, PTL

\* The steps that write to storage.
LEMMA DiskStep ==
    ASSUME [Next]_vars
    PROVE  \/ disk' = disk
           \/ \E f \in Flushers : FlushWrite(f) \/ CopyFlushWrite(f)
  <1> USE DEF diskVars
  <1>1. ASSUME NEW w \in Writers, XLogInsert(w) \/ \E p \in Pages : MarkBufferDirty(w, p)
        PROVE  disk' = disk
    BY <1>1 DEF XLogInsert, MarkBufferDirty
  <1>2. ASSUME NEW h \in Hinters, HintEnd(h) \/ \E p \in Pages : HintBegin(h, p)
        PROVE  disk' = disk
    BY <1>2 DEF HintEnd, HintBegin
  <1>3. CASE XLogFlush \/ ReplicaApplies \/ ReplicaLeaves
    BY <1>3 DEF XLogFlush, ReplicaApplies, ReplicaLeaves
  <1>4. ASSUME NEW f \in Flushers, Flush(f)
        PROVE  disk' = disk \/ FlushWrite(f) \/ CopyFlushWrite(f)
    BY <1>4 DEF Flush, SyncDecide, FlushStart, FlushEnd, CopyFlushStart, CopyFlushEnd, CopyAlloc
  <1>5. ASSUME NEW f \in Flushers, NEW p \in Pages, SyncBegin(f, p)
        PROVE  disk' = disk
    BY <1>5 DEF SyncBegin
  <1>6. ASSUME NEW x \in Calculators, Calculate(x)
        PROVE  disk' = disk
    BY <1>6 DEF Calculate, CalcBegin, CalcHead, CalcScan, CalcEnd, CalcUnchanged
  <1>7. CASE BeginCheckPoint \/ CkptCalcEnd \/ CkptEnd
    BY <1>7 DEF BeginCheckPoint, CkptNormal, CkptIncremental, CkptCalcBegin, CkptCalcEnd,
                CkptEnd, CalcUnchanged
  <1>8. CASE Crash \/ Recover
    BY <1>8 DEF Crash, Recover, ReplayPage, ReplayNext, EndRecovery
  <1>9. CASE UNCHANGED vars
    BY <1>9 DEF vars
  <1> QED BY <1>1, <1>2, <1>3, <1>4, <1>5, <1>6, <1>7, <1>8, <1>9 DEF Next

\* A change that is on storage stays there: FlushBuffer writes a page that has
\* it, and polar_flush_copy_buffer a copy that is not older than storage, for
\* BM_IO_IN_PROGRESS keeps the two apart until the copy is freed.  Recovery may
\* restore an image that is older than storage, and a bgwriter write it; a change
\* that is lost by this is one that recovery has still to come to.
THEOREM StorageNeverGoesBack == Spec => StorageKeepsChanges
  <1>1. ASSUME IInv, [Next]_vars, NEW p \in Pages, NEW s \in 1 .. Len(log),
               p \in log[s], disk[p] > s
        PROVE  disk'[p] > s \/ (mode = "recover" /\ replay <= s)
    <2>1. /\ ChangeOK(p, s) /\ s \in Nat /\ disk[p] \in Nat /\ pageLsn[p] \in Nat
          /\ disk \in [Pages -> Nat]
      BY <1>1 DEF IInv, TypeOK, Lsns
    <2>2. s < disk[p]
      BY <1>1, <2>1
    <2>3. CASE disk' = disk
      BY <1>1, <2>3
    <2>4. ASSUME NEW f \in Flushers, FlushWrite(f)
          PROVE  disk'[p] > s \/ (mode = "recover" /\ replay <= s)
      <3>1. disk'[p] = pageLsn[p] \/ disk'[p] = disk[p]
        BY <2>1, <2>4 DEF FlushWrite
      <3> QED BY <1>1, <2>1, <2>2, <3>1 DEF ChangeOK
    <2>5. ASSUME NEW f \in Flushers, CopyFlushWrite(f)
          PROVE  disk'[p] > s
      <3>1. CASE flusher[f].page # p
        BY <1>1, <2>1, <2>5, <3>1 DEF CopyFlushWrite
      <3>2. CASE flusher[f].page = p
        <4>1. /\ FlusherOK(f) /\ flusher[f].pc = "writeCopy" /\ copy[p] # None
              /\ disk'[p] = cLsn[copy[p]]
          BY <1>1, <2>1, <2>5, <3>2 DEF IInv, CopyFlushWrite, FlusherOK
        <4>2. cLsn[copy[p]] \in Nat
          BY <1>1, <4>1 DEF IInv, TypeOK, Lsns
        <4>3. ~WrittenBack(p)
          BY <3>2, <4>1 DEF WrittenBack, FlusherOK, IoPcs
        <4>4. s < cLsn[copy[p]]
          BY <1>1, <2>1, <2>2, <4>1, <4>3 DEF ChangeOK
        <4> QED BY <2>1, <4>1, <4>2, <4>4
      <3> QED BY <3>1, <3>2
    <2> QED BY <1>1, <2>3, <2>4, <2>5, DiskStep
  <1>2. ASSUME IInv, [Next]_vars
        PROVE  [\A p \in Pages : \A s \in 1 .. Len(log) :
                   p \in log[s] /\ disk[p] > s =>
                       disk'[p] > s \/ (mode = "recover" /\ replay <= s)]_vars
    BY <1>1, <1>2
  <1> QED BY <1>2, Invariance, PTL DEF Spec, StorageKeepsChanges

===========================================================================
