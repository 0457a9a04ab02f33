----------------------- MODULE CheckpointFsyncProofs -----------------------
(***************************************************************************)
(* Proofs about CheckpointFsync for every set of pages and every bound:    *)
(* no write is forgotten, whatever checkpoints are taken, and incremental  *)
(* checkpoints are durable.                                                *)
(***************************************************************************)
EXTENDS CheckpointFsync, TLAPS

\* The flush list accounts for the change of p at s.
Listed(p, s) == oldest[p] # InvalidLsn /\ oldest[p] <= s

\* A running checkpoint has a redo point.
CkptInv == ckpt.pc # "idle" => ckpt.redo # InvalidLsn

\* A page has the changes logged for it; what FlushBuffer wrote is the page as
\* it is, until it is done; a change that was not written is listed.
BufferInv ==
    /\ \A p \in Pages : /\ stable[p] <= written[p]
                        /\ written[p] <= pageLsn[p]
                        /\ pageLsn[p] <= InsertLsn /\ oldest[p] <= InsertLsn
                        /\ io[p] # "none" => written[p] = pageLsn[p]
    /\ \A s \in 1 .. Len(log) :
          pageLsn[log[s]] > s /\ (written[log[s]] > s \/ Listed(log[s], s))

\* A change that is not durable is listed or requested; once FlushBuffer has
\* registered the segment it is requested.
RequestInv ==
    \A s \in 1 .. Len(log) :
        \/ stable[log[s]] > s
        \/ log[s] \in pending \cup todo
        \/ Listed(log[s], s) /\ io[log[s]] # "registered"

Inv == TypeOK /\ CkptInv /\ BufferInv /\ RequestInv

\* The consistent LSN is not beyond the list.  Of an incremental checkpoint, the
\* redo point is not beyond the consistent LSN, and after the requests have been
\* absorbed they account for all that is missing before the redo point.
DurableInv ==
    /\ \A p \in Pages : oldest[p] # InvalidLsn => consistent <= oldest[p]
    /\ ckpt.kind = "incremental" => ckpt.redo <= consistent
    /\ (ckpt.kind = "incremental" /\ ckpt.pc \in {"sync", "wait"}) =>
          \A s \in 1 .. Len(log) :
              stable[log[s]] > s \/ ckpt.redo <= s \/ log[s] \in todo
    /\ ckpt.pc = "wait" => todo = {}

---------------------------------------------------------------------------
\* What a new record does to the log.
LEMMA AppendFacts ==
    ASSUME NEW p \in Pages, log \in Seq(Pages), log' = Append(log, p)
    PROVE  /\ log' \in Seq(Pages)
           /\ Len(log') = Len(log) + 1
           /\ \A s \in 1 .. Len(log) : log'[s] = log[s]
           /\ log'[Len(log) + 1] = p
  OBVIOUS

\* Positions of the log and what is at them.
LEMMA LogFacts ==
    ASSUME TypeOK
    PROVE  /\ Len(log) \in Nat /\ InsertLsn \in Nat
           /\ \A s \in 1 .. Len(log) : log[s] \in Pages
  BY DEF TypeOK, InsertLsn

\* The initial state satisfies the invariant.
LEMMA InitInv == Init => Inv
  BY DEF Init, Inv, TypeOK, CkptInv, BufferInv, RequestInv, NoCkpt, InsertLsn,
     InvalidLsn

\* Every step keeps the types; the redo point of a checkpoint stays set.
LEMMA TypeStep == TypeOK /\ CkptInv /\ [Next]_vars => TypeOK' /\ CkptInv'
<1> SUFFICES ASSUME TypeOK, CkptInv, [Next]_vars PROVE TypeOK' /\ CkptInv'
  OBVIOUS
<1> USE DEF InvalidLsn
<1>0. Len(log) \in Nat /\ InsertLsn \in Nat
  BY LogFacts
<1>1. ASSUME NEW p \in Pages, Modify(p) PROVE TypeOK' /\ CkptInv'
  <2>1. log' \in Seq(Pages) /\ InsertLsn' = InsertLsn + 1
    BY <1>1, AppendFacts DEF Modify, TypeOK, InsertLsn
  <2>2. pageLsn' \in [Pages -> Nat] /\ oldest' \in [Pages -> Nat]
    BY <1>0, <1>1 DEF Modify, TypeOK
  <2> QED
    BY <1>0, <1>1, <2>1, <2>2 DEF Modify, TypeOK, CkptInv, fileVars, reqVars
<1>2. ASSUME NEW p \in Pages, FlushWrite(p) PROVE TypeOK' /\ CkptInv'
  BY <1>0, <1>2 DEF FlushWrite, TypeOK, CkptInv, InsertLsn, bufVars, fileVars, reqVars
<1>3. ASSUME NEW p \in Pages, RegisterDirtySegment(p) PROVE TypeOK' /\ CkptInv'
  BY <1>0, <1>3 DEF RegisterDirtySegment, TypeOK, CkptInv, InsertLsn, bufVars,
     fileVars, reqVars
<1>4. ASSUME NEW p \in Pages, FlushDone(p) PROVE TypeOK' /\ CkptInv'
  BY <1>0, <1>4 DEF FlushDone, TypeOK, CkptInv, InsertLsn, bufVars, fileVars, reqVars
<1>5. ASSUME NEW p \in Pages, BufferSyncSkip(p) PROVE TypeOK' /\ CkptInv'
  BY <1>0, <1>5
     DEF BufferSyncSkip, TypeOK, CkptInv, InsertLsn, bufVars, fileVars, reqVars
<1>6. ASSUME NEW p \in Pages, SyncFile(p) PROVE TypeOK' /\ CkptInv'
  BY <1>0, <1>6 DEF SyncFile, TypeOK, CkptInv, InsertLsn, bufVars, fileVars, reqVars
<1>7. CASE ReplicaApplies
  <2>1. apply' \in Nat
    BY <1>0, <1>7 DEF ReplicaApplies, TypeOK
  <2> QED
    BY <1>7, <2>1
       DEF ReplicaApplies, TypeOK, CkptInv, InsertLsn, bufVars, fileVars, reqVars
<1>8. CASE SetConsistent
  BY <1>0, <1>8
     DEF SetConsistent, TypeOK, CkptInv, InsertLsn, bufVars, fileVars, reqVars
<1>9. ASSUME NEW kind \in Kinds, CkptBegin(kind) PROVE TypeOK' /\ CkptInv'
  BY <1>0, <1>9 DEF CkptBegin, TypeOK, CkptInv, InsertLsn, bufVars, fileVars, reqVars
<1>10. CASE BufferSyncScan
  BY <1>0, <1>10 DEF BufferSyncScan, TypeOK, CkptInv, InsertLsn, bufVars, fileVars,
     reqVars, InList
<1>11. CASE AbsorbSyncRequests
  BY <1>0, <1>11 DEF AbsorbSyncRequests, TypeOK, CkptInv, InsertLsn, bufVars,
     fileVars, reqVars
<1>12. CASE SyncFails
  BY <1>0, <1>12 DEF SyncFails, TypeOK, CkptInv, InsertLsn, bufVars, fileVars,
     reqVars, NoCkpt
<1>13. CASE SyncDone
  BY <1>0, <1>13 DEF SyncDone, TypeOK, CkptInv, InsertLsn, bufVars, fileVars, reqVars
<1>14. CASE CkptEnd
  BY <1>0, <1>14
     DEF CkptEnd, TypeOK, CkptInv, InsertLsn, bufVars, fileVars, reqVars, NoCkpt
<1>15. CASE UNCHANGED vars
  BY <1>15 DEF vars, TypeOK, CkptInv, InsertLsn, bufVars, fileVars, reqVars
<1> QED
  BY <1>1, <1>2, <1>3, <1>4, <1>5, <1>6, <1>7, <1>8, <1>9, <1>10, <1>11, <1>12,
     <1>13, <1>14, <1>15 DEF Next

\* Every step keeps what buffers, files and the flush list say of each other.
LEMMA BufferStep == TypeOK /\ BufferInv /\ [Next]_vars => BufferInv'
<1> SUFFICES ASSUME TypeOK, BufferInv, [Next]_vars PROVE BufferInv'
  OBVIOUS
<1> USE DEF InvalidLsn
<1>0. /\ Len(log) \in Nat /\ InsertLsn = Len(log) + 1
      /\ \A s \in 1 .. Len(log) : log[s] \in Pages
  BY LogFacts DEF InsertLsn
<1>1. ASSUME NEW p \in Pages, Modify(p) PROVE BufferInv'
  <2>1. /\ Len(log') = Len(log) + 1 /\ InsertLsn' = InsertLsn + 1
        /\ \A s \in 1 .. Len(log) : log'[s] = log[s]
        /\ log'[Len(log) + 1] = p
    BY <1>1, AppendFacts DEF Modify, TypeOK, InsertLsn
  <2>2. /\ \A q \in Pages : pageLsn'[q] = IF q = p THEN InsertLsn + 1 ELSE pageLsn[q]
        /\ \A q \in Pages : oldest'[q] = IF q = p /\ oldest[p] = 0 THEN InsertLsn
                                          ELSE oldest[q]
    BY <1>1 DEF Modify, TypeOK
  <2>3. /\ \A q \in Pages : /\ pageLsn[q] \in Nat /\ written[q] \in Nat
                              /\ stable[q] \in Nat /\ oldest[q] \in Nat
        /\ UNCHANGED <<written, stable, io>>
        /\ io[p] = "none"
    BY <1>1 DEF Modify, TypeOK, fileVars
  <2>4. ASSUME NEW q \in Pages
        PROVE  /\ stable'[q] <= written'[q] /\ written'[q] <= pageLsn'[q]
               /\ oldest'[q] <= InsertLsn'
               /\ io'[q] # "none" => written'[q] = pageLsn'[q]
    <3>1. stable[q] <= written[q] /\ written[q] <= pageLsn[q] /\ oldest[q] <= InsertLsn
          /\ (io[q] # "none" => written[q] = pageLsn[q]) /\ pageLsn[q] <= InsertLsn
      BY DEF BufferInv
    <3> QED BY <1>0, <2>1, <2>2, <2>3, <3>1
  <2>5. ASSUME NEW s \in 1 .. Len(log')
        PROVE  /\ pageLsn'[log'[s]] > s
               /\ written'[log'[s]] > s \/ Listed(log[s], s)'
    <3>1. CASE s \in 1 .. Len(log)
      <4>1. /\ log[s] \in Pages /\ pageLsn[log[s]] > s
            /\ written[log[s]] > s \/ (oldest[log[s]] # 0 /\ oldest[log[s]] <= s)
        BY <1>0, <3>1 DEF BufferInv, Listed
      <4>2. log'[s] = log[s] /\ s \in Nat /\ s <= Len(log)
        BY <1>0, <2>1, <3>1
      <4>3. /\ pageLsn'[log[s]] \in {pageLsn[log[s]], InsertLsn + 1}
            /\ oldest[log[s]] # 0 => oldest'[log[s]] = oldest[log[s]]
        BY <2>2, <4>1
      <4> QED BY <1>0, <2>3, <4>1, <4>2, <4>3 DEF Listed
    <3>2. CASE s = Len(log) + 1
      BY <1>0, <2>1, <2>2, <2>3, <3>2 DEF BufferInv, Listed
    <3> QED BY <1>0, <2>1, <3>1, <3>2
  <2>6. \A q \in Pages : pageLsn'[q] <= InsertLsn'
    BY <1>0, <2>1, <2>2, <2>3 DEF BufferInv
  <2> QED BY <2>4, <2>5, <2>6 DEF BufferInv, Listed
<1>2. ASSUME NEW p \in Pages, FlushWrite(p) PROVE BufferInv'
  <2>1. /\ UNCHANGED <<log, pageLsn, oldest, stable>> /\ InsertLsn' = InsertLsn
        /\ \A q \in Pages : written'[q] = IF q = p THEN pageLsn[q] ELSE written[q]
        /\ \A q \in Pages : q # p => io'[q] = io[q]
    BY <1>2 DEF FlushWrite, TypeOK, bufVars, InsertLsn
  <2>2. \A q \in Pages : pageLsn[q] \in Nat /\ written[q] \in Nat /\ stable[q] \in Nat
    BY DEF TypeOK
  <2>3. ASSUME NEW s \in 1 .. Len(log) PROVE written'[log[s]] > s \/ Listed(log[s], s)
    BY <1>0, <2>1, <2>2 DEF BufferInv
  <2>4. ASSUME NEW s \in 1 .. Len(log) PROVE Listed(log[s], s)' = Listed(log[s], s)
    BY <2>1 DEF Listed
  <2>5. ASSUME NEW q \in Pages
        PROVE  /\ stable[q] <= written'[q] /\ written'[q] <= pageLsn[q]
               /\ io'[q] # "none" => written'[q] = pageLsn[q]
    BY <1>0, <2>1, <2>2 DEF BufferInv
  <2> QED BY <1>0, <2>1, <2>3, <2>4, <2>5 DEF BufferInv
<1>3. ASSUME NEW p \in Pages, RegisterDirtySegment(p) PROVE BufferInv'
  BY <1>0, <1>3 DEF RegisterDirtySegment, TypeOK, BufferInv, Listed, InsertLsn,
     bufVars, fileVars, reqVars
<1>4. ASSUME NEW p \in Pages, FlushDone(p) PROVE BufferInv'
  <2>1. /\ UNCHANGED <<log, pageLsn, written, stable>> /\ InsertLsn' = InsertLsn
        /\ \A q \in Pages : oldest'[q] = IF q = p THEN 0 ELSE oldest[q]
        /\ \A q \in Pages : io'[q] = IF q = p THEN "none" ELSE io[q]
        /\ io[p] # "none"
    BY <1>4 DEF FlushDone, TypeOK, fileVars, InsertLsn
  <2>2. written[p] = pageLsn[p]
    BY <2>1 DEF BufferInv
  <2>3. ASSUME NEW s \in 1 .. Len(log) PROVE written[log[s]] > s \/ Listed(log[s], s)'
    <3>1. log[s] \in Pages /\ pageLsn[log[s]] > s
          /\ (written[log[s]] > s \/ (oldest[log[s]] # 0 /\ oldest[log[s]] <= s))
      BY <1>0 DEF BufferInv, Listed
    <3>2. CASE log[s] = p
      BY <2>2, <3>1, <3>2
    <3>3. CASE log[s] # p
      BY <2>1, <3>1, <3>3 DEF Listed
    <3> QED BY <3>2, <3>3
  <2> QED BY <1>0, <2>1, <2>3 DEF BufferInv, Listed
<1>5. ASSUME NEW p \in Pages, BufferSyncSkip(p) PROVE BufferInv'
  BY <1>0, <1>5 DEF BufferSyncSkip, TypeOK, BufferInv, Listed, InsertLsn, bufVars,
     fileVars, reqVars
<1>6. ASSUME NEW p \in Pages, SyncFile(p) PROVE BufferInv'
  BY <1>0, <1>6 DEF SyncFile, TypeOK, BufferInv, Listed, InsertLsn, bufVars,
     fileVars, reqVars
<1>7. CASE ReplicaApplies
  BY <1>0, <1>7 DEF ReplicaApplies, TypeOK, BufferInv, Listed, InsertLsn, bufVars,
     fileVars, reqVars
<1>8. CASE SetConsistent
  BY <1>0, <1>8 DEF SetConsistent, TypeOK, BufferInv, Listed, InsertLsn, bufVars,
     fileVars, reqVars
<1>9. ASSUME NEW kind \in Kinds, CkptBegin(kind) PROVE BufferInv'
  BY <1>0, <1>9 DEF CkptBegin, TypeOK, BufferInv, Listed, InsertLsn, bufVars,
     fileVars, reqVars
<1>10. CASE BufferSyncScan
  BY <1>0, <1>10 DEF BufferSyncScan, TypeOK, BufferInv, Listed, InsertLsn, bufVars,
     fileVars, reqVars
<1>11. CASE AbsorbSyncRequests
  BY <1>0, <1>11 DEF AbsorbSyncRequests, TypeOK, BufferInv, Listed, InsertLsn,
     bufVars, fileVars, reqVars
<1>12. CASE SyncFails
  BY <1>0, <1>12 DEF SyncFails, TypeOK, BufferInv, Listed, InsertLsn, bufVars,
     fileVars, reqVars
<1>13. CASE SyncDone
  BY <1>0, <1>13 DEF SyncDone, TypeOK, BufferInv, Listed, InsertLsn, bufVars,
     fileVars, reqVars
<1>14. CASE CkptEnd
  BY <1>0, <1>14 DEF CkptEnd, TypeOK, BufferInv, Listed, InsertLsn, bufVars,
     fileVars, reqVars
<1>15. CASE UNCHANGED vars
  BY <1>0, <1>15
     DEF vars, TypeOK, BufferInv, Listed, InsertLsn, bufVars, fileVars, reqVars
<1> QED
  BY <1>1, <1>2, <1>3, <1>4, <1>5, <1>6, <1>7, <1>8, <1>9, <1>10, <1>11, <1>12,
     <1>13, <1>14, <1>15 DEF Next

\* No step loses a change between the flush list and the fsync requests.
LEMMA RequestStep == TypeOK /\ BufferInv /\ RequestInv /\ [Next]_vars => RequestInv'
<1> SUFFICES ASSUME TypeOK, BufferInv, RequestInv, [Next]_vars PROVE RequestInv'
  OBVIOUS
<1> USE DEF InvalidLsn
<1>0. /\ Len(log) \in Nat /\ InsertLsn = Len(log) + 1
      /\ \A s \in 1 .. Len(log) : log[s] \in Pages
  BY LogFacts DEF InsertLsn
<1>1. ASSUME NEW p \in Pages, Modify(p) PROVE RequestInv'
  <2>1. /\ Len(log') = Len(log) + 1 /\ InsertLsn' = InsertLsn + 1
        /\ \A s \in 1 .. Len(log) : log'[s] = log[s]
        /\ log'[Len(log) + 1] = p
    BY <1>1, AppendFacts DEF Modify, TypeOK, InsertLsn
  <2>2. /\ \A q \in Pages : pageLsn'[q] = IF q = p THEN InsertLsn + 1 ELSE pageLsn[q]
        /\ \A q \in Pages : oldest'[q] = IF q = p /\ oldest[p] = 0 THEN InsertLsn
                                          ELSE oldest[q]
    BY <1>1 DEF Modify, TypeOK
  <2>3. UNCHANGED <<stable, io, pending, todo>> /\ io[p] = "none"
    BY <1>1 DEF Modify, fileVars, reqVars
  <2>4. ASSUME NEW s \in 1 .. Len(log') 
        PROVE  \/ stable'[log'[s]] > s
               \/ log'[s] \in pending' \cup todo'
               \/ Listed(log[s], s)' /\ io'[log'[s]] # "registered"
    <3>1. CASE s \in 1 .. Len(log)
      <4>1. /\ log[s] \in Pages
            /\ \/ stable[log[s]] > s
               \/ log[s] \in pending \cup todo
               \/ oldest[log[s]] # 0 /\ oldest[log[s]] <= s /\ io[log[s]] # "registered"
        BY <1>0, <3>1 DEF RequestInv, Listed
      <4>2. log'[s] = log[s]
        BY <2>1, <3>1
      <4>3. oldest[log[s]] # 0 => oldest'[log[s]] = oldest[log[s]]
        BY <2>2, <4>1
      <4> QED BY <2>3, <4>1, <4>2, <4>3 DEF Listed
    <3>2. CASE s = Len(log) + 1
      <4>1. log'[s] = p /\ s = InsertLsn
        BY <1>0, <2>1, <3>2
      <4>2. oldest[p] <= InsertLsn
        BY DEF BufferInv
      <4>3. oldest'[p] = IF oldest[p] = 0 THEN InsertLsn ELSE oldest[p]
        BY <2>2
      <4>4. oldest'[p] # 0 /\ oldest'[p] <= s
        BY <1>0, <4>1, <4>2, <4>3
      <4>5. io'[p] # "registered"
        BY <2>3
      <4> QED BY <4>1, <4>4, <4>5 DEF Listed
    <3> QED BY <1>0, <2>1, <3>1, <3>2
  <2> QED BY <2>4 DEF RequestInv
<1>2. ASSUME NEW p \in Pages, FlushWrite(p) PROVE RequestInv'
  BY <1>0, <1>2 DEF FlushWrite, TypeOK, BufferInv, RequestInv, Listed, bufVars,
     fileVars, reqVars
<1>3. ASSUME NEW p \in Pages, RegisterDirtySegment(p) PROVE RequestInv'
  BY <1>0, <1>3 DEF RegisterDirtySegment, TypeOK, BufferInv, RequestInv, Listed,
     bufVars, fileVars, reqVars
<1>4. ASSUME NEW p \in Pages, FlushDone(p) PROVE RequestInv'
  BY <1>0, <1>4 DEF FlushDone, TypeOK, BufferInv, RequestInv, Listed, bufVars,
     fileVars, reqVars
<1>5. ASSUME NEW p \in Pages, BufferSyncSkip(p) PROVE RequestInv'
  BY <1>0, <1>5 DEF BufferSyncSkip, TypeOK, BufferInv, RequestInv, Listed, bufVars,
     fileVars, reqVars
<1>6. ASSUME NEW p \in Pages, SyncFile(p) PROVE RequestInv'
  BY <1>0, <1>6 DEF SyncFile, TypeOK, BufferInv, RequestInv, Listed, bufVars,
     fileVars, reqVars
<1>7. CASE ReplicaApplies
  BY <1>0, <1>7 DEF ReplicaApplies, TypeOK, BufferInv, RequestInv, Listed, bufVars,
     fileVars, reqVars
<1>8. CASE SetConsistent
  BY <1>0, <1>8 DEF SetConsistent, TypeOK, BufferInv, RequestInv, Listed, bufVars,
     fileVars, reqVars
<1>9. ASSUME NEW kind \in Kinds, CkptBegin(kind) PROVE RequestInv'
  BY <1>0, <1>9 DEF CkptBegin, TypeOK, BufferInv, RequestInv, Listed, bufVars,
     fileVars, reqVars
<1>10. CASE BufferSyncScan
  BY <1>0, <1>10 DEF BufferSyncScan, TypeOK, BufferInv, RequestInv, Listed,
     bufVars, fileVars, reqVars
<1>11. CASE AbsorbSyncRequests
  BY <1>0, <1>11 DEF AbsorbSyncRequests, TypeOK, BufferInv, RequestInv, Listed,
     bufVars, fileVars, reqVars
<1>12. CASE SyncFails
  BY <1>0, <1>12 DEF SyncFails, TypeOK, BufferInv, RequestInv, Listed, bufVars,
     fileVars, reqVars
<1>13. CASE SyncDone
  BY <1>0, <1>13 DEF SyncDone, TypeOK, BufferInv, RequestInv, Listed, bufVars,
     fileVars, reqVars
<1>14. CASE CkptEnd
  BY <1>0, <1>14 DEF CkptEnd, TypeOK, BufferInv, RequestInv, Listed, bufVars,
     fileVars, reqVars
<1>15. CASE UNCHANGED vars
  BY <1>0, <1>15
     DEF vars, TypeOK, BufferInv, RequestInv, Listed, bufVars, fileVars, reqVars
<1> QED
  BY <1>1, <1>2, <1>3, <1>4, <1>5, <1>6, <1>7, <1>8, <1>9, <1>10, <1>11, <1>12,
     <1>13, <1>14, <1>15 DEF Next

\* No step lets the redo point of an incremental checkpoint get ahead of what is
\* durable or about to be fsynced.
LEMMA DurableStep == Inv /\ DurableInv /\ [Next]_vars => DurableInv'
<1> SUFFICES ASSUME Inv, DurableInv, [Next]_vars PROVE DurableInv'
  OBVIOUS
<1> USE DEF Inv
<1> USE DEF InvalidLsn
<1>0. /\ Len(log) \in Nat /\ InsertLsn = Len(log) + 1
      /\ \A s \in 1 .. Len(log) : log[s] \in Pages
  BY LogFacts DEF InsertLsn
<1>1. ASSUME NEW p \in Pages, Modify(p) PROVE DurableInv'
  <2>1. /\ Len(log') = Len(log) + 1 /\ InsertLsn' = InsertLsn + 1
        /\ \A s \in 1 .. Len(log) : log'[s] = log[s]
        /\ log'[Len(log) + 1] = p
    BY <1>1, AppendFacts DEF Modify, TypeOK, InsertLsn
  <2>2. /\ \A q \in Pages : pageLsn'[q] = IF q = p THEN InsertLsn + 1 ELSE pageLsn[q]
        /\ \A q \in Pages : oldest'[q] = IF q = p /\ oldest[p] = 0 THEN InsertLsn
                                          ELSE oldest[q]
    BY <1>1 DEF Modify, TypeOK
  <2>3. UNCHANGED <<stable, todo, consistent, ckpt>>
    BY <1>1 DEF Modify, fileVars, reqVars
  <2>4. consistent \in Nat /\ consistent <= InsertLsn /\ ckpt.redo \in Nat
    BY <1>0 DEF TypeOK
  <2>5. ASSUME NEW s \in 1 .. Len(log'),
               ckpt.kind = "incremental", ckpt.pc \in {"sync", "wait"}
        PROVE  stable[log'[s]] > s \/ ckpt.redo <= s \/ log'[s] \in todo
    <3>1. CASE s \in 1 .. Len(log)
      BY <2>1, <2>5, <3>1 DEF DurableInv
    <3>2. CASE s = Len(log) + 1
      BY <1>0, <2>4, <2>5, <3>2 DEF DurableInv
    <3> QED BY <1>0, <2>1, <3>1, <3>2
  <2>6. \A q \in Pages : oldest'[q] # 0 => consistent <= oldest'[q]
    BY <2>2, <2>4 DEF DurableInv
  <2> QED BY <2>3, <2>5, <2>6 DEF DurableInv
<1>2. ASSUME NEW p \in Pages, FlushWrite(p) PROVE DurableInv'
  BY <1>0, <1>2
     DEF FlushWrite, TypeOK, DurableInv, bufVars, fileVars, reqVars
<1>3. ASSUME NEW p \in Pages, RegisterDirtySegment(p) PROVE DurableInv'
  <2>1. /\ UNCHANGED <<log, oldest, todo, consistent, ckpt, ctlRedo>>
        /\ \A q \in Pages : stable[q] \in Nat /\ stable'[q] \in Nat /\ stable'[q] >= stable[q]
    BY <1>3 DEF RegisterDirtySegment, TypeOK, BufferInv, bufVars
  <2> QED BY <1>0, <2>1 DEF DurableInv
<1>4. ASSUME NEW p \in Pages, FlushDone(p) PROVE DurableInv'
  <2>1. /\ UNCHANGED <<log, stable, todo, consistent, ctlRedo>>
        /\ ckpt'.pc = ckpt.pc /\ ckpt'.redo = ckpt.redo /\ ckpt'.kind = ckpt.kind
        /\ \A q \in Pages : oldest'[q] # 0 => oldest'[q] = oldest[q]
    BY <1>4 DEF FlushDone, TypeOK, fileVars, reqVars
  <2> QED BY <2>1 DEF DurableInv
<1>5. ASSUME NEW p \in Pages, BufferSyncSkip(p) PROVE DurableInv'
  BY <1>0, <1>5 DEF BufferSyncSkip, TypeOK, DurableInv, bufVars,
     fileVars, reqVars
<1>6. ASSUME NEW p \in Pages, SyncFile(p) PROVE DurableInv'
  <2>1. /\ UNCHANGED <<log, oldest, consistent, ckpt, ctlRedo>>
        /\ ckpt.pc = "sync" /\ todo' = todo \ {p}
        /\ stable' = [stable EXCEPT ![p] = written[p]]
        /\ \A q \in Pages : stable[q] \in Nat /\ written[q] \in Nat /\ oldest[q] \in Nat
        /\ consistent \in Nat /\ ckpt.redo \in Nat /\ ctlRedo \in Nat
        /\ \A q \in Pages : stable'[q] >= stable[q]
    BY <1>6, <1>0 DEF SyncFile, TypeOK, BufferInv, bufVars
  <2>2. ASSUME NEW s \in 1 .. Len(log), ckpt.kind = "incremental"
        PROVE  stable'[log[s]] > s \/ ckpt.redo <= s \/ log[s] \in todo'
    <3>1. CASE log[s] = p
      <4>1. stable'[p] = written[p]
        BY <2>1, <1>6 DEF TypeOK
      <4>2. CASE written[p] > s
        BY <3>1, <4>1, <4>2
      <4>3. CASE Listed(p, s)
        BY <1>0, <2>1, <2>2, <4>3 DEF DurableInv, Listed
      <4> QED BY <3>1, <4>2, <4>3 DEF BufferInv
    <3>2. CASE log[s] # p
      BY <1>0, <2>1, <2>2, <3>2 DEF DurableInv, TypeOK
    <3> QED BY <3>1, <3>2
  <2> QED BY <2>1, <2>2 DEF DurableInv
<1>7. CASE ReplicaApplies
  BY <1>0, <1>7 DEF ReplicaApplies, TypeOK, DurableInv, bufVars,
     fileVars, reqVars
<1>8. CASE SetConsistent
  <2>1. /\ UNCHANGED <<log, oldest, stable, todo, ckpt, ctlRedo>>
        /\ consistent' \in Nat /\ consistent' > consistent /\ consistent \in Nat
        /\ ckpt.redo \in Nat
        /\ \A q \in Pages : oldest[q] # 0 => consistent' <= oldest[q]
    BY <1>8, <1>0 DEF SetConsistent, TypeOK, InList, bufVars, fileVars, reqVars
  <2> QED BY <2>1 DEF DurableInv
<1>9. ASSUME NEW kind \in Kinds, CkptBegin(kind) PROVE DurableInv'
  <2>1. /\ UNCHANGED <<log, oldest, stable, todo, consistent>>
        /\ ckpt'.pc = "scan" /\ consistent \in Nat
        /\ ckpt'.kind = "incremental" => ckpt'.redo = consistent
    BY <1>9, <1>0 DEF CkptBegin, TypeOK, bufVars, fileVars, reqVars
  <2> QED BY <2>1 DEF DurableInv
<1>10. CASE BufferSyncScan
  BY <1>0, <1>10 DEF BufferSyncScan, TypeOK, DurableInv, bufVars,
     fileVars, reqVars
<1>11. CASE AbsorbSyncRequests
  <2>1. /\ UNCHANGED <<log, oldest, stable, consistent, ctlRedo>>
        /\ todo' = todo \cup pending /\ ckpt'.pc = "sync"
        /\ ckpt'.redo = ckpt.redo /\ ckpt'.kind = ckpt.kind
        /\ consistent \in Nat /\ ckpt.redo \in Nat
        /\ \A q \in Pages : oldest[q] \in Nat
    BY <1>11, <1>0 DEF AbsorbSyncRequests, TypeOK, bufVars, fileVars
  <2>2. ASSUME NEW s \in 1 .. Len(log), Listed(log[s], s), ckpt.kind = "incremental"
        PROVE  ckpt.redo <= s
    BY <1>0, <2>1, <2>2 DEF Listed, DurableInv
  <2>3. ASSUME NEW s \in 1 .. Len(log), ckpt.kind = "incremental"
        PROVE  stable[log[s]] > s \/ ckpt.redo <= s \/ log[s] \in todo \cup pending
    BY <2>2, <2>3 DEF RequestInv
  <2> QED BY <2>1, <2>3 DEF DurableInv
<1>12. CASE SyncFails
  <2>1. /\ UNCHANGED <<log, oldest, stable, todo, consistent, ctlRedo>>
        /\ ckpt'.pc = "idle" /\ ckpt'.kind = "none"
    BY <1>12, <1>0 DEF SyncFails, NoCkpt, TypeOK, bufVars, fileVars, reqVars
  <2> QED BY <2>1 DEF DurableInv
<1>13. CASE SyncDone
  BY <1>0, <1>13
     DEF SyncDone, TypeOK, DurableInv, bufVars, fileVars, reqVars
<1>14. CASE CkptEnd
  <2>1. /\ UNCHANGED <<log, oldest, stable, todo, consistent>>
        /\ ckpt'.pc = "idle" /\ ckpt'.kind = "none"
    BY <1>14 DEF CkptEnd, NoCkpt, bufVars, fileVars, reqVars
  <2> QED BY <2>1 DEF DurableInv
<1>15. CASE UNCHANGED vars
  BY <1>0, <1>15 DEF vars, TypeOK, DurableInv, bufVars, fileVars, reqVars
<1> QED
  BY <1>1, <1>2, <1>3, <1>4, <1>5, <1>6, <1>7, <1>8, <1>9, <1>10, <1>11, <1>12,
     <1>13, <1>14, <1>15 DEF Next

---------------------------------------------------------------------------
\* Types are kept, and every running checkpoint has a redo point, through any
\* interleaving of flushes, checkpoints and failed fsyncs.
THEOREM TypeCorrect == Spec => []TypeOK
<1>1. Inv /\ [Next]_vars => Inv'
  BY TypeStep, BufferStep, RequestStep DEF Inv
<1>2. Inv => TypeOK
  BY DEF Inv
<1> QED BY InitInv, <1>1, <1>2, PTL DEF Spec

\* Every change is durable, in the flush list, or requested to be fsynced:
\* register_dirty_segment, FlushBuffer and ProcessSyncRequests never drop one
\* between them, with checkpoints of either kind and fsyncs that fail.
THEOREM RequestsKept == Spec => []NoForgottenWrite
<1>1. Inv /\ [Next]_vars => Inv'
  BY TypeStep, BufferStep, RequestStep DEF Inv
<1>2. Inv => NoForgottenWrite
  BY DEF Inv, RequestInv, NoForgottenWrite, Listed
<1> QED BY InitInv, <1>1, <1>2, PTL DEF Spec

\* An incremental checkpoint is durable when it completes, although fsyncs
\* precede polar_wait_consistent_lsn, and although normal checkpoints may have
\* completed too early before it: all that is missing before its redo point had
\* been written, and requested, before the requests were absorbed.
THEOREM IncrementalCheckpointDurable == Spec => IncrementalDurable
<1>1. Init => Inv /\ DurableInv
  <2>1. Init => DurableInv
    BY DEF Init, DurableInv, NoCkpt, InvalidLsn
  <2> QED BY <2>1, InitInv
<1>2. Inv /\ DurableInv /\ [Next]_vars => (Inv /\ DurableInv)'
  BY TypeStep, BufferStep, RequestStep, DurableStep DEF Inv
<1>3. Inv /\ DurableInv /\ [Next]_vars =>
          [(ckpt.kind = "incremental" /\ CkptEnd) => RedoDurable']_vars
  <2> SUFFICES ASSUME Inv, DurableInv, ckpt.kind = "incremental", CkptEnd
               PROVE  RedoDurable'
    OBVIOUS
  <2>1. /\ UNCHANGED <<log, stable>> /\ ctlRedo' = ckpt.redo
        /\ ckpt.pc = "wait" /\ todo = {}
    BY DEF CkptEnd, DurableInv, bufVars, fileVars
  <2>2. /\ Len(log) \in Nat /\ ckpt.redo \in Nat
        /\ \A s \in 1 .. Len(log) : stable[log[s]] \in Nat
    <3>1. /\ Len(log) \in Nat /\ \A s \in 1 .. Len(log) : log[s] \in Pages
      BY LogFacts DEF Inv
    <3>2. ckpt.redo \in Nat /\ \A p \in Pages : stable[p] \in Nat
      BY DEF Inv, TypeOK
    <3> QED BY <3>1, <3>2
  <2>3. ASSUME NEW s \in 1 .. Len(log), stable[log[s]] <= s PROVE ckpt.redo <= s
    BY <2>1, <2>2, <2>3 DEF DurableInv
  <2> QED BY <2>1, <2>3 DEF RedoDurable
<1> QED BY <1>1, <1>2, <1>3, PTL DEF Spec, IncrementalDurable
===========================================================================
