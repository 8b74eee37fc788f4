--------------------------- MODULE BadgerWAL_proofs ---------------------------
(***************************************************************************)
(* Proofs about the write-ahead log for every MaxIndex and MaxTerm: that   *)
(* its variables keep their types and, as long as no snapshot is restored  *)
(* over a log that reaches it and no deleted group is rejoined, that       *)
(* WALInvariant is inductive, what a concurrent reader gets, what no step  *)
(* may do, and that the WAL implements RaftStorage.                        *)
(***************************************************************************)
EXTENDS BadgerWAL, WellFoundedInduction, TLAPS

-----------------------------------------------------------------------------
(* Smallest and largest keys. *)

\* A log that has keys has a smallest one, which is what an iterator over the
\* group's entry keys finds first (FirstIndex).
LEMMA MinKeyIsKey ==
    ASSUME NEW lg \in Log, Keys(lg) # {}
    PROVE  MinKey(lg) \in Index /\ MinKey(lg) \in Keys(lg)
<1>1. Keys(lg) \subseteq Nat
  BY BoundsAssumption DEF Keys, Index
<1>2. PICK m \in Keys(lg) : \A k \in Keys(lg) : <<k, m>> \notin OpToRel(<, Nat)
  BY <1>1, WFMin, NatLessThanWellFounded, Zenon
<1>3. \A k \in Keys(lg) : ~(k < m)
  BY <1>1, <1>2, Zenon DEF OpToRel
<1>4. \A k \in Keys(lg) : m <= k
  BY <1>1, <1>3
<1>5. MinKey(lg) \in Keys(lg)
  BY <1>4 DEF MinKey
<1> QED
  BY <1>5 DEF Keys

\* When the keys are an interval, its ends are the smallest and the largest key.
LEMMA SpanEnds ==
    ASSUME NEW lg \in Log, NEW a \in Index, NEW b \in Index, a <= b, Spans(lg, a, b)
    PROVE  /\ Keys(lg) # {}
           /\ MinKey(lg) = a
           /\ MaxKey(lg) = b
<1>1. a \in Keys(lg) /\ b \in Keys(lg)
  BY BoundsAssumption DEF Spans, Keys, Index
<1>2. \A j \in Keys(lg) : j \in Nat /\ a <= j /\ j <= b
  BY BoundsAssumption DEF Spans, Keys, Index
<1>3. \A m \in Keys(lg) : (\A j \in Keys(lg) : m <= j) => m = a
  BY <1>1, <1>2
<1>4. \A m \in Keys(lg) : (\A j \in Keys(lg) : j <= m) => m = b
  BY <1>1, <1>2
<1>5. MinKey(lg) = a
  BY <1>1, <1>2, <1>3 DEF MinKey
<1>6. MaxKey(lg) = b
  BY <1>1, <1>2, <1>4 DEF MaxKey
<1> QED
  BY <1>1, <1>5, <1>6

-----------------------------------------------------------------------------
(* Types. *)

\* FirstIndex and what FirstIndex leaves in the cache are first indexes, or 0.
LEMMA FirstIndexType ==
    ASSUME TypeOK
    PROVE  FirstIndex \in 0..MaxIndex + 1 /\ FirstIndexCached \in 0..MaxIndex + 1
<1>1. Keys(log) # {} => MinKey(log) \in Index
  BY MinKeyIsKey DEF TypeOK
<1>2. FirstIndex \in 0..MaxIndex + 1
  BY <1>1, BoundsAssumption DEF TypeOK, FirstIndex, NotFound, Index, Snapshot
<1> QED
  BY <1>2 DEF TypeOK, FirstIndexCached

\* The log of a new WAL (NewBadgerWAL's reset with a dummy) and the log that
\* DeleteGroup leaves are logs.
LEMMA NewLogType == NewLog \in Log /\ EmptyLog \in Log
  BY BoundsAssumption DEF NewLog, EmptyLog, Log, Dummy, Entry, Term

\* The empty values that etcd's IsEmptyHardState and IsEmptySnap recognise, and an
\* empty write batch, have their types.
LEMMA EmptyTypes ==
    /\ EmptyHardState \in HardState
    /\ EmptySnapshot \in Snapshot
    /\ EmptyBatch \in Batch
    /\ 0 \in Index /\ 0 \in 0..MaxIndex + 1
  BY BoundsAssumption
     DEF EmptyHardState, HardState, EmptySnapshot, Snapshot, EmptyBatch, Batch, Index, Term

\* Flushing a batch over a log gives a log.
LEMMA FlushedType ==
    ASSUME log \in Log, NEW b \in Batch
    PROVE  Flushed(b) \in Log
  BY DEF Flushed, Log, Batch

\* The parts of what the writer persists have their types, NoReady's included.
LEMMA RequestType ==
    ASSUME TypeOK
    PROVE  req.hs \in HardState /\ req.snap \in Snapshot /\ req.ents \in Log
  BY EmptyTypes, NewLogType DEF TypeOK, Ready, NoReady

\* The batch that Save builds from any Ready is a write batch.
LEMMA SaveBatchType ==
    ASSUME TypeOK
    PROVE  WriteSnapshot(WriteEntries(EmptyBatch)) \in Batch
<1>1. req.ents \in Log /\ req.snap \in Snapshot
  BY RequestType
<1>2. WriteEntries(EmptyBatch) \in Batch
  BY <1>1, EmptyTypes DEF WriteEntries, PutEntries, DeleteFrom, Batch, Log
<1> QED
  BY <1>1, <1>2 DEF WriteSnapshot, DeleteFrom, PutEntry, Batch, Dummy, Entry, Snapshot

\* What the run loop receives is a Ready.
LEMMA ReadyOfType ==
    ASSUME NEW h \in HardState, NEW s \in Snapshot, NEW lo \in Index, NEW hi \in Index,
           NEW terms \in [lo..hi -> Term]
    PROVE  ReadyOf(h, s, lo, hi, terms) \in Ready
<1>1. \A i \in Index : lo <= i /\ i <= hi => i \in lo..hi
  BY BoundsAssumption DEF Index
<1>2. [i \in Index |-> IF lo <= i /\ i <= hi THEN Full(terms[i]) ELSE NoEntry] \in Log
  BY <1>1 DEF Log, Full, Entry
<1> QED
  BY <1>2 DEF ReadyOf, Ready

\* A new WAL (NewBadgerWAL on an empty database) has its types.
THEOREM TypeInit == Init => TypeOK
  BY NewLogType, EmptyTypes DEF Init, TypeOK

\* Every operation of the writer, of the reader and of the process keeps the types.
THEOREM TypeStep == TypeOK /\ [Next]_vars => TypeOK'
<1> SUFFICES ASSUME TypeOK, [Next]_vars PROVE TypeOK'
  OBVIOUS
<1> USE EmptyTypes
<1>0. FirstIndexCached \in 0..MaxIndex + 1
  BY FirstIndexType
<1>1. CASE Open
  BY <1>0, <1>1, NewLogType DEF Open, TypeOK, writer
<1>2. CASE Load
  BY <1>0, <1>2 DEF Load, TypeOK, writer, db
<1>3. CASE Crash
  BY <1>3 DEF Crash, TypeOK, db
<1>4. CASE ReceiveReady
  <2>1. PICK r \in Ready : Receive(r)
    BY <1>4, ReadyOfType DEF ReceiveReady
  <2> QED
    BY <2>1 DEF Receive, TypeOK, db, cache
<1>5. CASE SaveBatch
  <2>1. req.hi \in Index
    BY DEF TypeOK, Ready, NoReady
  <2>2. LastCachedBySnapshot(LastCachedByEntries) \in Index
    BY <2>1, RequestType DEF LastCachedBySnapshot, LastCachedByEntries, TypeOK, Snapshot
  <2> QED
    BY <1>0, <1>5, <2>2, SaveBatchType, RequestType DEF SaveBatch, TypeOK, db, cache
<1>6. CASE SaveFlush
  BY <1>6, RequestType, FlushedType DEF SaveFlush, TypeOK, cache
<1>7. ASSUME NEW i \in Index, CreateSnapshot(i) PROVE TypeOK'
  <2> DEFINE s == [index |-> i, term |-> log[i].term]
  <2>1. s \in Snapshot
    BY <1>7 DEF CreateSnapshot, TypeOK, Log, Entry, Snapshot
  <2>2. DeleteUntil(PutEntry(EmptyBatch, i, Dummy(s.term)), i) \in Batch
    BY <2>1 DEF DeleteUntil, PutEntry, Batch, Dummy, Entry, Snapshot
  <2>3. cFirst' \in 0..MaxIndex + 1
    BY <1>0, <1>7, BoundsAssumption DEF CreateSnapshot, Index
  <2>4. cLast' \in Index
    BY <1>7 DEF CreateSnapshot, TypeOK
  <2>5. req' = [NoReady EXCEPT !.snap = s] /\ cSnap' = s
    BY <1>7 DEF CreateSnapshot
  <2>6. req' \in Ready
    <3>1. 1 <= i
      BY <1>7, BoundsAssumption DEF CreateSnapshot, SnapshotRead, TypeOK, Snapshot, Index
    <3>2. 1 \in Index
      BY <3>1, BoundsAssumption DEF Index
    <3>3. req' = [hs |-> EmptyHardState, ents |-> EmptyLog, lo |-> 1, hi |-> 0, snap |-> s]
      BY <2>5 DEF NoReady
    <3> QED
      BY <2>1, <3>2, <3>3, NewLogType DEF Ready
  <2> QED
    BY <1>7, <2>1, <2>2, <2>3, <2>4, <2>5, <2>6 DEF CreateSnapshot, TypeOK, db
<1>8. CASE SnapshotFlush
  BY <1>8, RequestType, FlushedType DEF SnapshotFlush, TypeOK, cache
<1>9. CASE SnapshotFlushFails
  BY <1>9 DEF SnapshotFlushFails, TypeOK, cache, db
<1>10. ASSUME NEW lo \in Index, NEW hi \in 1..MaxIndex + 1, StartEntries(lo, hi)
       PROVE TypeOK'
  BY <1>0, <1>10, BoundsAssumption DEF StartEntries, TypeOK, Reading, db, writer
<1>11. ASSUME NEW i \in Index, StartTerm(i) PROVE TypeOK'
  BY <1>0, <1>11 DEF StartTerm, TypeOK, Reading, db, writer
<1>12. CASE FinishRead
  BY <1>12 DEF FinishRead, TypeOK, db, cache, writer
<1>13. CASE DeleteGroup
  BY <1>13, NewLogType DEF DeleteGroup, TypeOK, writer
<1>14. CASE UNCHANGED vars
  BY <1>14 DEF TypeOK, vars
<1> QED
  BY <1>1, <1>2, <1>3, <1>4, <1>5, <1>6, <1>7, <1>8, <1>9, <1>10, <1>11, <1>12,
     <1>13, <1>14 DEF Next

\* The database, the cache, the write batch and both goroutines keep their types,
\* wherever snapshots are restored.
THEOREM TypeCorrect == Spec => []TypeOK
  BY TypeInit, TypeStep, PTL DEF Spec

-----------------------------------------------------------------------------
(* Well-formed stores. *)

\* What Stored says, in terms of the smallest and the largest key.
LEMMA StoredEnds ==
    ASSUME NEW lg \in Log, NEW h \in HardState, NEW s \in Snapshot, Stored(lg, h, s)
    PROVE  /\ Keys(lg) # {}
           /\ MinKey(lg) = s.index
           /\ MaxKey(lg) \in Index
           /\ Spans(lg, s.index, MaxKey(lg))
           /\ s.index <= MaxKey(lg) /\ h.commit <= MaxKey(lg)
           /\ s.index <= h.commit
           /\ lg[s.index] = Dummy(s.term)
           /\ \A i \in Index : i # s.index /\ lg[i] # NoEntry => lg[i].data = "full"
<1>1. PICK b \in Index : Spans(lg, s.index, b) /\ s.index <= b /\ h.commit <= b
  BY DEF Stored
<1>2. s.index \in Index
  BY DEF Snapshot
<1>3. Keys(lg) # {} /\ MinKey(lg) = s.index /\ MaxKey(lg) = b
  BY <1>1, <1>2, SpanEnds
<1> QED
  BY <1>1, <1>3 DEF Stored

\* A store that spans its indexes as it should is well-formed, and the end of the
\* span is its largest key.
LEMMA StoredIntro ==
    ASSUME NEW lg \in Log, NEW h \in HardState, NEW s \in Snapshot, NEW b \in Index,
           Spans(lg, s.index, b), s.index <= b, h.commit <= b, s.index <= h.commit,
           lg[s.index] = Dummy(s.term),
           \A i \in Index : i # s.index /\ lg[i] # NoEntry => lg[i].data = "full"
    PROVE  Stored(lg, h, s) /\ MaxKey(lg) = b
<1>1. MaxKey(lg) = b
  BY SpanEnds DEF Snapshot
<1> QED
  BY <1>1 DEF Stored

\* In a group of this node, FirstIndex is the index after the snapshot that
\* Snapshot() returns, wherever the two are read from.
LEMMA FirstIndexFollowsSnapshot ==
    ASSUME TypeOK, WALInvariant, member
    PROVE  /\ FirstIndex = SnapshotRead.index + 1
           /\ FirstIndex # NotFound
           /\ wpc # "saving" => FirstIndex <= hs.commit + 1
           /\ cSnap = EmptySnapshot => FirstIndexCached = snap.index + 1
           /\ cSnap # EmptySnapshot => FirstIndexCached = cFirst
<1>1. Keys(log) # {} /\ MinKey(log) = snap.index /\ snap.index <= hs.commit
  BY StoredEnds DEF WALInvariant, TypeOK
<1>2. snap.index \in Nat /\ cSnap.index \in Nat /\ hs.commit \in Nat
  BY BoundsAssumption DEF TypeOK, Snapshot, HardState, Index
<1>3. CASE cSnap # EmptySnapshot
  BY <1>1, <1>2, <1>3
     DEF FirstIndex, FirstIndexCached, SnapshotRead, NotFound, WALInvariant, SnapshotCacheOK
<1>4. CASE cSnap = EmptySnapshot
  BY <1>1, <1>2, <1>4
     DEF FirstIndex, FirstIndexCached, SnapshotRead, NotFound, WALInvariant, SnapshotCacheOK
<1> QED
  BY <1>3, <1>4

-----------------------------------------------------------------------------
(* The batch that Save builds. *)

\* The last index of the log once the Ready is persisted.
LastAfter ==
    IF req.lo <= req.hi THEN req.hi
    ELSE IF req.snap # EmptySnapshot THEN req.snap.index
    ELSE MaxKey(log)

SavedLog == Flushed(WriteSnapshot(WriteEntries(EmptyBatch)))

\* What LegalReady says that Save relies on, with the bounds of the stored log.
LEMMA ReadyFacts ==
    ASSUME TypeOK, WALInvariant, member, wpc = "ready"
    PROVE  /\ req.lo \in Nat /\ req.hi \in Index
           /\ req.snap.index \in Index /\ MaxKey(log) \in Index /\ hs.commit \in Index
           /\ Spans(req.ents, req.lo, req.hi)
           /\ hs.commit <= NextHard.commit /\ NextHard.commit <= LastAfter
           /\ LastAfter \in Index
           /\ req.snap = EmptySnapshot => hs.commit < req.lo \/ req.lo > req.hi
           /\ req.lo <= req.hi /\ req.snap = EmptySnapshot =>
                hs.commit < req.lo /\ req.lo <= MaxKey(log) + 1
           /\ req.lo <= req.hi /\ req.snap # EmptySnapshot => req.lo = req.snap.index + 1
           /\ req.snap # EmptySnapshot =>
                /\ hs.commit < req.snap.index /\ req.snap.index <= NextHard.commit
                /\ MaxKey(log) < req.snap.index
           /\ \A i \in Index : req.lo <= i /\ i <= req.hi =>
                req.ents[i] \in Entry /\ req.ents[i].data = "full"
<1>1. MaxKey(log) \in Index
  BY StoredEnds DEF WALInvariant, TypeOK
<1>2. req.lo \in Nat /\ req.hi \in Index
  BY BoundsAssumption DEF TypeOK, Ready, NoReady, Index
<1>3. req.snap.index \in Index /\ hs.commit \in Index /\ req.hs \in HardState
  BY RequestType DEF TypeOK, Snapshot, HardState
<1>4. LegalReady(log, hs, req)
  BY DEF WALInvariant, ReadyOK
<1>5. req.snap # EmptySnapshot => MaxKey(log) < req.snap.index
  BY DEF WALInvariant, ReadyOK
<1>6. /\ Spans(req.ents, req.lo, req.hi)
      /\ hs.commit <= NextHard.commit /\ NextHard.commit <= LastAfter
  BY <1>4 DEF LegalReady, NextHard, LastAfter
<1>7. /\ req.lo <= req.hi => /\ hs.commit < req.lo
                             /\ req.snap = EmptySnapshot => req.lo <= MaxKey(log) + 1
                             /\ req.snap # EmptySnapshot => req.lo = req.snap.index + 1
                             /\ \A i \in req.lo..req.hi : req.ents[i].data = "full"
      /\ req.snap # EmptySnapshot => /\ hs.commit < req.snap.index
                                     /\ req.snap.index <= NextHard.commit
  BY <1>4 DEF LegalReady, NextHard
<1>8. \A i \in Index : req.lo <= i /\ i <= req.hi =>
         req.ents[i] \in Entry /\ req.ents[i].data = "full"
  BY <1>2, <1>6, <1>7, RequestType, BoundsAssumption DEF Spans, Log, Index
<1> QED
  BY <1>1, <1>2, <1>3, <1>5, <1>6, <1>7, <1>8, BoundsAssumption DEF LastAfter, Index

\* The batch, key by key: writeEntries keeps what is below the new entries and
\* deletes the tail above them; writeSnapshot and the deletion after it leave the
\* dummy and the entries that came along.
LEMMA SavedLogEntries ==
    ASSUME TypeOK, WALInvariant, member, wpc = "ready", NEW i \in Index
    PROVE  SavedLog[i] =
             IF req.snap # EmptySnapshot /\ i = req.snap.index THEN Dummy(req.snap.term)
             ELSE IF req.lo <= i /\ i <= req.hi THEN req.ents[i]
             ELSE IF req.snap # EmptySnapshot THEN NoEntry
             ELSE IF req.lo <= req.hi /\ req.hi < i THEN NoEntry
             ELSE log[i]
<1> DEFINE we == WriteEntries(EmptyBatch)
           M == MaxKey(log)
<1> USE BoundsAssumption, ValuesAssumption
<1>1. /\ FirstIndex \in Nat /\ FirstIndex <= hs.commit + 1
  BY FirstIndexFollowsSnapshot, FirstIndexType DEF Index
<1>2. /\ log[i] # NoEntry => i <= M
      /\ log[i] # Keep /\ (log[i] # NoEntry => log[i] \in Entry)
  BY StoredEnds DEF WALInvariant, TypeOK, Spans, Log
<1>3. LastIndex = M
  BY StoredEnds DEF WALInvariant, TypeOK, LastIndex, LastCacheOK
<1>4. req.lo \in Nat /\ req.hi \in Nat /\ M \in Nat /\ hs.commit \in Nat /\ i \in Nat
      /\ req.snap.index \in Nat
  BY ReadyFacts DEF Index
<1>5. CASE req.lo > req.hi
  <2>1. we = EmptyBatch
    BY <1>4, <1>5 DEF WriteEntries
  <2>2. we[i] = Keep
    BY <2>1 DEF EmptyBatch
  <2>3. CASE req.snap = EmptySnapshot
    BY <1>4, <1>5, <2>2, <2>3 DEF SavedLog, WriteSnapshot, Flushed
  <2>4. CASE req.snap # EmptySnapshot
    <3>1. WriteSnapshot(we)[i] = IF log[i] # NoEntry THEN NoEntry
                                 ELSE IF i = req.snap.index THEN Dummy(req.snap.term) ELSE Keep
      BY <1>4, <2>1, <2>2, <2>4 DEF WriteSnapshot, DeleteFrom, PutEntry, EmptyBatch
    <3>2. i = req.snap.index => log[i] = NoEntry
      BY <1>2, <1>4, <2>4, ReadyFacts
    <3>3. Dummy(req.snap.term) # Keep
      BY RequestType DEF Dummy, Entry, Snapshot
    <3> QED
      BY <1>4, <1>5, <2>4, <3>1, <3>2, <3>3 DEF SavedLog, Flushed
  <2> QED
    BY <2>3, <2>4
<1>6. CASE req.lo <= req.hi
  <2>1. FirstIndex <= req.lo /\ FirstIndex <= req.hi
    BY <1>1, <1>4, <1>6, ReadyFacts
  <2>2. \A j \in Index : we[j] = IF req.lo <= j /\ j <= req.hi THEN req.ents[j]
                                 ELSE IF req.hi < j /\ log[j] # NoEntry /\ M > req.hi
                                 THEN NoEntry ELSE Keep
    <3> DEFINE put == PutEntries(EmptyBatch, req.ents, req.lo, req.hi)
    <3>1. we = IF M > req.hi THEN DeleteFrom(put, req.hi + 1) ELSE put
      BY <1>1, <1>3, <1>4, <1>6, <2>1 DEF WriteEntries
    <3>2. \A j \in Index : put[j] = IF req.lo <= j /\ j <= req.hi THEN req.ents[j] ELSE Keep
      BY DEF PutEntries, EmptyBatch
    <3>3. \A j \in Index : j \in Nat
      BY DEF Index
    <3>4. CASE M > req.hi
      BY <1>4, <3>1, <3>2, <3>3, <3>4 DEF DeleteFrom
    <3>5. CASE ~(M > req.hi)
      BY <3>1, <3>2, <3>5
    <3> QED
      BY <3>4, <3>5
  <2>3. req.lo <= i /\ i <= req.hi => req.ents[i] \in Entry /\ req.ents[i] # Keep
    BY ReadyFacts
  <2>4. CASE req.snap = EmptySnapshot
    BY <1>2, <1>4, <1>6, <2>2, <2>3, <2>4 DEF SavedLog, WriteSnapshot, Flushed
  <2>5. CASE req.snap # EmptySnapshot
    <3>1. we \in Batch
      BY RequestType, EmptyTypes DEF WriteEntries, PutEntries, DeleteFrom, Batch, Log
    <3>2. WriteSnapshot(we)[i] = IF log[i] # NoEntry THEN NoEntry
                                 ELSE IF i = req.snap.index THEN Dummy(req.snap.term) ELSE we[i]
      BY <1>4, <2>5, <3>1 DEF WriteSnapshot, DeleteFrom, PutEntry, Batch
    <3>3. (i = req.snap.index \/ req.lo <= i) => log[i] = NoEntry
      BY <1>2, <1>4, <1>6, <2>5, ReadyFacts
    <3>4. Dummy(req.snap.term) # Keep
      BY RequestType DEF Dummy, Entry, Snapshot
    <3>5. log[i] # NoEntry => ~(req.lo <= i) /\ i # req.snap.index
      BY <3>3
    <3>6. CASE log[i] # NoEntry
      BY <1>6, <2>5, <3>2, <3>5, <3>6 DEF SavedLog, Flushed
    <3>7. CASE log[i] = NoEntry
      BY <1>4, <1>6, <2>2, <2>3, <2>5, <3>2, <3>4, <3>7 DEF SavedLog, Flushed
    <3> QED
      BY <3>6, <3>7
  <2> QED
    BY <2>4, <2>5
<1> QED
  BY <1>4, <1>5, <1>6

\* The flush of Save's batch leaves a well-formed store that ends at LastAfter.
LEMMA SavedStored ==
    ASSUME TypeOK, WALInvariant, member, wpc = "ready"
    PROVE  Stored(SavedLog, NextHard, NextSnapshot) /\ MaxKey(SavedLog) = LastAfter
<1> DEFINE M == MaxKey(log)
<1> USE BoundsAssumption, ValuesAssumption
<1>1. SavedLog \in Log
  BY FlushedType, SaveBatchType DEF SavedLog, TypeOK
<1>2. NextHard \in HardState /\ NextSnapshot \in Snapshot
  BY RequestType DEF NextHard, NextSnapshot, TypeOK
<1>3. /\ req.lo \in Nat /\ req.hi \in Nat /\ M \in Nat /\ hs.commit \in Nat
      /\ req.snap.index \in Nat /\ snap.index \in Nat /\ NextHard.commit \in Nat
      /\ LastAfter \in Nat
      /\ \A i \in Index : i \in Nat
  BY <1>2, ReadyFacts DEF Index, TypeOK, Snapshot, HardState
<1>4. /\ Spans(log, snap.index, M) /\ snap.index <= M /\ snap.index <= hs.commit
      /\ log[snap.index] = Dummy(snap.term)
      /\ \A i \in Index : i # snap.index /\ log[i] # NoEntry => log[i].data = "full"
      /\ hs.commit <= M
  BY StoredEnds DEF WALInvariant, TypeOK
<1>5. \A t \in Term : Dummy(t) # NoEntry
  BY DEF Dummy, Entry
<1>6. snap.index \in Index /\ snap.term \in Term /\ req.snap.term \in Term
      /\ req.snap.index \in Index
  BY RequestType DEF TypeOK, Snapshot
<1>7. \A i \in Index : req.lo <= i /\ i <= req.hi =>
         req.ents[i] # NoEntry /\ req.ents[i].data = "full"
  BY ReadyFacts
<1>8. CASE req.snap # EmptySnapshot
  <2>1. \A i \in Index : SavedLog[i] =
             IF i = req.snap.index THEN Dummy(req.snap.term)
             ELSE IF req.lo <= i /\ i <= req.hi THEN req.ents[i] ELSE NoEntry
    BY <1>8, SavedLogEntries
  <2>2. NextSnapshot = req.snap
    BY <1>8 DEF NextSnapshot
  <2>3. /\ LastAfter = IF req.lo <= req.hi THEN req.hi ELSE req.snap.index
        /\ req.lo <= req.hi => req.lo = req.snap.index + 1
        /\ req.snap.index <= NextHard.commit /\ NextHard.commit <= LastAfter
    BY <1>8, ReadyFacts DEF LastAfter
  <2>4. Spans(SavedLog, req.snap.index, LastAfter)
    <3> SUFFICES ASSUME NEW i \in Index
                 PROVE  SavedLog[i] # NoEntry <=> req.snap.index <= i /\ i <= LastAfter
      BY DEF Spans
    <3>1. CASE req.lo <= req.hi
      BY <1>3, <1>5, <1>6, <1>7, <2>1, <2>3, <3>1
    <3>2. CASE ~(req.lo <= req.hi)
      BY <1>3, <1>5, <1>6, <2>1, <2>3, <3>2
    <3> QED
      BY <3>1, <3>2
  <2>5. /\ req.snap.index <= LastAfter
        /\ SavedLog[req.snap.index] = Dummy(req.snap.term)
        /\ \A i \in Index : i # req.snap.index /\ SavedLog[i] # NoEntry =>
               SavedLog[i].data = "full"
    BY <1>3, <1>6, <1>7, <2>1, <2>3
  <2> QED
    BY <1>1, <1>2, <2>2, <2>3, <2>4, <2>5, ReadyFacts, StoredIntro
<1>9. CASE req.snap = EmptySnapshot
  <2>1. \A i \in Index : SavedLog[i] =
             IF req.lo <= i /\ i <= req.hi THEN req.ents[i]
             ELSE IF req.lo <= req.hi /\ req.hi < i THEN NoEntry ELSE log[i]
    BY <1>9, SavedLogEntries
  <2>2. NextSnapshot = snap
    BY <1>9 DEF NextSnapshot
  <2>3. /\ LastAfter = IF req.lo <= req.hi THEN req.hi ELSE M
        /\ req.lo <= req.hi => hs.commit < req.lo /\ req.lo <= M + 1
        /\ hs.commit <= NextHard.commit /\ NextHard.commit <= LastAfter
    BY <1>9, ReadyFacts DEF LastAfter
  <2>4. Spans(SavedLog, snap.index, LastAfter)
    <3> SUFFICES ASSUME NEW i \in Index
                 PROVE  SavedLog[i] # NoEntry <=> snap.index <= i /\ i <= LastAfter
      BY DEF Spans
    <3>1. log[i] # NoEntry <=> snap.index <= i /\ i <= M
      BY <1>4 DEF Spans
    <3>2. CASE req.lo <= req.hi
      BY <1>3, <1>4, <1>7, <2>1, <2>3, <3>1, <3>2
    <3>3. CASE ~(req.lo <= req.hi)
      BY <1>3, <2>1, <2>3, <3>1, <3>3
    <3> QED
      BY <3>2, <3>3
  <2>5. snap.index <= NextHard.commit /\ snap.index <= LastAfter
    BY <1>3, <1>4, <2>3
  <2>6. SavedLog[snap.index] = Dummy(snap.term)
    BY <1>3, <1>4, <1>6, <2>1, <2>3
  <2>7. \A i \in Index : i # snap.index /\ SavedLog[i] # NoEntry => SavedLog[i].data = "full"
    BY <1>4, <1>7, <2>1
  <2> QED
    BY <1>1, <1>2, <2>2, <2>3, <2>4, <2>5, <2>6, <2>7, ReadyFacts, StoredIntro
<1> QED
  BY <1>8, <1>9

\* What Save leaves as the cached last index, if any, is where its log will end.
LEMMA SavedLastCached ==
    ASSUME TypeOK, WALInvariant, member, wpc = "ready",
           LastCachedBySnapshot(LastCachedByEntries) # 0
    PROVE  LastCachedBySnapshot(LastCachedByEntries) = LastAfter
<1> USE BoundsAssumption
<1>1. /\ FirstIndex \in Nat /\ FirstIndex <= hs.commit + 1
  BY FirstIndexFollowsSnapshot, FirstIndexType DEF Index
<1>2. cLast # 0 => cLast = MaxKey(log)
  BY DEF WALInvariant, LastCacheOK
<1>3. /\ req.lo \in Nat /\ req.hi \in Nat /\ MaxKey(log) \in Nat /\ hs.commit \in Nat
      /\ req.snap.index \in Nat
      /\ req.lo <= req.hi => hs.commit < req.lo
  <2>1. /\ req.lo \in Nat /\ req.hi \in Nat /\ MaxKey(log) \in Nat /\ hs.commit \in Nat
        /\ req.snap.index \in Nat
    BY ReadyFacts DEF Index
  <2> QED
    BY <2>1, ReadyFacts
<1>4. LastCachedByEntries = IF req.lo <= req.hi THEN req.hi ELSE cLast
  BY <1>1, <1>3 DEF LastCachedByEntries
<1>5. CASE req.snap = EmptySnapshot
  <2>1. req.snap.index = 0
    BY <1>5 DEF EmptySnapshot
  <2> QED
    BY <1>2, <1>3, <1>4, <1>5, <2>1 DEF LastCachedBySnapshot, LastAfter
<1>6. CASE req.snap # EmptySnapshot
  <2>1. MaxKey(log) < req.snap.index /\ (req.lo <= req.hi => req.lo = req.snap.index + 1)
    BY <1>6, ReadyFacts
  <2> QED
    BY <1>2, <1>3, <1>4, <1>6, <2>1 DEF LastCachedBySnapshot, LastAfter
<1> QED
  BY <1>5, <1>6

-----------------------------------------------------------------------------
(* The batch that CreateSnapshot builds. *)

CompactedLog(i) ==
    Flushed(DeleteUntil(PutEntry(EmptyBatch, i, Dummy(log[i].term)), i))

\* Compacting at a stored, committed index leaves a well-formed store with the same
\* last entry.
LEMMA CompactedStored ==
    ASSUME TypeOK, WALInvariant, member, NEW i \in Index, CreateSnapshot(i)
    PROVE  /\ Stored(CompactedLog(i), hs, [index |-> i, term |-> log[i].term])
           /\ MaxKey(CompactedLog(i)) = MaxKey(log)
           /\ [index |-> i, term |-> log[i].term] \in Snapshot
<1> DEFINE M == MaxKey(log)
           s == [index |-> i, term |-> log[i].term]
           new == CompactedLog(i)
<1> USE BoundsAssumption, ValuesAssumption
<1>1. /\ Spans(log, snap.index, M) /\ M \in Index
      /\ \A j \in Index : j # snap.index /\ log[j] # NoEntry => log[j].data = "full"
      /\ hs.commit <= M
  BY StoredEnds DEF WALInvariant, TypeOK
<1>2. log[i] # NoEntry /\ i <= hs.commit
  BY DEF CreateSnapshot
<1>3. snap.index \in Nat /\ hs.commit \in Nat /\ M \in Nat /\ (\A j \in Index : j \in Nat)
  BY <1>1 DEF Index, TypeOK, Snapshot, HardState
<1>4. snap.index <= i /\ i <= M
  BY <1>1, <1>2 DEF Spans
<1>5. s \in Snapshot /\ Dummy(s.term) \in Entry
  BY <1>2 DEF TypeOK, Log, Entry, Snapshot, Dummy
<1>6. DeleteUntil(PutEntry(EmptyBatch, i, Dummy(s.term)), i) \in Batch
  BY <1>5, EmptyTypes DEF DeleteUntil, PutEntry, Batch
<1>7. new \in Log
  BY <1>6, FlushedType DEF CompactedLog, TypeOK
<1>8. \A j \in Index : new[j] = IF j < i THEN NoEntry
                                ELSE IF j = i THEN Dummy(s.term) ELSE log[j]
  <2> SUFFICES ASSUME NEW j \in Index
               PROVE  new[j] = IF j < i THEN NoEntry
                               ELSE IF j = i THEN Dummy(s.term) ELSE log[j]
    OBVIOUS
  <2>1. DeleteUntil(PutEntry(EmptyBatch, i, Dummy(s.term)), i)[j] =
           IF log[j] # NoEntry /\ j < i THEN NoEntry
           ELSE IF j = i THEN Dummy(s.term) ELSE Keep
    BY DEF DeleteUntil, PutEntry, EmptyBatch
  <2> QED
    BY <1>3, <1>5, <2>1 DEF CompactedLog, Flushed
<1>9. Spans(new, i, M)
  BY <1>1, <1>3, <1>4, <1>5, <1>8 DEF Spans
<1>10. new[i] = Dummy(s.term)
       /\ \A j \in Index : j # i /\ new[j] # NoEntry => new[j].data = "full"
  BY <1>1, <1>3, <1>4, <1>8
<1> QED
  BY <1>1, <1>2, <1>4, <1>5, <1>7, <1>9, <1>10, StoredIntro DEF TypeOK

-----------------------------------------------------------------------------
(* WALInvariant is inductive. *)

\* A new WAL is a well-formed store: its only entry is the dummy at index 0.
THEOREM InvariantInit == Init => WALInvariant
<1> SUFFICES ASSUME Init PROVE WALInvariant
  OBVIOUS
<1>1. NewLog \in Log /\ EmptyHardState \in HardState /\ EmptySnapshot \in Snapshot
      /\ 0 \in Index
  BY NewLogType, EmptyTypes
<1>2. Spans(NewLog, 0, 0)
  BY BoundsAssumption, ValuesAssumption DEF Spans, NewLog, Dummy, Entry, Term, Index
<1>3. NewLog[0] = Dummy(0) /\ \A i \in Index : i # 0 => NewLog[i] = NoEntry
  BY <1>1 DEF NewLog
<1>4. Stored(NewLog, EmptyHardState, EmptySnapshot)
  BY <1>1, <1>2, <1>3 DEF Stored, EmptyHardState, EmptySnapshot
<1> QED
  BY <1>4 DEF Init, WALInvariant, SnapshotCacheOK, LastCacheOK, ReadyOK, BatchOK, UnusedOK

\* Every step keeps the invariant: the batches of Save and CreateSnapshot are built so
\* that a flush, or a crash before it, leaves a well-formed store.
THEOREM InvariantStep ==
    ASSUME ~RestoresOverLog
    PROVE  TypeOK /\ WALInvariant /\ [Next]_vars => WALInvariant'
<1> SUFFICES ASSUME TypeOK, WALInvariant, [Next]_vars
             PROVE  WALInvariant'
  OBVIOUS
<1> DEFINE Grouped == /\ Stored(log, hs, snap)
                      /\ SnapshotCacheOK /\ LastCacheOK
                      /\ ReadyOK /\ BatchOK /\ UnusedOK
<1>0. /\ mode # "panicked" /\ (mode = "fatal" => ~member) /\ (mode = "up" => member)
      /\ member => Grouped
  BY DEF WALInvariant
\* Only the parts about a group of this node, and only for one, need more than
\* that a step does not panic or end the process.
<1>a. ASSUME mode' # "panicked", mode' = "fatal" => ~member', mode' = "up" => member',
             member' => member, member /\ member' => Grouped'
      PROVE  WALInvariant'
  BY <1>0, <1>a DEF WALInvariant
<1>1. CASE Open
  <2>1. member => FirstIndex # NotFound /\ FirstIndexCached = snap.index + 1
    BY <1>0, <1>1, FirstIndexFollowsSnapshot DEF Open, UnusedOK
  <2>2. member => log' = log /\ cFirst' = snap.index + 1
    BY <1>1, <2>1 DEF Open
  <2>3. member => Grouped'
    BY <1>0, <1>1, <2>2
       DEF Open, writer, SnapshotCacheOK, LastCacheOK, ReadyOK, BatchOK, UnusedOK
  <2> QED
    BY <1>a, <1>1, <2>3 DEF Open
<1>2. CASE Load
  <2>1. member /\ wpc = "idle" /\ cSnap = EmptySnapshot /\ cLast = 0
    BY <1>0, <1>2 DEF Load, UnusedOK
  <2>2. FirstIndex # NotFound /\ FirstIndex = snap.index + 1
        /\ FirstIndexCached = snap.index + 1
    BY <2>1, FirstIndexFollowsSnapshot DEF SnapshotRead
  <2>3. LastIndex = MaxKey(log) /\ snap.index <= hs.commit /\ hs.commit <= MaxKey(log)
    BY <1>0, <2>1, StoredEnds DEF LastIndex, TypeOK
  <2>4. snap.index \in Nat
    BY BoundsAssumption DEF TypeOK, Snapshot, Index
  <2>5. mode' = "up"
    BY <1>2, <2>2, <2>3, <2>4 DEF Load
  <2>6. Grouped'
    BY <1>0, <1>2, <2>1, <2>2, <2>5
       DEF Load, db, writer, SnapshotCacheOK, LastCacheOK, ReadyOK, BatchOK, UnusedOK
  <2> QED
    BY <1>a, <1>2, <2>5, <2>6 DEF Load
<1>3. CASE Crash
  <2>1. member => Grouped'
    BY <1>0, <1>3 DEF Crash, db, SnapshotCacheOK, LastCacheOK, ReadyOK, BatchOK, UnusedOK
  <2> QED
    BY <1>a, <1>3, <2>1 DEF Crash
<1>4. CASE ReceiveReady
  <2>1. mode = "up" /\ wpc = "idle" /\ \E r : Receive(r)
    BY <1>4, Zenon DEF ReceiveReady
  <2>2. PICK r : Receive(r)
    BY <2>1
  <2>3. ReadyOK'
    BY <2>2 DEF Receive, ReadyOK, db
  <2>4. member => Grouped'
    BY <1>0, <2>1, <2>2, <2>3
       DEF Receive, db, cache, SnapshotCacheOK, LastCacheOK, BatchOK, UnusedOK
  <2> QED
    BY <1>0, <1>a, <2>1, <2>2, <2>4 DEF Receive
<1>5. CASE SaveBatch
  <2>1. ASSUME member PROVE WALInvariant'
    <3>1. ~(req.lo <= req.hi /\ FirstIndex = NotFound)
      BY <2>1, FirstIndexFollowsSnapshot
    <3>2. /\ batch' = WriteSnapshot(WriteEntries(EmptyBatch))
          /\ cFirst' = IF req.lo <= req.hi THEN FirstIndexCached ELSE cFirst
          /\ cLast' = LastCachedBySnapshot(LastCachedByEntries)
          /\ cSnap' = IF req.snap = EmptySnapshot THEN cSnap ELSE req.snap
          /\ wpc = "ready" /\ wpc' = "saving"
          /\ UNCHANGED <<req, mode, log, hs, snap, member>>
      BY <1>5, <3>1 DEF SaveBatch, SaveFails, db
    <3>3. Flushed(batch)' = SavedLog
      BY <3>2 DEF SavedLog, Flushed
    <3>4. (cLast # 0 => cLast = MaxKey(Flushed(batch)))'
      BY <2>1, <3>2, <3>3, SavedStored, SavedLastCached
    <3>5. LastCacheOK'
      BY <3>2, <3>4 DEF LastCacheOK
    <3>6. NextHard' = NextHard /\ NextSnapshot' = NextSnapshot
      BY <3>2 DEF NextHard, NextSnapshot
    <3>7. BatchOK'
      BY <2>1, <3>2, <3>3, <3>6, SavedStored, ReadyFacts DEF BatchOK
    <3>8. SnapshotCacheOK'
      <4>1. CASE req.snap = EmptySnapshot
        <5>1. cSnap' = cSnap
          BY <3>2, <4>1
        <5>2. cSnap = EmptySnapshot /\ cFirst' # 0 => cFirst' = snap.index + 1
          BY <1>0, <2>1, <3>2, FirstIndexFollowsSnapshot DEF SnapshotCacheOK
        <5> QED
          BY <1>0, <2>1, <3>2, <5>1, <5>2 DEF SnapshotCacheOK
      <4>2. CASE req.snap # EmptySnapshot
        <5>1. hs.commit < req.snap.index /\ hs.commit \in Nat /\ req.snap.index \in Nat
              /\ snap.index \in Nat
          BY <2>1, <3>2, <4>2, ReadyFacts, BoundsAssumption DEF Index, TypeOK, Snapshot
        <5>2. snap.index <= hs.commit
          BY <1>0, <2>1, StoredEnds DEF TypeOK
        <5> QED
          BY <3>2, <4>2, <5>1, <5>2 DEF SnapshotCacheOK
      <4> QED
        BY <4>1, <4>2
    <3>9. ReadyOK' /\ UnusedOK'
      BY <1>0, <2>1, <3>2 DEF ReadyOK, UnusedOK
    <3> QED
      BY <1>0, <1>a, <2>1, <3>2, <3>5, <3>7, <3>8, <3>9
  <2>2. CASE ~member
    BY <1>0, <1>a, <1>5, <2>2 DEF SaveBatch
  <2> QED
    BY <2>1, <2>2
<1>6. CASE SaveFlush
  <2>1. ASSUME member PROVE WALInvariant'
    <3>1. /\ log' = Flushed(batch) /\ hs' = NextHard /\ snap' = NextSnapshot
          /\ wpc = "saving" /\ wpc' = "idle"
          /\ UNCHANGED <<cSnap, cFirst, cLast, mode, member>>
      BY <1>6 DEF SaveFlush, NextHard, NextSnapshot, cache
    <3>2. /\ Stored(log', hs', snap')
          /\ req.snap # EmptySnapshot => cSnap = req.snap
          /\ hs.commit <= hs'.commit
      BY <1>0, <2>1, <3>1 DEF BatchOK
    <3>3. LastCacheOK'
      BY <1>0, <2>1, <3>1 DEF LastCacheOK
    <3>4. SnapshotCacheOK'
      <4>1. hs' \in HardState /\ snap' \in Snapshot /\ log' \in Log
        BY <3>1, RequestType, FlushedType DEF NextHard, NextSnapshot, TypeOK
      <4>2. snap'.index <= hs'.commit
        BY <3>2, <4>1, StoredEnds
      <4>3. hs.commit \in Nat /\ hs'.commit \in Nat /\ cSnap.index \in Nat /\ snap'.index \in Nat
        BY <4>1, BoundsAssumption DEF TypeOK, HardState, Snapshot, Index
      <4>4. CASE req.snap = EmptySnapshot
        <5>1. snap' = snap
          BY <3>1, <4>4 DEF NextSnapshot
        <5> QED
          BY <1>0, <2>1, <3>1, <3>2, <4>3, <4>4, <5>1 DEF SnapshotCacheOK
      <4>5. CASE req.snap # EmptySnapshot
        <5>1. snap' = cSnap /\ cSnap # EmptySnapshot
          BY <3>1, <3>2, <4>5 DEF NextSnapshot
        <5> QED
          BY <1>0, <2>1, <3>1, <4>2, <4>3, <5>1 DEF SnapshotCacheOK
      <4> QED
        BY <4>4, <4>5
    <3>5. ReadyOK' /\ BatchOK' /\ UnusedOK'
      BY <1>0, <2>1, <3>1 DEF ReadyOK, BatchOK, UnusedOK
    <3> QED
      BY <1>0, <1>a, <2>1, <3>1, <3>2, <3>3, <3>4, <3>5
  <2>2. CASE ~member
    BY <1>0, <1>a, <1>6, <2>2 DEF SaveFlush
  <2> QED
    BY <2>1, <2>2
<1>7. ASSUME NEW i \in Index, CreateSnapshot(i) PROVE WALInvariant'
  <2> DEFINE s == [index |-> i, term |-> log[i].term]
  <2>1. /\ req'.snap = s /\ cSnap' = s
        /\ batch' = DeleteUntil(PutEntry(EmptyBatch, i, Dummy(s.term)), i)
        /\ cLast' = IF cLast # 0 /\ cLast < i THEN i ELSE cLast
        /\ wpc = "idle" /\ wpc' = "snapping" /\ mode = "up"
        /\ SnapshotRead.index < i /\ i <= hs.commit
        /\ UNCHANGED <<log, hs, snap, mode, member>>
    BY <1>7 DEF CreateSnapshot, db, NoReady
  <2>2. ASSUME member PROVE Grouped'
    <3>1. snap.index \in Nat /\ cSnap.index \in Nat /\ i \in Nat /\ hs.commit \in Nat
      BY BoundsAssumption DEF TypeOK, Snapshot, HardState, Index
    <3>2. snap.index < i
      BY <1>0, <2>1, <2>2, <3>1 DEF SnapshotRead, SnapshotCacheOK
    <3>3. s # EmptySnapshot /\ s.index = i
      BY <3>1, <3>2 DEF EmptySnapshot
    <3>4. SnapshotCacheOK'
      BY <2>1, <3>1, <3>2, <3>3 DEF SnapshotCacheOK
    <3>5. LastCacheOK'
      <4>1. i <= MaxKey(log) /\ MaxKey(log) \in Nat
        BY <1>0, <2>1, <2>2, <3>1, StoredEnds, BoundsAssumption DEF TypeOK, Index
      <4> QED
        BY <1>0, <2>1, <2>2, <3>1, <4>1 DEF LastCacheOK
    <3>6. Flushed(batch)' = CompactedLog(i)
      BY <2>1 DEF Flushed, CompactedLog
    <3>7. BatchOK'
      BY <1>7, <2>1, <2>2, <3>3, <3>6, CompactedStored DEF BatchOK
    <3> QED
      BY <1>0, <2>1, <2>2, <3>4, <3>5, <3>7 DEF ReadyOK, UnusedOK
  <2> QED
    BY <1>0, <1>a, <2>1, <2>2
<1>8. CASE SnapshotFlush
  <2>1. ASSUME member PROVE Grouped'
    <3>1. /\ log' = Flushed(batch) /\ snap' = req.snap
          /\ wpc = "snapping" /\ wpc' = "idle"
          /\ UNCHANGED <<hs, cSnap, cFirst, cLast, mode, member>>
      BY <1>8 DEF SnapshotFlush, cache
    <3>2. /\ Stored(log', hs', snap') /\ MaxKey(log') = MaxKey(log)
          /\ cSnap = snap' /\ cSnap # EmptySnapshot
      BY <1>0, <2>1, <3>1 DEF BatchOK
    <3>3. SnapshotCacheOK'
      BY <1>0, <2>1, <3>1, <3>2, BoundsAssumption
         DEF SnapshotCacheOK, TypeOK, Snapshot, Index
    <3> QED
      BY <1>0, <2>1, <3>1, <3>2, <3>3 DEF LastCacheOK, ReadyOK, BatchOK, UnusedOK
  <2> QED
    BY <1>0, <1>a, <1>8, <2>1 DEF SnapshotFlush
<1>9. CASE SnapshotFlushFails
  <2>1. member => Grouped'
    BY <1>0, <1>9 DEF SnapshotFlushFails, db, cache, SnapshotCacheOK, LastCacheOK,
                      ReadyOK, BatchOK, UnusedOK
  <2> QED
    BY <1>0, <1>a, <1>9, <2>1 DEF SnapshotFlushFails
\* A reader changes at most the cached first index, to the index after the snapshot.
<1>10. ASSUME rd.pc = "idle", mode = "up", cFirst' = FirstIndexCached,
              UNCHANGED <<db, cSnap, cLast, writer, mode, member>>
       PROVE  WALInvariant'
  <2>1. member => Grouped'
    <3>1. member /\ cSnap = EmptySnapshot => cFirst' = snap.index + 1
      BY <1>10, FirstIndexFollowsSnapshot
    <3>2. Flushed(batch)' = Flushed(batch) /\ NextHard' = NextHard
          /\ NextSnapshot' = NextSnapshot
      BY <1>10 DEF Flushed, NextHard, NextSnapshot, db, writer
    <3> QED
      BY <1>0, <1>10, <3>1, <3>2 DEF db, writer, SnapshotCacheOK, LastCacheOK, ReadyOK,
                                     BatchOK, UnusedOK
  <2> QED
    BY <1>0, <1>a, <1>10, <2>1
<1>11. ASSUME NEW lo \in Index, NEW hi \in 1..MaxIndex + 1, StartEntries(lo, hi)
       PROVE WALInvariant'
  BY <1>10, <1>11 DEF StartEntries, MayRead
<1>12. ASSUME NEW i \in Index, StartTerm(i) PROVE WALInvariant'
  BY <1>10, <1>12 DEF StartTerm, MayRead
<1>13. ASSUME UNCHANGED <<db, cache, writer, mode, member>> PROVE WALInvariant'
  BY <1>0, <1>13 DEF db, cache, writer, WALInvariant, SnapshotCacheOK, LastCacheOK, ReadyOK,
                     BatchOK, UnusedOK, Flushed, NextHard, NextSnapshot
<1>14. CASE FinishRead
  BY <1>13, <1>14 DEF FinishRead
<1>15. CASE DeleteGroup
  BY <1>a, <1>15 DEF DeleteGroup
<1>16. CASE UNCHANGED vars
  BY <1>13, <1>16 DEF vars, db, cache, writer
<1> QED
  BY <1>1, <1>2, <1>3, <1>4, <1>5, <1>6, <1>7, <1>8, <1>9, <1>11, <1>12, <1>14,
     <1>15, <1>16 DEF Next

\* WALInvariant holds of every behavior, as long as no snapshot is restored over a
\* log that reaches its index.
THEOREM InvariantCorrect ==
    ASSUME ~RestoresOverLog
    PROVE  Spec => [](TypeOK /\ WALInvariant)
<1>1. Init => TypeOK /\ WALInvariant
  BY TypeInit, InvariantInit
<1>2. (TypeOK /\ WALInvariant) /\ [Next]_vars => (TypeOK /\ WALInvariant)'
  BY TypeStep, InvariantStep
<1> QED
  BY <1>1, <1>2, PTL DEF Spec

\* Wherever a crash interrupts Save or CreateSnapshot, the raft node can be started
\* on what is stored: NewBadgerWAL finds a first index, and the commit index that
\* loadState checks is within the log.
THEOREM AlwaysLoads ==
    ASSUME ~RestoresOverLog
    PROVE  Spec => []LoadsCleanly
<1>1. TypeOK /\ WALInvariant => LoadsCleanly
  BY DEF WALInvariant, LoadsCleanly
<1> QED
  BY <1>1, InvariantCorrect, PTL

\* Save never ends the process of a node that belongs to the group: log.Fatal in
\* RaftGroup.run is reached only when DeleteGroup emptied the log below it.
THEOREM FatalOnlyAfterDelete ==
    ASSUME ~RestoresOverLog
    PROVE  Spec => []FatalOnlyWhenDeleted
<1>1. TypeOK /\ WALInvariant => FatalOnlyWhenDeleted
  BY DEF WALInvariant, FatalOnlyWhenDeleted
<1> QED
  BY <1>1, InvariantCorrect, PTL

\* FirstIndex and Snapshot agree at every moment, cached or not, between the update
\* of the cache and the flush too: what is compacted is covered by a snapshot.
THEOREM CompactedIsCovered ==
    ASSUME ~RestoresOverLog
    PROVE  Spec => []CompactedHasSnapshot
<1>1. TypeOK /\ WALInvariant => CompactedHasSnapshot
  BY FirstIndexFollowsSnapshot DEF WALInvariant, CompactedHasSnapshot
<1> QED
  BY <1>1, InvariantCorrect, PTL

\* LastIndex, served from a cache that Save updates before its flush, is the index of
\* the last stored entry whenever no Save is under way.
THEOREM LastIndexIsExact ==
    ASSUME ~RestoresOverLog
    PROVE  Spec => []LastIndexExact
<1>1. TypeOK /\ WALInvariant => LastIndexExact
  <2> SUFFICES ASSUME TypeOK, WALInvariant, mode = "up", wpc \in {"idle", "snapping"}
               PROVE  LastIndex \in Keys(log) /\ \A i \in Keys(log) : i <= LastIndex
    BY DEF LastIndexExact
  <2>1. Keys(log) # {} /\ MaxKey(log) \in Index
    BY StoredEnds DEF WALInvariant, TypeOK
  <2>2. Spans(log, snap.index, MaxKey(log)) /\ snap.index <= MaxKey(log)
    BY StoredEnds DEF WALInvariant, TypeOK
  <2>3. LastIndex = MaxKey(log)
    BY <2>1 DEF WALInvariant, LastCacheOK, LastIndex
  <2>4. MaxKey(log) \in Keys(log)
    BY <2>1, <2>2, BoundsAssumption DEF Spans, Keys, Index, TypeOK, Snapshot
  <2>5. \A i \in Keys(log) : i <= MaxKey(log)
    BY <2>2 DEF Spans, Keys
  <2> QED
    BY <2>3, <2>4, <2>5
<1> QED
  BY <1>1, InvariantCorrect, PTL

-----------------------------------------------------------------------------
(* What the writer and the reader are in the middle of.  WALInvariant says *)
(* that a flush leaves a well-formed store; to say which one, and what the *)
(* reader gets, it is strengthened.                                        *)

CompactedAt(i) == [j \in Index |-> IF j < i THEN NoEntry
                                   ELSE IF j = i THEN Dummy(log[i].term) ELSE log[j]]

\* The batch holds the Ready, whole; or the compaction of the log at a stored,
\* committed index above the snapshot.
WriterExact ==
    /\ wpc \notin {"ready", "saving"} => req.hi < req.lo
    /\ wpc \in {"ready", "saving"} =>
          /\ req # NoReady /\ LegalReady(log, hs, req)
          /\ req.snap = EmptySnapshot \/ MaxKey(log) < req.snap.index
    /\ wpc = "saving" => Flushed(batch) = Storage!Persisted(log, req)
    /\ wpc = "snapping" =>
          /\ snap.index < req.snap.index /\ req.snap.index <= hs.commit
          /\ log[req.snap.index] # NoEntry
          /\ req.snap = [index |-> req.snap.index, term |-> log[req.snap.index].term]
          /\ Flushed(batch) = CompactedAt(req.snap.index)

\* The indexes that the call under way is about.
Asked == IF rd.pc = "term" THEN {rd.lo} ELSE {i \in Index : rd.lo <= i /\ i < rd.hi}

\* Of what a reader was asked, only a compaction takes something away; a Ready that
\* is being saved appends behind it.
ReaderExact ==
    rd.pc # "idle" =>
        /\ mode = "up"
        /\ wpc \in {"ready", "saving"} =>
              /\ req.snap = EmptySnapshot
              /\ req.lo <= req.hi => \A i \in Asked : i < req.lo
        /\ \A i \in Asked :
              /\ snap.index < i => log[i] = rd.want[i]
              /\ snap.index = i => log[i].term = rd.want[i].term
              /\ snap.index <= i => log[i] # NoEntry

Exact == (member => WriterExact) /\ ReaderExact

IInv == TypeOK /\ WALInvariant /\ Exact

\* The abstract specification's data are the WAL's.
LEMMA StorageData ==
    /\ Storage!Index = Index /\ Storage!EmptySnapshot = EmptySnapshot
    /\ Storage!EmptyHardState = EmptyHardState /\ Storage!NewLog = NewLog
    /\ Storage!EmptyLog = EmptyLog /\ Storage!NoReady = NoReady
    /\ \A t : Storage!Dummy(t) = Dummy(t)
<1>1. /\ Storage!Index = Index /\ Storage!EmptySnapshot = EmptySnapshot
      /\ Storage!EmptyHardState = EmptyHardState
      /\ \A t : Storage!Dummy(t) = Dummy(t)
  BY DEF Storage!Index, Storage!EmptySnapshot, Storage!EmptyHardState, Storage!Dummy,
         Index, EmptySnapshot, EmptyHardState, Dummy
<1>2. Storage!EmptyLog = EmptyLog /\ Storage!NewLog = NewLog
  BY <1>1 DEF Storage!EmptyLog, Storage!NewLog, EmptyLog, NewLog
<1>3. Storage!NoReady = NoReady
  BY <1>1, <1>2 DEF Storage!NoReady, NoReady
<1> QED
  BY <1>1, <1>2, <1>3

LEMMA PersistedIs ==
    Storage!Persisted(log, req) = [i \in Index |->
        CASE req.snap # EmptySnapshot /\ i < req.snap.index -> NoEntry
          [] req.snap # EmptySnapshot /\ i = req.snap.index -> Dummy(req.snap.term)
          [] req.lo <= req.hi /\ req.lo <= i -> req.ents[i]
          [] req.snap # EmptySnapshot /\ i > req.snap.index /\ req.lo > req.hi -> NoEntry
          [] OTHER -> log[i]]
  BY StorageData DEF Storage!Persisted

\* What Save's batch leaves is the Ready, whole.
LEMMA SavedIsPersisted ==
    ASSUME TypeOK, WALInvariant, member, wpc = "ready"
    PROVE  SavedLog = Storage!Persisted(log, req)
<1> DEFINE P == Storage!Persisted(log, req)
<1>1. SavedLog \in Log
  BY FlushedType, SaveBatchType DEF SavedLog, TypeOK
<1>2. /\ req.lo \in Nat /\ req.hi \in Nat /\ req.snap.index \in Nat
      /\ \A i \in Index : i \in Nat
      /\ req.lo <= req.hi /\ req.snap # EmptySnapshot => req.lo = req.snap.index + 1
      /\ Spans(req.ents, req.lo, req.hi)
  BY ReadyFacts DEF Index
<1>3. P = [i \in Index |->
        CASE req.snap # EmptySnapshot /\ i < req.snap.index -> NoEntry
          [] req.snap # EmptySnapshot /\ i = req.snap.index -> Dummy(req.snap.term)
          [] req.lo <= req.hi /\ req.lo <= i -> req.ents[i]
          [] req.snap # EmptySnapshot /\ i > req.snap.index /\ req.lo > req.hi -> NoEntry
          [] OTHER -> log[i]]
  BY PersistedIs
<1>4. ASSUME NEW i \in Index PROVE SavedLog[i] = P[i]
  <2> HIDE DEF P
  <2>1. i \in Nat /\ (req.ents[i] # NoEntry <=> req.lo <= i /\ i <= req.hi)
    BY <1>2 DEF Spans
  <2>2. CASE req.snap = EmptySnapshot
    <3>1. P[i] = IF req.lo <= req.hi /\ req.lo <= i THEN req.ents[i] ELSE log[i]
      BY <1>2, <1>3, <2>1, <2>2
    <3>2. SavedLog[i] = IF req.lo <= i /\ i <= req.hi THEN req.ents[i]
                        ELSE IF req.lo <= req.hi /\ req.hi < i THEN NoEntry ELSE log[i]
      BY <2>2, SavedLogEntries
    <3> QED
      BY <1>2, <2>1, <3>1, <3>2
  <2>3. CASE req.snap # EmptySnapshot
    <3>1. P[i] = IF i < req.snap.index THEN NoEntry
                 ELSE IF i = req.snap.index THEN Dummy(req.snap.term)
                 ELSE IF req.lo <= req.hi THEN req.ents[i] ELSE NoEntry
      <4>1. CASE i < req.snap.index
        BY <1>2, <1>3, <2>1, <2>3, <4>1
      <4>2. CASE i = req.snap.index
        BY <1>2, <1>3, <2>1, <2>3, <4>2
      <4>3. CASE i > req.snap.index /\ req.lo <= req.hi
        <5>1. req.lo <= i
          BY <1>2, <2>1, <2>3, <4>3
        <5> QED
          BY <1>2, <1>3, <2>1, <2>3, <4>3, <5>1
      <4>4. CASE i > req.snap.index /\ ~(req.lo <= req.hi)
        BY <1>2, <1>3, <2>1, <2>3, <4>4
      <4> QED
        BY <1>2, <2>1, <4>1, <4>2, <4>3, <4>4
    <3>2. SavedLog[i] = IF i = req.snap.index THEN Dummy(req.snap.term)
                        ELSE IF req.lo <= i /\ i <= req.hi THEN req.ents[i] ELSE NoEntry
      BY <2>3, SavedLogEntries
    <3> QED
      BY <1>2, <2>1, <2>3, <3>1, <3>2
  <2> QED
    BY <2>2, <2>3
<1> QED
  BY <1>1, <1>3, <1>4 DEF Log

\* The flush of a compaction leaves the log from its index on.
LEMMA CompactedIsAt ==
    ASSUME TypeOK, NEW i \in Index, log[i] # NoEntry
    PROVE  CompactedLog(i) = CompactedAt(i)
<1> DEFINE b == DeleteUntil(PutEntry(EmptyBatch, i, Dummy(log[i].term)), i)
<1>1. Dummy(log[i].term) # Keep
  BY ValuesAssumption DEF TypeOK, Log, Dummy, Entry
<1>2. ASSUME NEW j \in Index PROVE CompactedLog(i)[j] = CompactedAt(i)[j]
  <2>1. b[j] = IF log[j] # NoEntry /\ j < i THEN NoEntry
               ELSE IF j = i THEN Dummy(log[i].term) ELSE Keep
    BY DEF DeleteUntil, PutEntry, EmptyBatch
  <2>2. j \in Nat /\ i \in Nat
    BY BoundsAssumption DEF Index
  <2> QED
    BY <1>1, <2>1, <2>2, ValuesAssumption DEF CompactedLog, CompactedAt, Flushed
<1> QED
  BY <1>2 DEF CompactedLog, CompactedAt, Flushed

LEMMA ExactInit == Init => Exact
  BY DEF Init, Exact, WriterExact, ReaderExact, NotReading, NoReady

\* A step that leaves the database and the writer alone keeps what the writer is doing.
LEMMA WriterExactKept ==
    ASSUME member => WriterExact, UNCHANGED <<log, hs, snap, wpc, req, batch>>, member' = member
    PROVE  (member => WriterExact)'
  BY DEF WriterExact, Flushed, CompactedAt, Storage!Persisted

\* A call of the reader starts on the stored log, above the snapshot and below what
\* the writer is appending.
LEMMA ReaderStarts ==
    ASSUME IInv, MayRead, UNCHANGED <<db, writer, mode, member>>,
           rd'.want = log, rd'.pc # "idle",
           Asked' \subseteq Index,
           \A i \in Asked' : SnapshotRead.index <= i /\ i <= StableLast
    PROVE  ReaderExact'
<1> USE DEF MayRead, db, writer
<1>1. mode = "up" /\ member
  BY DEF IInv, WALInvariant
<1>2. /\ Spans(log, snap.index, MaxKey(log)) /\ MaxKey(log) \in Index
      /\ snap.index \in Index
  BY <1>1, StoredEnds DEF IInv, WALInvariant, TypeOK, Snapshot
<1>3. snap.index <= SnapshotRead.index /\ SnapshotRead.index \in Nat
  BY <1>1, BoundsAssumption
     DEF IInv, TypeOK, WALInvariant, SnapshotCacheOK, SnapshotRead, Snapshot, Index
<1>4. /\ wpc \in {"ready", "saving"} => LegalReady(log, hs, req) /\ req.snap = EmptySnapshot
      /\ wpc \notin {"ready", "saving"} => req.hi < req.lo
  BY <1>1 DEF IInv, Exact, WriterExact
<1>5. req.lo \in Nat /\ req.hi \in Nat /\ MaxKey(log) \in Nat
  BY <1>2, BoundsAssumption DEF IInv, TypeOK, Ready, NoReady, Index
<1>6. req.lo <= req.hi => req.lo <= MaxKey(log) + 1
  BY <1>4, <1>5 DEF LegalReady
<1>7. \A i \in Asked' : /\ i \in Nat /\ snap.index <= i /\ i <= MaxKey(log)
                        /\ req.lo <= req.hi => i < req.lo
  <2> SUFFICES ASSUME NEW i \in Asked'
               PROVE  /\ i \in Nat /\ snap.index <= i /\ i <= MaxKey(log)
                      /\ req.lo <= req.hi => i < req.lo
    OBVIOUS
  <2>1. i \in Nat /\ snap.index \in Nat /\ snap.index <= i /\ i <= StableLast
    BY <1>2, <1>3, BoundsAssumption DEF Index
  <2> QED
    BY <1>5, <1>6, <2>1 DEF StableLast
<1>8. \A i \in Asked' : log[i] # NoEntry
  BY <1>2, <1>7 DEF Spans
<1> QED
  BY <1>1, <1>4, <1>7, <1>8 DEF ReaderExact

\* A step that leaves the log, the stored snapshot and the call alone keeps what is
\* promised to the reader, as long as the writer does not restore a snapshot or
\* append at an index asked for.
LEMMA ReaderExactKept ==
    ASSUME ReaderExact, UNCHANGED <<log, snap, rd>>,
           rd.pc # "idle" => mode' = "up",
           rd.pc # "idle" /\ wpc' \in {"ready", "saving"} =>
              wpc \in {"ready", "saving"} /\ req' = req
    PROVE  ReaderExact'
<1>1. Asked' = Asked
  BY DEF Asked
<1> QED
  BY <1>1 DEF ReaderExact

\* Every step keeps what the writer and the reader are in the middle of.
LEMMA ExactStep ==
    ASSUME ~RestoresOverLog, IInv, [Next]_vars
    PROVE  Exact'
<1>0. /\ TypeOK /\ WALInvariant /\ (member => WriterExact) /\ ReaderExact
      /\ mode = "up" => member
  BY DEF IInv, Exact, WALInvariant
<1>1. CASE Open
  <2>1. member => log' = log
    BY <1>0, <1>1, FirstIndexFollowsSnapshot DEF Open
  <2>2. rd.pc = "idle"
    BY <1>0, <1>1 DEF Open, ReaderExact
  <2>3. member => WriterExact'
    BY <1>0, <1>1, <2>1, WriterExactKept DEF Open, writer
  <2> QED
    BY <1>1, <2>2, <2>3 DEF Open, Exact, ReaderExact
<1>2. CASE Load
  <2>1. rd.pc = "idle" /\ rd' = rd
    BY <1>0, <1>2 DEF Load, ReaderExact
  <2>2. (member => WriterExact)'
    BY <1>0, <1>2, WriterExactKept DEF Load, writer, db
  <2> QED
    BY <2>1, <2>2 DEF Exact, ReaderExact
<1>3. CASE Crash
  BY <1>3 DEF Crash, Exact, WriterExact, ReaderExact, NotReading, NoReady
<1>4. CASE ReceiveReady
  <2>1. mode = "up" /\ wpc = "idle" /\ rd.pc = "idle" /\ \E r : Receive(r)
    BY <1>4, Zenon DEF ReceiveReady
  <2>2. PICK r : Receive(r)
    BY <2>1
  <2>3. WriterExact'
    BY <2>2 DEF Receive, WriterExact, db
  <2> QED
    BY <2>1, <2>2, <2>3 DEF Receive, Exact, ReaderExact
<1>5. CASE SaveBatch
  <2>1. ASSUME member PROVE Exact'
    <3>1. ~(req.lo <= req.hi /\ FirstIndex = NotFound)
      BY <1>0, <2>1, FirstIndexFollowsSnapshot
    <3>2. /\ batch' = WriteSnapshot(WriteEntries(EmptyBatch))
          /\ wpc = "ready" /\ wpc' = "saving"
          /\ UNCHANGED <<req, mode, log, hs, snap, member, rd>>
      BY <1>5, <3>1 DEF SaveBatch, SaveFails, db
    <3>3. Flushed(batch)' = SavedLog
      BY <3>2 DEF SavedLog, Flushed
    <3>4. Flushed(batch)' = Storage!Persisted(log, req)
      BY <1>0, <2>1, <3>2, <3>3, SavedIsPersisted
    <3>5. WriterExact'
      BY <1>0, <2>1, <3>2, <3>4 DEF WriterExact, Storage!Persisted
    <3>6. ReaderExact'
      BY <1>0, <3>2, ReaderExactKept DEF ReaderExact
    <3> QED
      BY <3>5, <3>6 DEF Exact
  <2>2. CASE ~member
    <3>1. rd.pc = "idle" /\ rd' = rd /\ member' = member
      BY <1>0, <1>5, <2>2 DEF SaveBatch, ReaderExact
    <3> QED
      BY <2>2, <3>1 DEF Exact, ReaderExact
  <2> QED
    BY <2>1, <2>2
<1>6. CASE SaveFlush
  <2>1. member => WriterExact'
    BY <1>6 DEF SaveFlush, WriterExact, NoReady
  <2>2. ASSUME rd.pc # "idle" PROVE ReaderExact'
    <3>1. /\ log' = Flushed(batch) /\ snap' = NextSnapshot /\ hs' = NextHard
          /\ wpc = "saving" /\ wpc' = "idle" /\ UNCHANGED <<rd, mode>>
      BY <1>6 DEF SaveFlush, NextSnapshot, NextHard
    <3>2. mode = "up" /\ member /\ req.snap = EmptySnapshot /\ snap' = snap
      BY <1>0, <2>2, <3>1 DEF ReaderExact, NextSnapshot
    <3>3. log' = Storage!Persisted(log, req)
      BY <1>0, <3>1, <3>2 DEF WriterExact
    <3>4. \A i \in Index : (req.lo <= req.hi => i < req.lo) => log'[i] = log[i]
      <4> SUFFICES ASSUME NEW i \in Index, req.lo <= req.hi => i < req.lo
                   PROVE  log'[i] = log[i]
        OBVIOUS
      <4>1. i \in Nat /\ req.lo \in Nat
        BY <1>0, BoundsAssumption DEF TypeOK, Ready, NoReady, Index
      <4> QED
        BY <3>2, <3>3, <4>1, PersistedIs
    <3>5. \A i \in Asked : i \in Index
      BY <1>0, <2>2 DEF Asked, TypeOK, Reading, NotReading
    <3>6. Asked' = Asked
      BY <3>1 DEF Asked
    <3> QED
      BY <1>0, <2>2, <3>1, <3>2, <3>4, <3>5, <3>6 DEF ReaderExact
  <2> QED
    BY <1>6, <2>1, <2>2 DEF SaveFlush, Exact, ReaderExact
<1>7. ASSUME NEW i \in Index, CreateSnapshot(i) PROVE Exact'
  <2> DEFINE s == [index |-> i, term |-> log[i].term]
  <2>1. /\ req'.snap = s /\ req'.hi = 0 /\ req'.lo = 1
        /\ batch' = DeleteUntil(PutEntry(EmptyBatch, i, Dummy(s.term)), i)
        /\ wpc = "idle" /\ wpc' = "snapping" /\ mode = "up"
        /\ SnapshotRead.index < i /\ i <= hs.commit /\ log[i] # NoEntry
        /\ UNCHANGED <<log, hs, snap, mode, member, rd>>
    BY <1>7 DEF CreateSnapshot, db, NoReady
  <2>2. snap.index < i
    BY <1>0, <2>1, BoundsAssumption
       DEF TypeOK, Snapshot, Index, WALInvariant, SnapshotCacheOK, SnapshotRead
  <2>3. Flushed(batch)' = CompactedLog(i)
    BY <2>1 DEF Flushed, CompactedLog
  <2>4. CompactedLog(i) = CompactedAt(i)
    BY <1>0, <2>1, CompactedIsAt
  <2>5. WriterExact'
    BY <2>1, <2>2, <2>3, <2>4 DEF WriterExact, CompactedAt
  <2>6. ReaderExact'
    BY <1>0, <2>1, ReaderExactKept DEF ReaderExact
  <2> QED
    BY <2>5, <2>6 DEF Exact
<1>8. CASE SnapshotFlush
  <2>1. member => WriterExact'
    BY <1>8 DEF SnapshotFlush, WriterExact, NoReady
  <2>2. ASSUME rd.pc # "idle" PROVE ReaderExact'
    <3> DEFINE j == req.snap.index
    <3>1. /\ log' = Flushed(batch) /\ snap' = req.snap
          /\ wpc = "snapping" /\ wpc' = "idle" /\ UNCHANGED <<rd, mode>>
      BY <1>8 DEF SnapshotFlush
    <3>2. mode = "up" /\ member
      BY <1>0, <2>2 DEF ReaderExact
    <3>3. snap.index < j /\ log' = CompactedAt(j) /\ log[j] # NoEntry
      BY <1>0, <3>1, <3>2 DEF WriterExact
    <3>4. j \in Index /\ j \in Nat /\ snap.index \in Nat /\ \A i \in Index : i \in Nat
      BY <1>0, RequestType, BoundsAssumption DEF TypeOK, Snapshot, Index
    <3>5. \A i \in Index : log'[i] = IF i < j THEN NoEntry
                                     ELSE IF i = j THEN Dummy(log[j].term) ELSE log[i]
      BY <3>3 DEF CompactedAt
    <3>6. Dummy(log[j].term) # NoEntry
      BY <1>0, <3>3, <3>4, ValuesAssumption DEF TypeOK, Log, Dummy, Entry
    <3>7. \A i \in Asked : i \in Index
      BY <1>0, <2>2 DEF Asked, TypeOK, Reading, NotReading
    <3>8. Asked' = Asked
      BY <3>1 DEF Asked
    <3>9. \A i \in Asked : /\ j < i => log'[i] = rd.want[i]
                           /\ j = i => log'[i].term = rd.want[i].term
                           /\ j <= i => log'[i] # NoEntry
      <4> SUFFICES ASSUME NEW i \in Asked, j <= i
                   PROVE  /\ j < i => log'[i] = rd.want[i]
                          /\ j = i => log'[i].term = rd.want[i].term
                          /\ log'[i] # NoEntry
        BY <3>4, <3>7
      <4>1. i \in Index /\ i \in Nat /\ snap.index < i
        BY <3>3, <3>4, <3>7
      <4>2. log[i] = rd.want[i] /\ log[i] # NoEntry
        BY <1>0, <2>2, <3>4, <4>1 DEF ReaderExact
      <4>3. CASE j = i
        BY <3>5, <3>6, <4>1, <4>2, <4>3 DEF Dummy
      <4>4. CASE j < i
        BY <3>4, <3>5, <4>1, <4>2, <4>4
      <4> QED
        BY <3>4, <4>1, <4>3, <4>4
    <3> HIDE DEF j
    <3>10. snap'.index = j
      BY <3>1 DEF j
    <3> QED
      BY <3>1, <3>2, <3>8, <3>9, <3>10 DEF ReaderExact
  <2> QED
    BY <1>8, <2>1, <2>2 DEF SnapshotFlush, Exact, ReaderExact
<1>9. CASE SnapshotFlushFails
  <2>1. member => WriterExact'
    BY <1>9 DEF SnapshotFlushFails, WriterExact, NoReady
  <2>2. ReaderExact'
    BY <1>0, <1>9, ReaderExactKept DEF SnapshotFlushFails, db, ReaderExact
  <2> QED
    BY <1>9, <2>1, <2>2 DEF SnapshotFlushFails, Exact
<1>10. ASSUME NEW lo \in Index, NEW hi \in 1..MaxIndex + 1, StartEntries(lo, hi)
       PROVE Exact'
  <2>1. /\ MayRead /\ hi <= StableLast + 1 /\ FirstIndex <= lo
        /\ rd' = [pc |-> "entries", lo |-> lo, hi |-> hi, want |-> log]
        /\ UNCHANGED <<db, writer, mode, member>>
    BY <1>10 DEF StartEntries
  <2>2. FirstIndex = SnapshotRead.index + 1 /\ SnapshotRead.index \in Nat
    BY <1>0, <2>1, FirstIndexFollowsSnapshot, BoundsAssumption
       DEF MayRead, TypeOK, Snapshot, Index, SnapshotRead
  <2>3. StableLast \in Int /\ lo \in Nat /\ hi \in Nat /\ \A i \in Index : i \in Nat
    <3>1. MaxKey(log) \in Nat
      BY <1>0, <2>1, StoredEnds, BoundsAssumption DEF WALInvariant, TypeOK, Index, MayRead
    <3> QED
      BY <1>0, <3>1, BoundsAssumption DEF StableLast, TypeOK, Ready, NoReady, Index
  <2>4. Asked' = {i \in Index : lo <= i /\ i < hi}
    BY <2>1 DEF Asked
  <2>5. \A i \in Asked' : SnapshotRead.index <= i /\ i <= StableLast
    BY <2>1, <2>2, <2>3, <2>4
  <2>6. ReaderExact'
    BY <2>1, <2>4, <2>5, ReaderStarts
  <2>7. (member => WriterExact)'
    BY <1>0, <2>1, WriterExactKept DEF db, writer
  <2> QED
    BY <2>6, <2>7 DEF Exact
<1>11. ASSUME NEW i \in Index, StartTerm(i) PROVE Exact'
  <2>1. /\ MayRead /\ i <= StableLast /\ FirstIndex - 1 <= i
        /\ rd' = [pc |-> "term", lo |-> i, hi |-> 0, want |-> log]
        /\ UNCHANGED <<db, writer, mode, member>>
    BY <1>11 DEF StartTerm
  <2>2. FirstIndex = SnapshotRead.index + 1 /\ SnapshotRead.index \in Nat
    BY <1>0, <2>1, FirstIndexFollowsSnapshot, BoundsAssumption
       DEF MayRead, TypeOK, Snapshot, Index, SnapshotRead
  <2>3. Asked' = {i}
    BY <2>1 DEF Asked
  <2>4. \A k \in Asked' : SnapshotRead.index <= k /\ k <= StableLast
    BY <2>1, <2>2, <2>3
  <2>5. ReaderExact'
    BY <2>1, <2>3, <2>4, ReaderStarts
  <2>6. (member => WriterExact)'
    BY <1>0, <2>1, WriterExactKept DEF db, writer
  <2> QED
    BY <2>5, <2>6 DEF Exact
<1>12. CASE FinishRead
  <2>1. (member => WriterExact)'
    BY <1>0, <1>12, WriterExactKept DEF FinishRead, db, writer
  <2> QED
    BY <1>12, <2>1 DEF FinishRead, Exact, ReaderExact, NotReading
<1>13. CASE DeleteGroup
  BY <1>13 DEF DeleteGroup, Exact, ReaderExact
<1>14. CASE UNCHANGED vars
  <2>1. (member => WriterExact)'
    BY <1>0, <1>14, WriterExactKept DEF vars
  <2>2. ReaderExact'
    BY <1>0, <1>14, ReaderExactKept DEF vars, ReaderExact
  <2> QED
    BY <2>1, <2>2 DEF Exact
<1> QED
  BY <1>1, <1>2, <1>3, <1>4, <1>5, <1>6, <1>7, <1>8, <1>9, <1>10, <1>11, <1>12,
     <1>13, <1>14 DEF Next

LEMMA ExactCorrect ==
    ASSUME ~RestoresOverLog
    PROVE  Spec => []IInv
<1>1. Init => IInv
  BY TypeInit, InvariantInit, ExactInit DEF IInv
<1>2. IInv /\ [Next]_vars => IInv'
  BY TypeStep, InvariantStep, ExactStep DEF IInv
<1> QED
  BY <1>1, <1>2, PTL DEF Spec

-----------------------------------------------------------------------------
(* What the reader gets. *)

\* Term(i), whatever is flushed in the middle of the call, returns the term of the
\* entry that was at i, or says that i is compacted, and then a later snapshot exists.
THEOREM TermIsExact ==
    ASSUME ~RestoresOverLog
    PROVE  Spec => []TermExact
<1>1. IInv => TermExact
  <2> SUFFICES ASSUME IInv, rd.pc = "term"
               PROVE  \/ SeekTerm(rd.lo) = [err |-> "none", term |-> rd.want[rd.lo].term]
                      \/ SeekTerm(rd.lo).err = "compacted" /\ rd.lo < SnapshotRead.index
    BY DEF TermExact
  <2> DEFINE i == rd.lo
             M == MaxKey(log)
  <2>1. mode = "up" /\ member /\ i \in Asked /\ i \in Index
    BY DEF IInv, Exact, ReaderExact, WALInvariant, Asked, TypeOK, Reading, NotReading
  <2>2. /\ snap.index < i => log[i] = rd.want[i]
        /\ snap.index = i => log[i].term = rd.want[i].term
        /\ snap.index <= i => log[i] # NoEntry
    BY <2>1 DEF IInv, Exact, ReaderExact
  <2>3. /\ Spans(log, snap.index, M) /\ M \in Index /\ snap.index <= M
        /\ snap.index \in Index
    BY <2>1, StoredEnds DEF IInv, WALInvariant, TypeOK, Snapshot
  <2>4. \A k \in Index : k \in Nat
    BY BoundsAssumption DEF Index
  <2>5. \A k : k \in Keys(log) <=> k \in Index /\ snap.index <= k /\ k <= M
    BY <2>3 DEF Spans, Keys
  <2>6. CASE snap.index <= i
    <3>1. i \in Keys(log)
      BY <2>1, <2>2, <2>6 DEF Keys
    <3>2. SeekKey(i) = i
      BY <2>4, <2>5, <3>1 DEF SeekKey
    <3>3. ~ \A k \in Keys(log) : k < i
      BY <2>4, <2>1, <3>1
    <3>4. SeekTerm(i) = [err |-> "none", term |-> log[i].term]
      BY <2>1, <2>4, <3>2, <3>3 DEF SeekTerm
    <3>5. log[i].term = rd.want[i].term
      BY <2>1, <2>2, <2>3, <2>4, <2>6
    <3> QED
      BY <3>4, <3>5
  <2>7. CASE i < snap.index
    <3>1. snap.index \in Keys(log)
      BY <2>3, <2>4, <2>5
    <3>2. SeekKey(i) \in Keys(log) /\ i <= SeekKey(i)
          /\ \A j \in Keys(log) : i <= j => SeekKey(i) <= j
      <4>1. i <= snap.index /\ \A j \in Keys(log) : i <= j => snap.index <= j
        BY <2>1, <2>3, <2>4, <2>5, <2>7
      <4> QED
        BY <3>1, <4>1 DEF SeekKey
    <3>3. i < SeekKey(i) /\ ~ \A k \in Keys(log) : k < i
      BY <2>1, <2>3, <2>4, <2>5, <2>7, <3>1, <3>2
    <3>4. SeekTerm(i).err = "compacted"
      BY <3>3 DEF SeekTerm
    <3>5. snap.index <= SnapshotRead.index /\ SnapshotRead.index \in Nat
      BY <2>1, BoundsAssumption
         DEF IInv, TypeOK, WALInvariant, SnapshotCacheOK, SnapshotRead, Snapshot, Index
    <3> QED
      BY <2>1, <2>3, <2>4, <2>7, <3>4, <3>5
  <2> QED
    BY <2>1, <2>3, <2>4, <2>6, <2>7
<1> QED
  BY <1>1, ExactCorrect, PTL

\* Entries(lo, hi) returns the entries as they were when it was called, unless the log
\* was compacted to lo or above since the call checked the first index.
THEOREM EntriesAreExact ==
    ASSUME ~RestoresOverLog
    PROVE  Spec => []EntriesExactUnlessCompacted
<1>1. IInv => EntriesExactUnlessCompacted
  <2> SUFFICES ASSUME IInv, rd.pc = "entries", ~(rd.lo <= snap.index)
               PROVE  ReturnsAsked
    BY DEF EntriesExactUnlessCompacted
  <2>1. rd.lo \in Index /\ rd.hi \in 0..MaxIndex + 1
    BY DEF IInv, TypeOK, Reading, NotReading
  <2>2. mode = "up" /\ member /\ Asked = {i \in Index : rd.lo <= i /\ i < rd.hi}
    BY DEF IInv, Exact, ReaderExact, WALInvariant, Asked
  <2>3. snap.index \in Nat /\ (\A i \in Index : i \in Nat) /\ rd.hi \in Nat
    BY <2>1, BoundsAssumption DEF IInv, TypeOK, Snapshot, Index
  <2>4. \A i \in rd.lo..rd.hi - 1 : i \in Asked
    BY <2>1, <2>2, <2>3, BoundsAssumption DEF Index
  <2>5. \A i \in Asked : snap.index < i
    BY <2>1, <2>2, <2>3
  <2>6. \A i \in Asked : log[i] = rd.want[i] /\ log[i] # NoEntry
    BY <2>2, <2>3, <2>5 DEF IInv, Exact, ReaderExact
  <2>7. ~(rd.hi - rd.lo = 1 /\ log[rd.lo] = NoEntry)
    BY <2>1, <2>2, <2>3, <2>6
  <2>8. GetEntries(rd.lo, rd.hi) =
          [err |-> "none",
           ents |-> [i \in Index |-> IF rd.lo <= i /\ i < rd.hi THEN log[i] ELSE NoEntry]]
    BY <2>7 DEF GetEntries
  <2>9. \A i \in rd.lo..rd.hi - 1 : GetEntries(rd.lo, rd.hi).ents[i] = rd.want[i]
    BY <2>2, <2>4, <2>6, <2>8
  <2> QED
    BY <2>8, <2>9 DEF ReturnsAsked
<1> QED
  BY <1>1, ExactCorrect, PTL

-----------------------------------------------------------------------------
(* What a step may never do. *)

\* A committed entry stays as it is until a stored snapshot covers it, whatever Save
\* and CreateSnapshot flush.
THEOREM CommittedKept ==
    ASSUME ~RestoresOverLog
    PROVE  Spec => CommittedEntriesKept
<1>1. ASSUME IInv, [Next]_vars, NEW i \in Index, member', log[i] # NoEntry, i <= hs.commit
      PROVE  log'[i] = log[i] \/ i <= snap'.index
  <2>0. /\ TypeOK /\ WALInvariant /\ (member => WriterExact)
        /\ i \in Nat /\ hs.commit \in Nat
    BY <1>1, BoundsAssumption DEF IInv, Exact, TypeOK, HardState, Index
  <2>1. CASE Open
    BY <1>1, <2>0, <2>1, FirstIndexFollowsSnapshot DEF Open
  <2>2. CASE SaveFlush
    <3>1. /\ member /\ log' = Storage!Persisted(log, req)
          /\ snap' = NextSnapshot
          /\ LegalReady(log, hs, req)
      BY <1>1, <2>0, <2>2 DEF SaveFlush, NextSnapshot, WriterExact
    <3>2. req.lo \in Nat /\ req.hi \in Nat
      BY <2>0, BoundsAssumption DEF TypeOK, Ready, NoReady, Index
    <3>3. CASE req.snap = EmptySnapshot
      <4>1. req.lo <= req.hi => i < req.lo
        BY <1>1, <2>0, <3>1, <3>2 DEF LegalReady
      <4> QED
        BY <1>1, <2>0, <3>1, <3>2, <3>3, <4>1, PersistedIs
    <3>4. CASE req.snap # EmptySnapshot
      <4>1. hs.commit < req.snap.index /\ req.snap.index \in Nat
        BY <2>0, <3>1, <3>4, RequestType, BoundsAssumption DEF LegalReady, Snapshot, Index
      <4> QED
        BY <1>1, <2>0, <3>1, <3>4, <4>1 DEF NextSnapshot
    <3> QED
      BY <3>3, <3>4
  <2>3. CASE SnapshotFlush
    <3>1. /\ log' = CompactedAt(req.snap.index) /\ snap' = req.snap
      BY <1>1, <2>0, <2>3 DEF SnapshotFlush, WriterExact
    <3>2. req.snap.index \in Nat
      BY <2>0, RequestType, BoundsAssumption DEF Snapshot, Index
    <3> QED
      BY <1>1, <2>0, <3>1, <3>2 DEF CompactedAt
  <2>4. CASE UNCHANGED log
    BY <2>4
  <2>5. CASE ReceiveReady
    <3>1. \E r : Receive(r)
      BY <2>5, Zenon DEF ReceiveReady
    <3> QED
      BY <2>4, <3>1 DEF Receive, db
  <2>6. \/ Open \/ SaveFlush \/ SnapshotFlush \/ ReceiveReady \/ UNCHANGED log
    BY <1>1 DEF Next, vars, Load, Crash, SaveBatch, CreateSnapshot,
                SnapshotFlushFails, StartEntries, StartTerm, FinishRead, DeleteGroup, db
  <2> QED
    BY <2>1, <2>2, <2>3, <2>4, <2>5, <2>6
<1>2. IInv /\ [Next]_vars =>
        [\A i \in Index : member' /\ log[i] # NoEntry /\ i <= hs.commit =>
            log'[i] = log[i] \/ i <= snap'.index]_vars
  BY <1>1
<1> QED
  BY <1>2, ExactCorrect, PTL DEF Spec, CommittedEntriesKept

LEMMA FirstIsAfterSnapshot ==
    TypeOK /\ WALInvariant /\ member => FirstIndex = SnapshotRead.index + 1
  BY FirstIndexFollowsSnapshot

\* While the raft node runs, FirstIndex never moves back, through the cached snapshot,
\* the cached index and the database alike.
THEOREM FirstIndexMonotone ==
    ASSUME ~RestoresOverLog
    PROVE  Spec => FirstIndexGrows
<1>1. ASSUME IInv, IInv', [Next]_vars, mode = "up", mode' = "up"
      PROVE  FirstIndex <= FirstIndex'
  <2>0. /\ TypeOK /\ WALInvariant /\ member /\ WriterExact
        /\ TypeOK' /\ WALInvariant' /\ member'
    BY <1>1 DEF IInv, Exact, WALInvariant
  <2>1. FirstIndex = SnapshotRead.index + 1 /\ FirstIndex' = SnapshotRead'.index + 1
    <3>1. (TypeOK /\ WALInvariant /\ member => FirstIndex = SnapshotRead.index + 1)'
      BY FirstIsAfterSnapshot, PTL
    <3> QED
      BY <2>0, <3>1, FirstIsAfterSnapshot
  <2>2. /\ snap.index \in Nat /\ cSnap.index \in Nat /\ hs.commit \in Nat
        /\ snap'.index \in Nat /\ cSnap'.index \in Nat /\ req.snap.index \in Nat
    BY <2>0, RequestType, BoundsAssumption DEF TypeOK, Snapshot, HardState, Index
  <2>3. snap.index <= hs.commit
    BY <2>0, StoredEnds DEF WALInvariant, TypeOK
  <2>4. CASE SaveBatch
    <3>1. /\ snap' = snap /\ wpc = "ready" /\ (cSnap' = cSnap \/ cSnap' = req.snap)
          /\ cSnap' = cSnap \/ req.snap # EmptySnapshot
      BY <2>4 DEF SaveBatch, db, cache
    <3>2. CASE cSnap' = cSnap
      BY <2>1, <2>2, <3>1, <3>2 DEF SnapshotRead
    <3>3. CASE cSnap' # cSnap
      <4>1. cSnap' = req.snap /\ hs.commit < req.snap.index /\ req.snap # EmptySnapshot
        BY <2>0, <3>1, <3>3 DEF WriterExact, LegalReady
      <4>2. SnapshotRead.index <= hs.commit
        BY <2>0, <2>3, <3>1 DEF WALInvariant, SnapshotCacheOK, SnapshotRead
      <4>3. SnapshotRead' = req.snap
        BY <4>1 DEF SnapshotRead
      <4> QED
        BY <2>1, <2>2, <4>1, <4>2, <4>3 DEF SnapshotRead
    <3> QED
      BY <2>1, <2>2, <3>2, <3>3 DEF SnapshotRead
  <2>5. CASE SaveFlush
    <3>1. cSnap' = cSnap /\ snap' = NextSnapshot /\ wpc = "saving"
      BY <2>5 DEF SaveFlush, cache, NextSnapshot
    <3>2. cSnap = EmptySnapshot => snap' = snap
      BY <2>0, <3>1 DEF WALInvariant, BatchOK, NextSnapshot
    <3> QED
      BY <2>1, <2>2, <3>1, <3>2 DEF SnapshotRead
  <2>6. ASSUME NEW i \in Index, CreateSnapshot(i) PROVE FirstIndex <= FirstIndex'
    <3>1. SnapshotRead.index < i /\ cSnap' = [index |-> i, term |-> log[i].term] /\ i \in Nat
      BY <2>6, BoundsAssumption DEF CreateSnapshot, Index
    <3>2. cSnap' # EmptySnapshot
      BY <2>2, <3>1 DEF EmptySnapshot, SnapshotRead
    <3>3. SnapshotRead'.index = i
      BY <3>1, <3>2 DEF SnapshotRead
    <3> QED
      BY <2>1, <2>2, <3>1, <3>3 DEF SnapshotRead
  <2>7. CASE SnapshotFlush
    <3>1. cSnap' = cSnap /\ cSnap # EmptySnapshot
      BY <2>0, <2>7 DEF SnapshotFlush, cache, WALInvariant, BatchOK
    <3> QED
      BY <2>1, <2>2, <3>1 DEF SnapshotRead
  <2>8. CASE UNCHANGED <<cSnap, snap>>
    BY <2>1, <2>2, <2>8 DEF SnapshotRead
  <2>9. CASE ReceiveReady
    <3>1. \E r : Receive(r)
      BY <2>9, Zenon DEF ReceiveReady
    <3> QED
      BY <2>8, <3>1 DEF Receive, db, cache
  <2>10. \/ SaveBatch \/ SaveFlush \/ SnapshotFlush \/ ReceiveReady
         \/ \E i \in Index : CreateSnapshot(i)
         \/ UNCHANGED <<cSnap, snap>>
    BY <1>1 DEF Next, vars, Open, Load, Crash,
                SnapshotFlushFails, StartEntries, StartTerm, FinishRead, DeleteGroup, db, cache
  <2> QED
    BY <2>4, <2>5, <2>6, <2>7, <2>8, <2>9, <2>10
<1>2. IInv /\ IInv' /\ [Next]_vars =>
        [mode = "up" /\ mode' = "up" => FirstIndex <= FirstIndex']_vars
  BY <1>1
<1> QED
  BY <1>2, ExactCorrect, PTL DEF Spec, FirstIndexGrows

-----------------------------------------------------------------------------
(* The refinement. *)

\* The WAL implements the abstract raft storage: the flush of Save is Complete, that
\* of CreateSnapshot is Compact, a crash before the flush of a Ready is Lose, and
\* DeleteGroup is Forget; every other step leaves what is stored as it is.
THEOREM ImplementsStorage ==
    ASSUME ~RestoresOverLog
    PROVE  Spec => ImplementsRaftStorage
<1>1. Init => Storage!Init
  BY StorageData DEF Init, Storage!Init
<1>2. IInv /\ IInv' /\ [Next]_vars => [Storage!Next]_Storage!vars
  <2> SUFFICES ASSUME IInv, IInv', [Next]_vars
               PROVE  Storage!Next \/ UNCHANGED Storage!vars
    OBVIOUS
  <2> USE StorageData
  <2>0. /\ TypeOK /\ WALInvariant /\ (member => WriterExact)
        /\ mode = "up" => member
    BY DEF IInv, Exact, WALInvariant
  \* A step that leaves the database of a group of this node, and what its writer
  \* was handed, leaves the storage.
  <2>a. ASSUME member' = member,
               member => UNCHANGED <<log, hs, snap>>,
               member => (IF wpc' \in {"ready", "saving"} THEN req' ELSE NoReady)
                       = (IF wpc \in {"ready", "saving"} THEN req ELSE NoReady)
        PROVE  UNCHANGED Storage!vars
    BY <2>a DEF Storage!vars
  <2>1. CASE Open
    <3>1. member => log' = log
      BY <2>0, <2>1, FirstIndexFollowsSnapshot DEF Open
    <3> QED
      BY <2>a, <2>1, <3>1 DEF Open, writer
  <2>2. CASE Load \/ FinishRead
    BY <2>a, <2>2 DEF Load, FinishRead, db, writer
  <2>3. CASE Crash
    <3>1. wpc' = "idle" /\ UNCHANGED <<log, hs, snap, member>>
      BY <2>3 DEF Crash, db
    <3>2. CASE member /\ wpc \in {"ready", "saving"}
      <4>1. req # NoReady
        BY <2>0, <3>2 DEF WriterExact
      <4>2. Storage!Lose
        BY <3>1, <3>2, <4>1 DEF Storage!Lose
      <4> QED
        BY <4>2 DEF Storage!Next
    <3>3. CASE ~(member /\ wpc \in {"ready", "saving"})
      BY <2>a, <3>1, <3>3
    <3> QED
      BY <3>2, <3>3
  <2>4. CASE ReceiveReady
    <3>1. mode = "up" /\ wpc = "idle" /\ \E r : Receive(r)
      BY <2>4, Zenon DEF ReceiveReady
    <3>2. PICK r : Receive(r)
      BY <3>1
    <3>3. member /\ req' = r /\ wpc' = "ready" /\ UNCHANGED <<log, hs, snap, member>>
      BY <2>0, <3>1, <3>2 DEF Receive, db
    <3>4. r # NoReady /\ LegalReady(log, hs, r)
      BY <3>2 DEF Receive
    <3>5. Storage!LegalReady(log, hs, r)
      BY <3>4 DEF LegalReady, Storage!LegalReady, Spans, Storage!Spans, MaxKey, Storage!MaxKey,
                  Keys, Storage!Keys
    <3>6. Storage!Submit
      BY <3>1, <3>3, <3>4, <3>5 DEF Storage!Submit
    <3> QED
      BY <3>6 DEF Storage!Next
  <2>5. CASE SaveBatch
    <3>1. member => wpc = "ready" /\ wpc' = "saving" /\ req' = req
      BY <2>0, <2>5, FirstIndexFollowsSnapshot DEF SaveBatch, SaveFails
    <3> QED
      BY <2>a, <2>5, <3>1 DEF SaveBatch, db
  <2>6. CASE SaveFlush
    <3>1. CASE member
      <4>1. /\ req # NoReady /\ log' = Storage!Persisted(log, req)
            /\ wpc = "saving" /\ wpc' = "idle" /\ member' = member
            /\ hs' = IF req.hs = EmptyHardState THEN hs ELSE req.hs
            /\ snap' = IF req.snap = EmptySnapshot THEN snap ELSE req.snap
        BY <2>0, <2>6, <3>1 DEF SaveFlush, WriterExact
      <4>2. Storage!Complete
        BY <3>1, <4>1 DEF Storage!Complete
      <4> QED
        BY <4>2 DEF Storage!Next
    <3>2. CASE ~member
      BY <2>a, <2>6, <3>2 DEF SaveFlush
    <3> QED
      BY <3>1, <3>2
  <2>7. ASSUME NEW i \in Index, CreateSnapshot(i) PROVE UNCHANGED Storage!vars
    BY <2>a, <2>7 DEF CreateSnapshot, db
  <2>8. CASE SnapshotFlush
    <3>1. CASE member
      <4> DEFINE i == req.snap.index
      <4>1. /\ log' = CompactedAt(i) /\ snap' = [index |-> i, term |-> log[i].term]
            /\ snap.index < i /\ i <= hs.commit
            /\ wpc = "snapping" /\ wpc' = "idle" /\ UNCHANGED <<hs, member>>
        BY <2>0, <2>8, <3>1 DEF SnapshotFlush, WriterExact
      <4>2. i \in Index /\ \A j \in Index : j \in Nat
        BY <2>0, RequestType, BoundsAssumption DEF Snapshot, Index
      <4> HIDE DEF i
      <4>3. CompactedAt(i) = [j \in Index |-> CASE j < i -> NoEntry
                                                [] j = i -> Dummy(log[i].term)
                                                [] OTHER -> log[j]]
        BY <4>2 DEF CompactedAt
      <4>4. log' = [j \in Storage!Index |-> CASE j < i -> NoEntry
                                              [] j = i -> Storage!Dummy(log[i].term)
                                              [] OTHER -> log[j]]
        BY <4>1, <4>3
      <4>5. /\ (IF member THEN log ELSE EmptyLog)' = log'
            /\ (IF member THEN snap ELSE EmptySnapshot)' = snap'
            /\ (IF member THEN hs ELSE EmptyHardState)' = hs
            /\ (IF member /\ wpc \in {"ready", "saving"} THEN req ELSE NoReady)' = NoReady
        BY <3>1, <4>1
      <4>6. Storage!Compact
        BY <3>1, <4>1, <4>2, <4>4, <4>5 DEF Storage!Compact
      <4> QED
        BY <4>6 DEF Storage!Next
    <3>2. CASE ~member
      BY <2>a, <2>8, <3>2 DEF SnapshotFlush
    <3> QED
      BY <3>1, <3>2
  <2>9. CASE SnapshotFlushFails
    BY <2>a, <2>9 DEF SnapshotFlushFails, db
  <2>10. ASSUME NEW lo \in Index, NEW hi \in 1..MaxIndex + 1, StartEntries(lo, hi)
         PROVE UNCHANGED Storage!vars
    BY <2>a, <2>10 DEF StartEntries, db, writer
  <2>11. ASSUME NEW i \in Index, StartTerm(i) PROVE UNCHANGED Storage!vars
    BY <2>a, <2>11 DEF StartTerm, db, writer
  <2>12. CASE DeleteGroup
    <3>1. Storage!Forget
      BY <2>12 DEF DeleteGroup, Storage!Forget
    <3> QED
      BY <3>1 DEF Storage!Next
  <2>13. CASE UNCHANGED vars
    BY <2>a, <2>13 DEF vars
  <2> QED
    BY <2>1, <2>2, <2>3, <2>4, <2>5, <2>6, <2>7, <2>8, <2>9, <2>10, <2>11, <2>12,
       <2>13 DEF Next
<1> QED
  BY <1>1, <1>2, ExactCorrect, PTL DEF Spec, ImplementsRaftStorage, Storage!Spec
=============================================================================
