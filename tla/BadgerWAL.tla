------------------------------ MODULE BadgerWAL ------------------------------
(***************************************************************************)
(* The write-ahead log of one raft group: storage/wal/badger.go, with the  *)
(* goroutines that use it.  The run loop of the RaftGroup is the writer: it *)
(* saves each Ready and now and then compacts the log into a snapshot.     *)
(* The goroutine of etcd's raft node is the reader: it asks for entries and *)
(* terms to send to followers.  The two run concurrently, and badgerWAL has *)
(* no lock: a call reads its cache, then the database, and another          *)
(* goroutine's batch may be flushed between the two.  Killing the process   *)
(* loses the cache and the batch.                                           *)
(*                                                                         *)
(* Flushing a batch is one atomic step of the database (badger is external *)
(* to the repository).                                                     *)
(***************************************************************************)
EXTENDS RaftLog

CONSTANT RestoresOverLog  \* may a snapshot be restored over a log that reaches its index?

ASSUME RestoresAssumption == RestoresOverLog \in BOOLEAN

VARIABLES
    \* the database: entry keys, the "hs" key and the "ss" key
    log, hs, snap,
    \* badgerWAL.cache; 0 (EmptySnapshot) when the key is not there
    cSnap, cFirst, cLast,
    \* the writer: where it is, the Ready it persists, its write batch
    wpc, req, batch,
    \* the reader: where it is, what it was asked, the log when it was asked
    rd,
    \* the process, and whether the node is assigned to the group
    mode, member

db == <<log, hs, snap>>
cache == <<cSnap, cFirst, cLast>>
writer == <<wpc, req, batch>>
vars == <<log, hs, snap, cSnap, cFirst, cLast, wpc, req, batch, rd, mode, member>>

Batch == [Index -> Entry \cup {NoEntry, Keep}]
EmptyBatch == [i \in Index |-> Keep]

Reading == [pc : {"entries", "term"}, lo : Index, hi : 0..MaxIndex + 1, want : Log]
NotReading == [pc |-> "idle", lo |-> 0, hi |-> 0, want |-> EmptyLog]

TypeOK ==
    /\ log \in Log /\ hs \in HardState /\ snap \in Snapshot
    /\ cSnap \in Snapshot /\ cFirst \in 0..MaxIndex + 1 /\ cLast \in Index
    /\ wpc \in {"idle", "ready", "saving", "snapping"}
    /\ req \in Ready \cup {NoReady}
    /\ batch \in Batch
    /\ rd \in Reading \cup {NotReading}
    /\ mode \in {"open", "up", "down", "panicked", "fatal"}
    /\ member \in BOOLEAN

-----------------------------------------------------------------------------
(* Reads of the cache and the database. *)

\* The result of a read that finds no entry.
NotFound == 0

\* FirstIndex: the cached snapshot, the cached index, else the first key.
FirstIndex ==
    IF cSnap # EmptySnapshot THEN cSnap.index + 1
    ELSE IF cFirst # 0 THEN cFirst
    ELSE IF Keys(log) = {} THEN NotFound
    ELSE MinKey(log) + 1

\* FirstIndex caches what it read from the database.
FirstIndexCached ==
    IF cSnap = EmptySnapshot /\ cFirst = 0 THEN FirstIndex ELSE cFirst

LastIndex ==
    IF cLast # 0 THEN cLast
    ELSE IF Keys(log) = {} THEN NotFound
    ELSE MaxKey(log)

\* Snapshot(): the cached snapshot, else the stored one.
SnapshotRead == IF cSnap # EmptySnapshot THEN cSnap ELSE snap

\* The first key at or above i: where an iterator lands.
SeekKey(i) == CHOOSE k \in Keys(log) : i <= k /\ \A j \in Keys(log) : i <= j => k <= j

\* Mutant: the entry found is taken for the one asked for.
SeekTermOfAny(i) ==
    IF \A k \in Keys(log) : k < i THEN [err |-> "unavailable", term |-> 0]
    ELSE [err |-> "none", term |-> log[SeekKey(i)].term]

\* What the database part of Term(i) returns.
SeekTerm(i) ==
    IF \A k \in Keys(log) : k < i THEN [err |-> "unavailable", term |-> 0]
    ELSE IF i < SeekKey(i) THEN [err |-> "compacted", term |-> 0]
    ELSE [err |-> "none", term |-> log[SeekKey(i)].term]

\* Mutant: the iteration stops one entry early.
GetEntriesShort(lo, hi) ==
    [err |-> "none",
     ents |-> [i \in Index |-> IF lo <= i /\ i < hi - 1 THEN log[i] ELSE NoEntry]]

\* The entries the database part of Entries(lo, hi) returns when their size is
\* within the limit: a Get when one is asked for, an iteration otherwise.
GetEntries(lo, hi) ==
    IF hi - lo = 1 /\ log[lo] = NoEntry THEN [err |-> "notfound", ents |-> EmptyLog]
    ELSE [err |-> "none",
          ents |-> [i \in Index |-> IF lo <= i /\ i < hi THEN log[i] ELSE NoEntry]]

-----------------------------------------------------------------------------
(* Write batches: the last operation on a key wins. *)

PutEntries(b, es, from, to) ==
    [i \in Index |-> IF from <= i /\ i <= to THEN es[i] ELSE b[i]]

PutEntry(b, k, e) == [b EXCEPT ![k] = e]

\* Mutant: the entry at the index is kept.
DeleteAfter(b, from) == [i \in Index |-> IF log[i] # NoEntry /\ from < i THEN NoEntry ELSE b[i]]

\* deleteEntriesFromIndex and deleteEntriesUntilIndex delete the keys that the
\* database holds, whatever the batch has written.
DeleteFrom(b, from) == [i \in Index |-> IF log[i] # NoEntry /\ from <= i THEN NoEntry ELSE b[i]]
DeleteUntil(b, to) == [i \in Index |-> IF log[i] # NoEntry /\ i < to THEN NoEntry ELSE b[i]]

Flushed(b) == [i \in Index |-> IF b[i] = Keep THEN log[i] ELSE b[i]]

-----------------------------------------------------------------------------
Init ==
    /\ log = NewLog /\ hs = EmptyHardState /\ snap = EmptySnapshot
    /\ cSnap = EmptySnapshot /\ cFirst = 0 /\ cLast = 0
    /\ wpc = "idle" /\ req = NoReady /\ batch = EmptyBatch
    /\ rd = NotReading
    /\ mode = "open" /\ member = TRUE

\* NewBadgerWAL: the first index is read, and an empty WAL is populated with a
\* dummy entry (reset replaces the cache).
Open ==
    /\ mode = "down"
    /\ mode' = "open"
    /\ cFirst' = FirstIndexCached
    /\ log' = IF FirstIndex = NotFound THEN NewLog ELSE log
    /\ UNCHANGED <<hs, snap, cSnap, cLast, writer, rd, member>>

\* The raft node is started on the WAL, by RestartNode or by StartNode: in either,
\* raft's newLog and loadState panic when there is no first index or the commit
\* index is outside of the log.  What StartNode then appends to the log, and commits
\* with all that is stored, comes as a Ready.
Load ==
    /\ mode = "open" /\ member /\ wpc = "idle"
    /\ mode' = IF FirstIndex # NotFound
                  /\ hs # EmptyHardState => FirstIndex - 1 <= hs.commit /\ hs.commit <= LastIndex
               THEN "up" ELSE "panicked"
    /\ cFirst' = FirstIndexCached
    /\ UNCHANGED <<db, cSnap, cLast, writer, rd, member>>

Crash ==
    /\ mode # "down"
    /\ mode' = "down"
    /\ cSnap' = EmptySnapshot /\ cFirst' = 0 /\ cLast' = 0
    /\ wpc' = "idle" /\ req' = NoReady /\ batch' = EmptyBatch
    /\ rd' = NotReading
    /\ UNCHANGED <<db, member>>

-----------------------------------------------------------------------------
(* The writer: RaftGroup.run. *)

\* A Ready with the entries lo..hi of these terms.
ReadyOf(h, s, lo, hi, terms) ==
    [hs |-> h, snap |-> s, lo |-> lo, hi |-> hi,
     ents |-> [i \in Index |-> IF lo <= i /\ i <= hi THEN Full(terms[i]) ELSE NoEntry]]

\* The run loop receives the Ready r.
Receive(r) ==
    /\ r # NoReady
    /\ LegalReady(log, hs, r)
    /\ RestoresOverLog \/ r.snap = EmptySnapshot \/ MaxKey(log) < r.snap.index
    /\ req' = r
    /\ wpc' = "ready"
    /\ UNCHANGED <<db, cache, batch, rd, mode, member>>

\* The raft node makes it between two messages, so not while it reads.
ReceiveReady ==
    /\ mode = "up" /\ wpc = "idle" /\ rd.pc = "idle"
    /\ \E h \in HardState, s \in Snapshot, lo \in Index, hi \in Index :
         /\ lo > hi => lo = 1 /\ hi = 0
         /\ s.index = 0 => s = EmptySnapshot
         /\ \E terms \in [lo..hi -> Term] :
              LET r == ReadyOf(h, s, lo, hi, terms) IN Receive(r)

\* writeEntries: what the entries of the Ready add to the batch, without those
\* below the first index, and the tail they replace deleted.
WriteEntries(b) ==
    LET from == IF FirstIndex > req.lo THEN FirstIndex ELSE req.lo
        put == PutEntries(b, req.ents, from, req.hi)
    IN  IF req.hi < req.lo \/ req.hi < FirstIndex THEN b
        ELSE IF LastIndex > req.hi THEN DeleteFrom(put, req.hi + 1)
        ELSE put

\* writeSnapshot and the deletion of the log that follows it in Save.
WriteSnapshot(b) ==
    IF req.snap = EmptySnapshot THEN b
    ELSE DeleteFrom(PutEntry(b, req.snap.index, Dummy(req.snap.term)), 0)

\* The cached last index after writeEntries, and after writeSnapshot.
LastCachedByEntries ==
    IF req.hi < req.lo \/ req.hi < FirstIndex THEN cLast ELSE req.hi

LastCachedUnraised(last) == last    \* mutant: not raised to the snapshot
LastCachedBySnapshot(last) ==
    IF last # 0 /\ last < req.snap.index THEN req.snap.index ELSE last

\* writeEntries fails when there is no first index.
SaveFails == req.lo <= req.hi /\ FirstIndex = NotFound

\* Mutant: the hard state is stored ahead of the batch.
SaveBatchHardFirst ==
    /\ wpc = "ready" /\ ~SaveFails
    /\ batch' = WriteSnapshot(WriteEntries(EmptyBatch))
    /\ cFirst' = FirstIndexCached
    /\ cLast' = LastCachedBySnapshot(LastCachedByEntries)
    /\ cSnap' = IF req.snap = EmptySnapshot THEN cSnap ELSE req.snap
    /\ hs' = IF req.hs = EmptyHardState THEN hs ELSE req.hs
    /\ wpc' = "saving"
    /\ UNCHANGED <<log, snap, req, mode, rd, member>>

\* Save up to batch.Flush: the batch is complete, the cache is already updated.
\* An error is fatal to the process.
SaveBatch ==
    /\ wpc = "ready"
    /\ IF SaveFails
       THEN /\ mode' = "fatal"
            /\ wpc' = "idle" /\ req' = NoReady
            /\ UNCHANGED <<cache, batch>>
       ELSE /\ batch' = WriteSnapshot(WriteEntries(EmptyBatch))
            /\ cFirst' = IF req.lo <= req.hi THEN FirstIndexCached ELSE cFirst
            /\ cLast' = LastCachedBySnapshot(LastCachedByEntries)
            /\ cSnap' = IF req.snap = EmptySnapshot THEN cSnap ELSE req.snap
            /\ wpc' = "saving"
            /\ UNCHANGED <<req, mode>>
    /\ UNCHANGED <<db, rd, member>>

SaveFlush ==
    /\ wpc = "saving"
    /\ log' = Flushed(batch)
    /\ hs' = IF req.hs = EmptyHardState THEN hs ELSE req.hs
    /\ snap' = IF req.snap = EmptySnapshot THEN snap ELSE req.snap
    /\ wpc' = "idle" /\ req' = NoReady /\ batch' = EmptyBatch
    /\ UNCHANGED <<cache, rd, mode, member>>

\* trySnapshot and CreateSnapshot up to batch.Flush, for an applied index above
\* the existing snapshot; an index below the first one is refused.
CreateSnapshot(i) ==
    /\ mode = "up" /\ wpc = "idle"
    /\ i <= hs.commit
    /\ SnapshotRead.index < i
    /\ FirstIndex <= i
    /\ log[i] # NoEntry
    /\ LET s == [index |-> i, term |-> log[i].term]
       IN  /\ req' = [NoReady EXCEPT !.snap = s]
           /\ batch' = DeleteUntil(PutEntry(EmptyBatch, i, Dummy(s.term)), i)
           /\ cSnap' = s
           /\ cFirst' = IF FirstIndexCached # 0 /\ FirstIndexCached <= i THEN i + 1
                      ELSE FirstIndexCached
           /\ cLast' = IF cLast # 0 /\ cLast < i THEN i ELSE cLast
    /\ wpc' = "snapping"
    /\ UNCHANGED <<db, rd, mode, member>>

SnapshotFlushForgotten ==    \* mutant: the snapshot itself is not in the batch
    /\ wpc = "snapping"
    /\ log' = Flushed(batch)
    /\ wpc' = "idle" /\ req' = NoReady /\ batch' = EmptyBatch
    /\ UNCHANGED <<hs, snap, cache, rd, mode, member>>

SnapshotFlush ==
    /\ wpc = "snapping"
    /\ log' = Flushed(batch)
    /\ snap' = req.snap
    /\ wpc' = "idle" /\ req' = NoReady /\ batch' = EmptyBatch
    /\ UNCHANGED <<hs, cache, rd, mode, member>>

\* Mutant: a failed flush drops the cache.
SnapshotFlushFailsUncached ==
    /\ wpc = "snapping"
    /\ wpc' = "idle" /\ req' = NoReady /\ batch' = EmptyBatch
    /\ cSnap' = EmptySnapshot /\ cFirst' = 0 /\ cLast' = 0
    /\ UNCHANGED <<db, rd, mode, member>>

\* The flush of a snapshot fails: the run loop logs it and continues, the cache
\* keeps the snapshot that was not stored.
SnapshotFlushFails ==
    /\ wpc = "snapping"
    /\ wpc' = "idle" /\ req' = NoReady /\ batch' = EmptyBatch
    /\ UNCHANGED <<db, cache, rd, mode, member>>

-----------------------------------------------------------------------------
(* The reader: the goroutine of the raft node. *)

\* The last index that raft asks the storage for: what it has not handed out
\* in the Ready being saved.
StableLast == IF req.lo <= req.hi THEN req.lo - 1 ELSE MaxKey(log)

\* While a snapshot is being restored raft answers from it, not from the storage.
MayRead == /\ mode = "up" /\ rd.pc = "idle"
           /\ wpc \in {"ready", "saving"} => req.snap = EmptySnapshot

\* Entries(lo, hi): the first index is checked, then the database is read.
StartEntries(lo, hi) ==
    /\ MayRead
    /\ lo < hi /\ hi <= StableLast + 1
    /\ FirstIndex <= lo
    /\ rd' = [pc |-> "entries", lo |-> lo, hi |-> hi, want |-> log]
    /\ cFirst' = FirstIndexCached
    /\ UNCHANGED <<db, cSnap, cLast, writer, mode, member>>

\* Term(i), in the same two parts.
StartTerm(i) ==
    /\ MayRead
    /\ i <= StableLast
    /\ FirstIndex - 1 <= i
    /\ rd' = [pc |-> "term", lo |-> i, hi |-> 0, want |-> log]
    /\ cFirst' = FirstIndexCached
    /\ UNCHANGED <<db, cSnap, cLast, writer, mode, member>>

FinishRead ==
    /\ rd.pc # "idle"
    /\ rd' = NotReading
    /\ UNCHANGED <<db, cache, writer, mode, member>>

-----------------------------------------------------------------------------
\* partition.unloadRaft: the raft node is stopped (its goroutine has ended, the
\* run loop need not have) and DeleteGroup deletes the entries.  The hard state
\* and the snapshot stay.
DeleteGroup ==
    /\ mode = "up" /\ rd.pc = "idle"
    /\ log' = EmptyLog
    /\ cSnap' = EmptySnapshot /\ cFirst' = 0 /\ cLast' = 0
    /\ mode' = "open" /\ member' = FALSE
    /\ UNCHANGED <<hs, snap, writer, rd>>

\* The node is assigned to the partition again: the group is to be loaded.
Rejoin ==
    /\ mode = "open" /\ ~member /\ wpc = "idle"
    /\ member' = TRUE
    /\ UNCHANGED <<db, cache, writer, rd, mode>>

Next ==
    \/ Open \/ Load \/ Crash
    \/ ReceiveReady \/ SaveBatch \/ SaveFlush
    \/ \E i \in Index : CreateSnapshot(i)
    \/ SnapshotFlush \/ SnapshotFlushFails
    \/ \E lo \in Index, hi \in 1..MaxIndex + 1 : StartEntries(lo, hi)
    \/ \E i \in Index : StartTerm(i)
    \/ FinishRead
    \/ DeleteGroup

Spec == Init /\ [][Next]_vars

\* The same, where a node can be assigned again a group it has deleted.
RejoinSpec == Init /\ [][Next \/ Rejoin]_vars
-----------------------------------------------------------------------------
(* Properties. *)

\* The raft node can always be started on the WAL of a group the node belongs
\* to, whatever was being written when the process died: there is a first index
\* and the stored commit index lies within the stored log (NewBadgerWAL, Save,
\* CreateSnapshot, against etcd's newLog and loadState).
LoadsCleanly == mode # "panicked"

\* Save ends the process only in a group that was deleted under its run loop
\* (DeleteGroup does not wait for RaftGroup.run).
FatalOnlyWhenDeleted == mode = "fatal" => ~member

\* A follower that is told an index is compacted can be sent a snapshot that
\* covers it: FirstIndex and Snapshot agree at any moment, whichever of the
\* cache and the database each of them reads.
CompactedHasSnapshot == mode = "up" => FirstIndex = SnapshotRead.index + 1

\* LastIndex is the index of the last stored entry whenever no Save is under
\* way, although it is served from a cache that is updated before the flush.
LastIndexExact ==
    mode = "up" /\ wpc \in {"idle", "snapping"} =>
        LastIndex \in Keys(log) /\ \A i \in Keys(log) : i <= LastIndex

\* Term(i) called at any moment returns the term of the entry at i when it was
\* called, or says that i is compacted, and then a snapshot above i exists: a
\* Save or a compaction flushed in the middle of the call is not noticed.
TermExact ==
    rd.pc = "term" =>
        \/ SeekTerm(rd.lo) = [err |-> "none", term |-> rd.want[rd.lo].term]
        \/ SeekTerm(rd.lo).err = "compacted" /\ rd.lo < SnapshotRead.index

\* The read of the database returns the entries asked for as they were at the call.
ReturnsAsked ==
    LET r == GetEntries(rd.lo, rd.hi)
    IN  r.err = "none" /\ \A i \in rd.lo..rd.hi - 1 : r.ents[i] = rd.want[i]

\* Entries(lo, hi) called at any moment returns the entries at lo, lo+1, ... as they
\* were when it was called.
EntriesExact == rd.pc = "entries" => ReturnsAsked

\* Entries(lo, hi) called at any moment returns the entries as they were when it was
\* called, unless the log was compacted to lo or above after the call checked the
\* first index: nothing else that is flushed in between disturbs it.
EntriesExactUnlessCompacted == rd.pc = "entries" => ReturnsAsked \/ rd.lo <= snap.index

\* A committed entry of a group that is not deleted stays in the log as it is
\* until a stored snapshot covers it, across crashes in the middle of Save and
\* CreateSnapshot.
CommittedEntriesKept ==
    [][\A i \in Index : member' /\ log[i] # NoEntry /\ i <= hs.commit =>
          log'[i] = log[i] \/ i <= snap'.index]_vars

\* While the raft node runs on it, the WAL's first index never moves back.
FirstIndexGrows ==
    [][mode = "up" /\ mode' = "up" => FirstIndex <= FirstIndex']_vars

\* The WAL of a group that the node is to run is never empty (the comment in
\* NewBadgerWAL: "Empty WAL. Populate with a dummy entry at term 0.").
NeverEmpty == member /\ mode \in {"open", "up"} => Keys(log) # {}

-----------------------------------------------------------------------------
(* The inductive invariant. *)

\* What a well-formed store is: the log spans the indexes from the snapshot on,
\* the entry there is the snapshot's dummy and no other is, and the commit index
\* lies within the log.
Stored(lg, h, s) ==
    /\ \E b \in Index : Spans(lg, s.index, b) /\ s.index <= b /\ h.commit <= b
    /\ s.index <= h.commit
    /\ lg[s.index] = Dummy(s.term)
    /\ \A i \in Index : i # s.index /\ lg[i] # NoEntry => lg[i].data = "full"

\* What the cache may hold.  A cached snapshot is not older than the stored one,
\* and its index is committed or is about to be.
SnapshotCacheOK ==
    /\ cSnap # EmptySnapshot =>
          /\ 1 <= cSnap.index /\ snap.index <= cSnap.index
          /\ cSnap.index <= hs.commit \/ (wpc = "saving" /\ cSnap = req.snap)
    /\ cSnap = EmptySnapshot /\ cFirst # 0 => cFirst = snap.index + 1

\* A cached last index is that of the log, with the batch when Save is at its flush.
LastCacheOK ==
    cLast # 0 => cLast = IF wpc = "saving" THEN MaxKey(Flushed(batch)) ELSE MaxKey(log)

\* The Ready is one that etcd makes over what is stored.
ReadyOK ==
    wpc = "ready" => /\ LegalReady(log, hs, req)
                     /\ req.snap = EmptySnapshot \/ MaxKey(log) < req.snap.index

\* A flush of the batch leaves a well-formed store.
NextHard == IF req.hs = EmptyHardState THEN hs ELSE req.hs
NextSnapshot == IF req.snap = EmptySnapshot THEN snap ELSE req.snap
BatchOK ==
    /\ wpc = "saving" =>
          /\ Stored(Flushed(batch), NextHard, NextSnapshot)
          /\ req.snap # EmptySnapshot => cSnap = req.snap
          /\ hs.commit <= NextHard.commit
    /\ wpc = "snapping" =>
          /\ Stored(Flushed(batch), hs, req.snap)
          /\ MaxKey(Flushed(batch)) = MaxKey(log)
          /\ cSnap = req.snap /\ cSnap # EmptySnapshot

\* A store that is not in use has no writer, and nothing in the cache that was not
\* read from it.
UnusedOK ==
    /\ mode \in {"down", "open"} =>
          wpc = "idle" /\ cSnap = EmptySnapshot /\ cLast = 0
    /\ mode = "down" => cFirst = 0

\* The inductive invariant, for a group that the node belongs to.
WALInvariant ==
    /\ mode # "panicked"
    /\ mode = "fatal" => ~member
    /\ mode = "up" => member
    /\ member => /\ Stored(log, hs, snap)
                 /\ SnapshotCacheOK /\ LastCacheOK
                 /\ ReadyOK /\ BatchOK /\ UnusedOK

\* The abstract specification, and what the WAL's state is in its terms.  What
\* is stored after the group was deleted does not matter.
Storage == INSTANCE RaftStorage WITH
    ents <- IF member THEN log ELSE EmptyLog,
    hard <- IF member THEN hs ELSE EmptyHardState,
    snap <- IF member THEN snap ELSE EmptySnapshot,
    req <- IF member /\ wpc \in {"ready", "saving"} THEN req ELSE NoReady,
    alive <- member

\* Every step of the WAL is a step of the raft storage or leaves it as it is: a
\* Ready takes effect at its flush, whole and as it was handed over.
ImplementsRaftStorage == Storage!Spec
=============================================================================
