------------------------------- MODULE RaftLog -------------------------------
(***************************************************************************)
(* The data a raft log storage works with: indexes, terms, entries, hard   *)
(* states, snapshots, and the Ready that etcd's raft hands to the run loop *)
(* of a RaftGroup (storage/raft/group.go).  A stored log is a function     *)
(* from Index whose value is NoEntry where the key is absent.              *)
(*                                                                         *)
(* etcd's raft library is not part of the repository: LegalReady states    *)
(* what it guarantees of a Ready, which is what badgerWAL.Save relies on.  *)
(***************************************************************************)
EXTENDS Naturals

CONSTANTS
    MaxIndex,   \* the largest log index (a bound)
    MaxTerm,    \* the largest raft term (a bound)
    NoEntry,    \* the value of an absent key
    Keep        \* the value of a key that a write batch leaves alone

Index == 0..MaxIndex
Term == 0..MaxTerm

\* An entry of the log.  The entry at the index of the snapshot is a "dummy":
\* it keeps the term, the payload is gone.
Entry == [term : Term, data : {"full", "dummy"}]

ASSUME BoundsAssumption == MaxIndex \in Nat /\ MaxTerm \in Nat
ASSUME ValuesAssumption ==
    /\ NoEntry \notin Entry
    /\ Keep \notin Entry
    /\ Keep # NoEntry

Log == [Index -> Entry \cup {NoEntry}]

Full(t) == [term |-> t, data |-> "full"]
Dummy(t) == [term |-> t, data |-> "dummy"]

\* The keys present in a log, the log without any, and a new WAL's log.
Keys(lg) == {i \in Index : lg[i] # NoEntry}
EmptyLog == [i \in Index |-> NoEntry]
NewLog == [i \in Index |-> IF i = 0 THEN Dummy(0) ELSE NoEntry]

\* The keys of lg are exactly the interval a..b.
Spans(lg, a, b) == \A i \in Index : lg[i] # NoEntry <=> a <= i /\ i <= b

MinKey(lg) == CHOOSE i \in Keys(lg) : \A j \in Keys(lg) : i <= j
MaxKey(lg) == CHOOSE i \in Keys(lg) : \A j \in Keys(lg) : j <= i

(***************************************************************************)
(* Hard state (the vote is left out: no property tells votes apart) and    *)
(* snapshot metadata.  Index 0 is the empty snapshot, as in IsEmptySnap.   *)
(***************************************************************************)
HardState == [term : Term, commit : Index]
EmptyHardState == [term |-> 0, commit |-> 0]

Snapshot == [index : Index, term : Term]
EmptySnapshot == [index |-> 0, term |-> 0]

(***************************************************************************)
(* What a Ready asks the storage to persist.  Its entries are those at     *)
(* lo..hi (none when lo > hi).                                             *)
(***************************************************************************)
Ready == [hs : HardState, ents : Log, lo : Index, hi : Index, snap : Snapshot]
NoReady == [hs |-> EmptyHardState, ents |-> EmptyLog, lo |-> 1, hi |-> 0,
            snap |-> EmptySnapshot]

\* What etcd guarantees of a Ready made over the persisted log lg and hard
\* state h: a committed entry is never overwritten and no gap is left; a
\* snapshot is ahead of the commit index and is restored only when the log does
\* not hold that very entry; entries that come with a snapshot follow it; no
\* entry is of a later term than the hard state; the commit index only grows, and
\* stays within the log.  Terms may fall, from one Ready to the next and along the
\* log: a node that is started on a WAL as if it were new (StartNode, in
\* NewRaftGroup) begins at term 1 again, behind a log of later terms.
LegalReady(lg, h, r) ==
    LET installs == r.snap # EmptySnapshot
        appends == r.lo <= r.hi
        prev == IF installs THEN r.snap.index ELSE MaxKey(lg)
        last == IF appends THEN r.hi ELSE prev
        hard == IF r.hs = EmptyHardState THEN h ELSE r.hs
    IN  /\ Spans(r.ents, r.lo, r.hi)
        /\ appends =>
             /\ h.commit < r.lo /\ r.lo <= prev + 1
             /\ installs => r.lo = prev + 1
             /\ \A i \in r.lo..r.hi : /\ r.ents[i].data = "full"
                                     /\ 1 <= r.ents[i].term /\ r.ents[i].term <= hard.term
        /\ installs =>
             /\ h.commit < r.snap.index /\ r.snap.index <= hard.commit
             /\ 1 <= r.snap.term /\ r.snap.term <= hard.term
             /\ lg[r.snap.index] # NoEntry => lg[r.snap.index].term # r.snap.term
        /\ h.commit <= hard.commit /\ hard.commit <= last
=============================================================================
