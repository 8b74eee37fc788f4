----------------------------- MODULE RaftStorage -----------------------------
(***************************************************************************)
(* What a raft log storage promises: the abstract specification that       *)
(* badgerWAL (storage/wal/badger.go) implements.  A Ready is persisted     *)
(* completely or, if the process dies first, not at all; a compaction drops*)
(* a committed prefix and keeps the term at its end; nothing else changes  *)
(* what is stored.                                                         *)
(***************************************************************************)
EXTENDS RaftLog

VARIABLES
    ents,   \* the stored log
    hard,   \* the stored hard state
    snap,   \* the stored snapshot's index and term
    req,    \* the Ready being persisted, or NoReady
    alive   \* FALSE once the group was deleted

vars == <<ents, hard, snap, req, alive>>

TypeOK ==
    /\ ents \in Log
    /\ hard \in HardState
    /\ snap \in Snapshot
    /\ req \in Ready \cup {NoReady}
    /\ alive \in BOOLEAN

Init ==
    /\ ents = NewLog
    /\ hard = EmptyHardState
    /\ snap = EmptySnapshot
    /\ req = NoReady
    /\ alive = TRUE

\* The log that results from persisting r: what the snapshot covers is
\* replaced by a dummy, new entries replace the tail they conflict with.
Persisted(lg, r) ==
    [i \in Index |->
        CASE r.snap # EmptySnapshot /\ i < r.snap.index -> NoEntry
          [] r.snap # EmptySnapshot /\ i = r.snap.index -> Dummy(r.snap.term)
          [] r.lo <= r.hi /\ r.lo <= i -> r.ents[i]
          [] r.snap # EmptySnapshot /\ i > r.snap.index /\ r.lo > r.hi -> NoEntry
          [] OTHER -> lg[i]]

Submit == \E r \in {req'} :
    /\ alive
    /\ req = NoReady
    /\ r # NoReady
    /\ LegalReady(ents, hard, r)
    /\ UNCHANGED <<ents, hard, snap, alive>>

Complete ==
    /\ req # NoReady
    /\ ents' = Persisted(ents, req)
    /\ hard' = IF req.hs = EmptyHardState THEN hard ELSE req.hs
    /\ snap' = IF req.snap = EmptySnapshot THEN snap ELSE req.snap
    /\ req' = NoReady
    /\ UNCHANGED alive

Compact == \E i \in Index :
    /\ alive
    /\ req = NoReady
    /\ snap.index < i /\ i <= hard.commit
    /\ ents' = [j \in Index |-> CASE j < i -> NoEntry
                                  [] j = i -> Dummy(ents[i].term)
                                  [] OTHER -> ents[j]]
    /\ snap' = [index |-> i, term |-> ents[i].term]
    /\ UNCHANGED <<hard, req, alive>>

\* The process died before the Ready was persisted.
Lose ==
    /\ req # NoReady
    /\ req' = NoReady
    /\ UNCHANGED <<ents, hard, snap, alive>>

\* The group is deleted; what is stored no longer matters.
Forget ==
    /\ alive' = FALSE
    /\ ents' = EmptyLog
    /\ hard' = EmptyHardState
    /\ snap' = EmptySnapshot
    /\ req' = NoReady

Next == Submit \/ Complete \/ Compact \/ Lose \/ Forget

Spec == Init /\ [][Next]_vars
=============================================================================
