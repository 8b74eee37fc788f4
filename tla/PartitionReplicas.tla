-------------------------- MODULE PartitionReplicas --------------------------
(***************************************************************************)
(* The replicas of one partition: storage/partition.go with the run loop   *)
(* of its RaftGroup (storage/raft/group.go) and the notificator through    *)
(* which the run loop answers a waiting client call (utils/notificator.go).*)
(*                                                                         *)
(* Raft itself is external: a proposal is committed once or lost, and the  *)
(* committed changes form one log, of which every replica's log is a part  *)
(* as long as replicas are restarted on what they stored.  They are not    *)
(* always: a founder of the group is restarted as if it had never run      *)
(* (etcd's StartNode in NewRaftGroup), which keeps its log, declares all   *)
(* of it committed, also what the group never committed, and adds entries  *)
(* of its own behind it.  From then on that replica has a log of its own,  *)
(* and since it acknowledges entries that it does not hold, the other      *)
(* replicas' logs are not safe either.                                     *)
(***************************************************************************)
EXTENDS PartitionChange

CONSTANTS
    Nodes,
    Nothing,        \* no change asked yet, no reply yet
    Failed, Refused,
    MaxCrashes,     \* how many process deaths are explored (a bound)
    MaxTail,        \* how many stored entries may be uncommitted (a bound)
    LogsStray,      \* which replicas' logs stray once one was started over (a bound):
                    \* "none", those that "follow" the group's until then, or "all"
    ManySnapshots   \* may a replica take more than one snapshot? (a bound)

\* No result of a change is Nothing, Failed or Refused, and no change is Nothing.
ASSUME ReplicasAssumption ==
    /\ MaxCrashes \in Nat /\ MaxTail \in Nat
    /\ Nothing \notin Change /\ Nothing \notin Seq(Change)
    /\ {Nothing, Failed, Refused} \cap Results = {}
    /\ Nothing # Failed /\ Nothing # Refused /\ Failed # Refused

VARIABLES
    \* raft: the committed changes, the proposals on their way, the nodes for
    \* which the group was created, and per node the log it follows instead of
    \* the group's, if it does
    rlog, pending, founders, own,
    \* per node: what the process and partition.raft are doing, the index, how
    \* far the log is applied to it, and the snapshot in the node's WAL
    status, index, applied, saved,
    \* per call: where it is, on which node, its change, and what it returned
    pc, at, change, reply,
    crashes

groupVars == <<founders, own>>
raftVars == <<rlog, pending, groupVars>>
nodeVars == <<status, index, applied, saved>>
callVars == <<pc, at, change, reply>>
vars == <<rlog, pending, founders, own, status, index, applied, saved, pc, at, change, reply, crashes>>

\* "fresh": partition.raft is nil and was never loaded; "running"; "stuck": the
\* group was created but Start failed, so that its run loop does not run;
\* "removed": unloaded; "dead": the process died; "panicked": it died of the
\* change it was applying or the snapshot it was loading.
Statuses == {"fresh", "running", "stuck", "removed", "dead", "panicked"}
Loaded(n) == status[n] \in {"running", "stuck"}

\* Calls that hold raftMu for reading: all that are past the check of raft.
InCall(c) == pc[c] \in {"created", "proposed", "waiting"}

\* The log of changes that a replica follows.
Log(n) == IF own[n] = Nothing THEN rlog ELSE own[n]

\* No replica has been started over.
Intact == \A n \in Nodes : own[n] = Nothing

NoSnapshot == [idx |-> 0, items |-> NoItems]

TypeOK ==
    /\ rlog \in Seq(Change)
    /\ pending \subseteq Change
    /\ founders \subseteq Nodes
    /\ \A n \in Nodes : own[n] = Nothing \/ own[n] \in Seq(Change)
    /\ status \in [Nodes -> Statuses]
    /\ index \in [Nodes -> Items]
    /\ \A n \in Nodes : applied[n] \in 0..Len(Log(n))
    /\ \A n \in Nodes : saved[n].idx \in 0..Len(Log(n)) /\ saved[n].items \in Items
    /\ pc \in [Calls -> {"idle", "created", "proposed", "waiting", "done"}]
    /\ at \in [Calls -> Nodes]
    /\ \A c \in Calls : change[c] = Nothing \/ change[c] \in Change
    /\ crashes \in 0..MaxCrashes

Init ==
    /\ rlog = <<>> /\ pending = {}
    /\ founders \in SUBSET Nodes \ {{}}
    /\ own = [n \in Nodes |-> Nothing]
    /\ status = [n \in Nodes |-> IF n \in founders THEN "running" ELSE "fresh"]
    /\ index = [n \in Nodes |-> NoItems]
    /\ applied = [n \in Nodes |-> 0]
    /\ saved = [n \in Nodes |-> NoSnapshot]
    /\ pc = [c \in Calls |-> "idle"]
    /\ at \in [Calls -> Nodes]
    /\ change = [c \in Calls |-> Nothing]
    /\ reply = [c \in Calls |-> Nothing]
    /\ crashes = 0

-----------------------------------------------------------------------------
(* Client calls: insert, update, remove and their batch forms.             *)

Done(c, r) ==
    /\ pc' = [pc EXCEPT ![c] = "done"]
    /\ reply' = [reply EXCEPT ![c] = r]

\* The change of a call: one item, or a batch.  A removal has no metadata.
Asks(c) == {ch \in Change : ch.call = c /\ (ch.kind = "delete" => ch.meta = {})}

\* A call takes raftMu for reading, finds raft, and creates its notification
\* channel; or it is refused with RaftNotLoadedOnNodeErr.
Call(c) ==
    /\ pc[c] = "idle"
    /\ status[at[c]] \notin {"dead", "panicked"}
    /\ IF Loaded(at[c])
       THEN /\ \E ch \in Asks(c) : change' = [change EXCEPT ![c] = ch]
            /\ pc' = [pc EXCEPT ![c] = "created"]
            /\ UNCHANGED reply
       ELSE Done(c, Refused) /\ UNCHANGED change
    /\ UNCHANGED <<raftVars, nodeVars, at, crashes>>

\* raft.Propose accepts the proposal.
Propose(c) ==
    /\ pc[c] = "created" /\ status[at[c]] = "running"
    /\ pc' = [pc EXCEPT ![c] = "proposed"]
    /\ pending' = pending \cup {change[c]}
    /\ UNCHANGED <<rlog, groupVars, nodeVars, at, change, reply, crashes>>

\* raft.Propose returns an error: the proposal was dropped, or the five seconds
\* were over while raft was taking it (a group that is not running takes none).
ProposeFails(c) ==
    /\ pc[c] = "created"
    /\ Done(c, Failed)
    /\ pending' \in {pending} \cup (IF status[at[c]] = "running"
                                    THEN {pending \cup {change[c]}} ELSE {})
    /\ UNCHANGED <<rlog, groupVars, nodeVars, at, change, crashes>>

\* The call reaches the select in which it can be notified.
Wait(c) ==
    /\ pc[c] = "proposed"
    /\ pc' = [pc EXCEPT ![c] = "waiting"]
    /\ UNCHANGED <<raftVars, nodeVars, at, change, reply, crashes>>

TimeoutNever(c) == FALSE /\ UNCHANGED vars    \* mutant: there is no timeout

\* proposalTimeout: the call returns and its channel is removed.
Timeout(c) ==
    /\ pc[c] = "waiting"
    /\ Done(c, Failed)
    /\ UNCHANGED <<raftVars, nodeVars, at, change, crashes>>

-----------------------------------------------------------------------------
(* Raft. *)

\* The group has one log while its replicas keep to it.
Commit(ch) ==
    /\ Intact /\ ch \in pending
    /\ rlog' = Append(rlog, ch)
    /\ pending' = pending \ {ch}
    /\ UNCHANGED <<groupVars, nodeVars, callVars, crashes>>

Lose(ch) ==
    /\ ch \in pending
    /\ pending' = pending \ {ch}
    /\ UNCHANGED <<rlog, groupVars, nodeVars, callVars, crashes>>

\* What a log may hold: all that was ever proposed.
Proposed == {change[c] : c \in {d \in Calls : pc[d] \notin {"idle", "created"}}} \ {Nothing}

\* Mutant: changes are applied before they are stored.
KeptSaved(n) == {k \in 0..Len(Log(n)) : saved[n].idx <= k}

\* How much of its log a replica cannot lose: what it has applied or saved.
Kept(n) == {k \in 0..Len(Log(n)) : applied[n] <= k /\ saved[n].idx <= k}

\* Once a replica was started over nothing holds of the logs together: a replica's
\* log may lose what the replica has not applied, and go on with any proposal.
Stray(n) ==
    /\ LogsStray # "none" /\ (LogsStray = "follow" => own[n] = Nothing)
    /\ ~Intact /\ status[n] = "running"
    /\ \E k \in Kept(n) : \E ch \in Proposed \ ToSet(SubSeq(Log(n), 1, k)) :
           own' = [own EXCEPT ![n] = Append(SubSeq(Log(n), 1, k), ch)]
    /\ UNCHANGED <<rlog, pending, founders, nodeVars, callVars, crashes>>

-----------------------------------------------------------------------------
(* The run loop of a replica. *)

\* Mutant: a call that has timed out is notified too.
NotifiedLate(n, ch) == {c \in Calls : c = ch.call /\ at[c] = n /\ pc[c] # "idle"}

\* Notify(id, result, blocking FALSE): only a call that already waits gets it.
\* The channel belongs to the node on which the call was made.
Notified(n, ch) == {c \in Calls : c = ch.call /\ at[c] = n /\ pc[c] = "waiting"}

\* The calls that end because their process ends.
Aborted(n) == {c \in Calls : at[c] = n /\ InCall(c)}

Dies(n, how) ==
    /\ status' = [status EXCEPT ![n] = how]
    /\ pc' = [c \in Calls |-> IF c \in Aborted(n) THEN "done" ELSE pc[c]]
    /\ reply' = [c \in Calls |-> IF c \in Aborted(n) THEN Failed ELSE reply[c]]

ApplyChange(n, ch) ==
    /\ index' = [index EXCEPT ![n] = ItemsAfter(index[n], ch)]
    /\ applied' = [applied EXCEPT ![n] = @ + 1]
    /\ pc' = [c \in Calls |-> IF c \in Notified(n, ch) THEN "done" ELSE pc[c]]
    /\ reply' = [c \in Calls |-> IF c \in Notified(n, ch)
                                 THEN Result(index[n], ch) ELSE reply[c]]

\* Mutant: Notify blocks until the proposer waits.
ApplyBlocking(n) ==
    /\ status[n] = "running" /\ applied[n] < Len(Log(n))
    /\ LET ch == Log(n)[applied[n] + 1]
       IN  /\ at[ch.call] = n => pc[ch.call] = "waiting"
           /\ ApplyChange(n, ch)
    /\ UNCHANGED <<raftVars, status, saved, at, change, crashes>>

\* The next committed change is applied and its proposer notified.
Apply(n) ==
    /\ status[n] = "running" /\ applied[n] < Len(Log(n))
    /\ LET ch == Log(n)[applied[n] + 1]
       IN  ~ChangeKills(index[n], ch) /\ ApplyChange(n, ch)
    /\ UNCHANGED <<raftVars, status, saved, at, change, crashes>>

\* A panic in a handler is not recovered, and its error is fatal to the run loop:
\* the process dies.
ApplyDies(n) ==
    /\ status[n] = "running" /\ applied[n] < Len(Log(n))
    /\ ChangeKills(index[n], Log(n)[applied[n] + 1])
    /\ Dies(n, "panicked")
    /\ UNCHANGED <<raftVars, index, applied, saved, at, change, crashes>>

\* Mutant: the snapshot claims one change more than it holds.
TakeSnapshotAhead(n) ==
    /\ status[n] = "running" /\ applied[n] < Len(Log(n)) /\ saved[n].idx = 0
    /\ saved' = [saved EXCEPT ![n] = [idx |-> applied[n] + 1, items |-> index[n]]]
    /\ UNCHANGED <<raftVars, status, index, applied, callVars, crashes>>

\* trySnapshot: the index is saved at the last applied index.
TakeSnapshot(n) ==
    /\ status[n] = "running" /\ saved[n].idx < applied[n]
    /\ ManySnapshots \/ saved[n].idx = 0
    /\ saved' = [saved EXCEPT ![n] = [idx |-> applied[n], items |-> index[n]]]
    /\ UNCHANGED <<raftVars, status, index, applied, callVars, crashes>>

\* Hnsw.Save writes nothing for an empty index, and Hnsw.Load of nothing fails.
Loadable(s) == s.items # NoItems

\* A follower whose next entry was compacted by the leader receives the leader's
\* snapshot: the WAL saves it, then the index loads it.  An error is fatal.  It
\* follows the leader's log from there.
ReceiveSnapshot(n, m) ==
    /\ n # m /\ status[n] = "running" /\ status[m] = "running"
    /\ applied[n] < saved[m].idx
    /\ saved' = [saved EXCEPT ![n] = saved[m]]
    /\ IF Loadable(saved[m])
       THEN /\ index' = [index EXCEPT ![n] = saved[m].items]
            /\ applied' = [applied EXCEPT ![n] = saved[m].idx]
            /\ UNCHANGED <<status, pc, reply>>
       ELSE Dies(n, "panicked") /\ UNCHANGED <<index, applied>>
    /\ own' = IF Intact THEN own ELSE [own EXCEPT ![n] = Log(m)]
    /\ UNCHANGED <<rlog, pending, founders, at, change, crashes>>

-----------------------------------------------------------------------------
(* The process and loadRaft / unloadRaft. *)

\* Start can load the snapshot of the node's WAL.
CanLoad(n) == saved[n].idx = 0 \/ Loadable(saved[n])

\* RaftGroup.Start: the index starts empty, the snapshot is loaded if there is
\* one, and raft delivers the log again from there.  When the snapshot cannot be
\* loaded, Start fails after partition.raft was set.
Start(n) ==
    /\ status[n] \in {"fresh", "dead", "panicked"}
    /\ IF CanLoad(n)
       THEN /\ status' = [status EXCEPT ![n] = "running"]
            /\ index' = [index EXCEPT ![n] = saved[n].items]
            /\ applied' = [applied EXCEPT ![n] = saved[n].idx]
       ELSE /\ status' = [status EXCEPT ![n] = "stuck"]
            /\ index' = [index EXCEPT ![n] = NoItems]
            /\ applied' = [applied EXCEPT ![n] = 0]
    /\ status[n] = "panicked" => crashes < MaxCrashes
    /\ crashes' = IF status[n] = "panicked" THEN crashes + 1 ELSE crashes
    /\ UNCHANGED <<rlog, pending, founders, saved, callVars>>

\* While no other node has loaded the group, what this one has stored is all there
\* is of it, and is committed in either way of starting.
Alone(n) == \A m \in Nodes \ {n} : status[m] = "fresh"

\* Two others have the group: they may have committed what this one has not stored.
NotNeeded(n) ==
    \E m1, m2 \in Nodes \ {n} : m1 # m2 /\ status[m1] # "fresh" /\ status[m2] # "fresh"

\* loadRaft by addNode, with no peers, on a node that joins or joined: raft goes
\* on with what the node has stored (RestartNode).
LoadRaft(n) ==
    /\ n \in founders => Alone(n) \/ ~CanLoad(n)
    /\ Start(n)
    /\ UNCHANGED own

\* loadRaft by the allocator, with the nodes of the partition as peers, after a
\* restart (StartNode): this is how a founder is always restarted, since the
\* zero group's log replays the creation of its dataset, and a node that joined
\* when its allocator comes first.  The stored log, with the part of it that may
\* not be committed, becomes the replica's own.
StartOver(n) ==
    /\ status[n] # "fresh" /\ ~Alone(n) /\ CanLoad(n)
    /\ Start(n)
    /\ \E k \in Kept(n), m \in 0..MaxTail : \E tail \in [1..m -> pending] :
           /\ k < Len(Log(n)) => NotNeeded(n)
           /\ own' = [own EXCEPT ![n] = SubSeq(Log(n), 1, k) \o tail]

Crash(n) ==
    /\ Loaded(n) /\ crashes < MaxCrashes
    /\ Dies(n, "dead")
    /\ crashes' = crashes + 1
    /\ UNCHANGED <<raftVars, index, applied, saved, at, change>>

\* Mutant: raftMu is taken for reading only.
UnloadRaftAtOnce(n) ==
    /\ Loaded(n)
    /\ status' = [status EXCEPT ![n] = "removed"]
    /\ UNCHANGED <<raftVars, index, applied, saved, callVars, crashes>>

\* unloadRaft waits for raftMu: for every call that holds it for reading.
UnloadRaft(n) ==
    /\ Loaded(n)
    /\ \A c \in Calls : ~(at[c] = n /\ InCall(c))
    /\ status' = [status EXCEPT ![n] = "removed"]
    /\ UNCHANGED <<raftVars, index, applied, saved, callVars, crashes>>

Next ==
    \/ \E c \in Calls : Call(c) \/ Propose(c) \/ ProposeFails(c) \/ Wait(c) \/ Timeout(c)
    \/ \E ch \in pending : Commit(ch) \/ Lose(ch)
    \/ \E n \in Nodes : \/ Apply(n) \/ ApplyDies(n) \/ TakeSnapshot(n) \/ Stray(n)
                        \/ LoadRaft(n) \/ StartOver(n) \/ Crash(n) \/ UnloadRaft(n)
    \/ \E n, m \in Nodes : ReceiveSnapshot(n, m)

Spec == Init /\ [][Next]_vars

\* The goroutine of a call runs on and its timer fires; the run loop of a node
\* that is up takes what is committed.
Fairness ==
    /\ \A c \in Calls : WF_vars(Propose(c) \/ ProposeFails(c)) /\ WF_vars(Wait(c))
                        /\ WF_vars(Timeout(c))
    /\ \A n \in Nodes : WF_vars(Apply(n) \/ ApplyDies(n))

FairSpec == Spec /\ Fairness
-----------------------------------------------------------------------------
(* Properties. *)

\* A replica's index is what the part of its log that it has applied builds from
\* an empty one, and so is its snapshot, up to its own index: whatever the order
\* of restarts, replays, snapshots taken, loaded and received (process, snapshot,
\* processSnapshot, RaftGroup.run and Start).  Replicas that applied the same
\* changes thus hold the same items.
ReplicasAgree ==
    \A n \in Nodes :
        /\ Loaded(n) => index[n] = Replay(SubSeq(Log(n), 1, applied[n]))
        /\ saved[n].items = Replay(SubSeq(Log(n), 1, saved[n].idx))

\* The partitions are "replicated across nodes in the cluster using Raft protocol"
\* (README.md:24): what two replicas apply at the same place of the log is the
\* same change.  It is not when a founder restarts (NewRaftGroup).
SameChanges ==
    \A n, m \in Nodes : \A i \in 1..Len(Log(n)) :
        i <= applied[n] /\ i <= applied[m] => Log(n)[i] = Log(m)[i]

\* A call that is past its check of partition.raft never finds it nil: unloadRaft
\* waits for it (raftMu), although the call may take five seconds.
RaftHeldInCall == \A c \in Calls : InCall(c) => Loaded(at[c])

\* The state's types, and the lock that a call holds (insert, update, remove).
CallInvariant == TypeOK /\ RaftHeldInCall

\* A committed change that ends the process which applies it ends the partition:
\* no replica ever gets past it, not by a restart and not by a snapshot of its own
\* or of another replica, and its proposer is never told a result (process, the
\* fatal errors of run).
Deadly(log, i) == ChangeKills(Replay(SubSeq(log, 1, i - 1)), log[i])

DeadlyForAll ==
    /\ \A n \in Nodes : \A i \in 1..Len(Log(n)) :
          Deadly(Log(n), i) => applied[n] < i /\ saved[n].idx < i
    /\ Intact => \A i \in 1..Len(rlog) :
          Deadly(rlog, i) => reply[rlog[i].call] \in {Nothing, Failed}

\* A client call that was made returns, whatever becomes of its proposal.
CallsReturn == \A c \in Calls : pc[c] = "created" ~> pc[c] = "done"

\* A replica that stays up applies every committed change.
CatchesUp ==
    \A n \in Nodes :
        status[n] = "running" ~> (status[n] # "running" \/ applied[n] = Len(Log(n)))

\* What the clients see is one index, changed by one call at a time.  A change
\* takes effect when raft commits it.
Positions(c) == {i \in 1..Len(rlog) : rlog[i].call = c}

Service == INSTANCE IndexService WITH
    items <- Replay(rlog),
    effect <- [c \in Calls |->
                  IF Positions(c) = {} THEN Nothing
                  ELSE LET i == CHOOSE i \in Positions(c) : TRUE
                       IN  Result(Replay(SubSeq(rlog, 1, i - 1)), rlog[i])],
    asked <- change,
    intact <- Intact

\* A call that returns its result has changed the index exactly once, at one
\* moment, with that result, across timeouts, lost wake-ups, crashes, replays of
\* the log and snapshots; a refused call never has (proposeAndWaitForCommit).  It
\* is promised until a replica is started over.
ImplementsIndexService == Service!Spec
=============================================================================
