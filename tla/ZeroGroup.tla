------------------------------ MODULE ZeroGroup ------------------------------
(***************************************************************************)
(* The zero group: the raft group every node belongs to, whose log holds   *)
(* the members (with their addresses), the datasets and the placements.    *)
(*                                                                         *)
(*  - server.go: a node starts the group's run loop, and registers the     *)
(*    functions that apply the log afterwards, while the loop may run;     *)
(*  - storage/raft/group.go: entries are applied, snapshots made, sent and *)
(*    installed; storage/raft/shared_group.go: the functions are looked up *)
(*    by name when an entry is applied;                                    *)
(*  - storage/dataset_manager.go: what an entry or a snapshot does to the  *)
(*    datasets;                                                            *)
(*  - storage/raft/nodes_manager.go: a node joins through any other, which *)
(*    streams it the addresses it knows.                                   *)
(*                                                                         *)
(* The consensus is etcd's: the log is one sequence, and a node's WAL holds *)
(* a prefix of it, or a snapshot and what follows.  The first node is      *)
(* started as Boot, the others with -join, and all again with -join=false  *)
(* (Makefile); a node that is not serving yet receives no messages.        *)
(***************************************************************************)
EXTENDS Naturals, Sequences, FiniteSets

CONSTANTS
    Nodes, Boot, Datasets,
    Offset,          \* snapshotOffset: the entries between two snapshots
    MaxLog, MaxCrashes, MaxSnapshots

ASSUME ZeroGroupAssumption ==
    /\ IsFiniteSet(Nodes) /\ Boot \in Nodes /\ IsFiniteSet(Datasets)
    /\ Offset \in Nat /\ MaxLog \in Nat \ {0} /\ MaxCrashes \in Nat /\ MaxSnapshots \in Nat

VARIABLES
    zlog,       \* the committed entries
    stage,      \* per node: "dead" (it dies at every start), or how far its start has
                \* got: "group" (loop started), "proxy" (Get("datasets")), "serving"
    have,       \* per node: how much of zlog is in its WAL
    snap,       \* per node: the snapshot in its WAL
    applied,    \* per node: lastAppliedIdx
    members,    \* per node: raft's own configuration
    confState,  \* per node: raftConfState, NoConf before the first change is processed
    datasets,   \* per node: the dataset manager's map, a dataset's placement or Absent
    addresses,  \* per node: the addresses of clusterConn
    stream,     \* per node: the addresses AddNode is sending it
    exact,      \* history, per node: nothing but complete changes made its datasets
    installed,  \* history, per node: "no" snapshot was installed; "stale": one was, and no change
                \* of members was processed since; "refreshed": one was; "wrong": a stale one
    introduced, \* history, per node: a stream told it addresses
    crashes, snapshots

logVars == <<zlog, have, snap>>
raftVars == <<applied, members, confState, installed>>
vars == <<logVars, stage, raftVars, datasets, addresses, stream, exact, introduced, crashes, snapshots>>

\* raftConfState is nil (a configuration is never empty); a dataset's placement
\* is 0 while there is no dataset, then the number of changes made to it.
NoConf == {}
Absent == 0
NoAddress == [m \in Nodes |-> "none"]
NoDatasets == [d \in Datasets |-> Absent]
NoSnapshot == [idx |-> 0, members |-> {}, datasets |-> NoDatasets, exact |-> TRUE, stale |-> FALSE]

Join(m) == [type |-> "join", node |-> m]
LeaveEntry(m) == [type |-> "leave", node |-> m]
Create(d) == [type |-> "create", dataset |-> d]
Delete(d) == [type |-> "delete", dataset |-> d]
Move(d) == [type |-> "move", dataset |-> d]
Entries ==
    {Join(m) : m \in Nodes} \cup {LeaveEntry(m) : m \in Nodes}
      \cup {Create(d) : d \in Datasets} \cup {Delete(d) : d \in Datasets} \cup {Move(d) : d \in Datasets}
IsConf(e) == e.type \in {"join", "leave"}

Up(n) == stage[n] # "dead"

(***************************************************************************)
(* What an entry does: to a set of members, to the datasets.               *)
(***************************************************************************)
MembersAfter(e, ms) ==
    IF e.type = "join" THEN ms \cup {e.node} ELSE IF e.type = "leave" THEN ms \ {e.node} ELSE ms

\* createDataset, deleteDataset, updatePartitionNodes.
DatasetsAfter(e, ds) ==
    CASE e.type = "create" -> IF ds[e.dataset] = Absent THEN [ds EXCEPT ![e.dataset] = 1] ELSE ds
      [] e.type = "delete" -> [ds EXCEPT ![e.dataset] = Absent]
      [] e.type = "move" -> IF ds[e.dataset] = Absent THEN ds ELSE [ds EXCEPT ![e.dataset] = @ + 1]
      [] OTHER -> ds

MembersAt[i \in 0..MaxLog] == IF i = 0 THEN {} ELSE MembersAfter(zlog[i], MembersAt[i - 1])
DatasetsAt[i \in 0..MaxLog] == IF i = 0 THEN NoDatasets ELSE DatasetsAfter(zlog[i], DatasetsAt[i - 1])

TypeOK ==
    /\ zlog \in Seq(Entries) /\ Len(zlog) <= MaxLog
    /\ stage \in [Nodes -> {"dead", "group", "proxy", "serving"}]
    /\ \A n \in Nodes :
         /\ have[n] \in 0..Len(zlog) /\ applied[n] \in 0..have[n]
         /\ snap[n].idx \in 0..have[n]
         /\ members[n] \subseteq Nodes /\ confState[n] \subseteq Nodes
         /\ \A d \in Datasets : datasets[n][d] \in 0..MaxLog
    /\ addresses \in [Nodes -> [Nodes -> {"none", "blank", "right"}]]
    /\ \A n \in Nodes : stream[n] # <<>> => stream[n][1] \in [Nodes -> {"none", "blank", "right"}]
    /\ exact \in [Nodes -> BOOLEAN] /\ installed \in [Nodes -> {"no", "stale", "refreshed", "wrong"}]
    /\ introduced \in [Nodes -> BOOLEAN] /\ crashes \in 0..MaxCrashes
    /\ snapshots \in 0..MaxSnapshots

\* Boot was started with raft.StartNode and itself as the only peer: the first
\* entry adds it, with an empty context.  Every node has started once: with an
\* empty WAL there is nothing to apply or to receive before a node serves.
Init ==
    /\ zlog = <<Join(Boot)>>
    /\ stage = [n \in Nodes |-> "serving"]
    /\ have = [n \in Nodes |-> IF n = Boot THEN 1 ELSE 0]
    /\ snap = [n \in Nodes |-> NoSnapshot]
    /\ applied = [n \in Nodes |-> 0]
    /\ members = [n \in Nodes |-> IF n = Boot THEN {Boot} ELSE {}]
    /\ confState = [n \in Nodes |-> NoConf]
    /\ datasets = [n \in Nodes |-> NoDatasets]
    /\ addresses = [n \in Nodes |-> [NoAddress EXCEPT ![n] = "right"]]
    /\ stream = [n \in Nodes |-> <<>>]
    /\ exact = [n \in Nodes |-> TRUE] /\ installed = [n \in Nodes |-> "no"]
    /\ introduced = [n \in Nodes |-> FALSE] /\ crashes = 0 /\ snapshots = 0

(***************************************************************************)
(* Starting and stopping a node: setup in server.go.                       *)
(***************************************************************************)
\* The process is gone, with what was not in the WAL, and started again: the
\* time it is down is time in which it takes no step.  A snapshot in the WAL is
\* loaded by Start, before there is a proxy to load it: the node dies of it.
Restart(n) ==
    /\ stage' = [stage EXCEPT ![n] = IF snap[n].idx > 0 THEN "dead" ELSE "group"]
    /\ applied' = [applied EXCEPT ![n] = 0]
    /\ members' = [members EXCEPT ![n] = {}]
    /\ confState' = [confState EXCEPT ![n] = NoConf]
    /\ datasets' = [datasets EXCEPT ![n] = NoDatasets]
    /\ addresses' = [addresses EXCEPT ![n] = [NoAddress EXCEPT ![n] = "right"]]
    /\ stream' = [stream EXCEPT ![n] = <<>>]
    /\ exact' = [exact EXCEPT ![n] = TRUE] /\ installed' = [installed EXCEPT ![n] = "no"]
    /\ introduced' = [introduced EXCEPT ![n] = FALSE]
    /\ UNCHANGED <<logVars, snapshots>>

Crash(n) ==
    /\ Up(n) /\ crashes < MaxCrashes
    /\ crashes' = crashes + 1
    /\ Restart(n)

\* sharedGroup.Get("datasets"), then NewDatasetManager's registrations and the
\* server of the gRPC services.
Register(n) ==
    /\ stage[n] \in {"group", "proxy"}
    /\ stage' = [stage EXCEPT ![n] = IF @ = "group" THEN "proxy" ELSE "serving"]
    /\ UNCHANGED <<logVars, raftVars, datasets, addresses, stream, exact, introduced, crashes, snapshots>>

(***************************************************************************)
(* The run loop (group.go).                                                *)
(***************************************************************************)
Learn(n, m, a) ==
    addresses' = [addresses EXCEPT ![n][m] = IF @ = "none" THEN a ELSE @]

Processed(n) ==
    /\ applied[n] < have[n] /\ Up(n)
    /\ applied' = [applied EXCEPT ![n] = @ + 1]
    /\ UNCHANGED <<logVars, stream, introduced, crashes, snapshots>>

\* Mutant: the proposal to join does not carry the address.
ProcessConfChangeBlank(n) ==
    LET e == zlog[applied[n] + 1] IN
    /\ Processed(n) /\ IsConf(e)
    /\ members' = [members EXCEPT ![n] = MembersAfter(e, @)]
    /\ confState' = [confState EXCEPT ![n] = members'[n]]
    /\ installed' = [installed EXCEPT ![n] = IF @ = "stale" THEN "refreshed" ELSE @]
    /\ IF e.type = "join" THEN Learn(n, e.node, "blank")
       ELSE addresses' = [addresses EXCEPT ![n][e.node] = "none"]
    /\ UNCHANGED <<stage, datasets, exact>>

\* Mutant: the configuration is read before the change is applied to it.
ProcessConfChangeOld(n) ==
    LET e == zlog[applied[n] + 1] IN
    /\ Processed(n) /\ IsConf(e)
    /\ members' = [members EXCEPT ![n] = MembersAfter(e, @)]
    /\ confState' = [confState EXCEPT ![n] = members[n]]
    /\ installed' = [installed EXCEPT ![n] = IF @ = "stale" THEN "refreshed" ELSE @]
    /\ IF e.type = "join"
       THEN Learn(n, e.node, IF applied[n] = 0 THEN "blank" ELSE "right")
       ELSE addresses' = [addresses EXCEPT ![n][e.node] = "none"]
    /\ UNCHANGED <<stage, datasets, exact>>

\* processConfChange: the address comes with the entry, which for Boot's own is
\* blank; clusterConn keeps the address it knows.
ProcessConfChange(n) ==
    LET e == zlog[applied[n] + 1] IN
    /\ Processed(n) /\ IsConf(e)
    /\ members' = [members EXCEPT ![n] = MembersAfter(e, @)]
    /\ confState' = [confState EXCEPT ![n] = members'[n]]
    /\ installed' = [installed EXCEPT ![n] = IF @ = "stale" THEN "refreshed" ELSE @]
    /\ IF e.type = "join"
       THEN Learn(n, e.node, IF applied[n] = 0 THEN "blank" ELSE "right")
       ELSE addresses' = [addresses EXCEPT ![n][e.node] = "none"]
    /\ UNCHANGED <<stage, datasets, exact>>

\* sharedGroup.process: an entry without a proxy is dropped ...
DropEntry(n) ==
    /\ stage[n] = "group"
    /\ Processed(n) /\ ~IsConf(zlog[applied[n] + 1])
    /\ exact' = [exact EXCEPT ![n] = FALSE]
    /\ UNCHANGED <<stage, members, confState, installed, datasets, addresses>>

\* Mutant: an entry is skipped while the proxy has no function.
ProcessNilSkips(n) ==
    /\ stage[n] = "proxy"
    /\ Processed(n) /\ ~IsConf(zlog[applied[n] + 1])
    /\ UNCHANGED <<stage, members, confState, installed, datasets, addresses, exact>>

\* ... a proxy without its function is a nil call, and the process dies ...
ProcessNil(n) ==
    /\ stage[n] = "proxy" /\ applied[n] < have[n] /\ ~IsConf(zlog[applied[n] + 1])
    /\ Restart(n)
    /\ UNCHANGED crashes

\* ... and otherwise the dataset manager applies it.
Process(n) ==
    /\ stage[n] = "serving"
    /\ Processed(n) /\ ~IsConf(zlog[applied[n] + 1])
    /\ datasets' = [datasets EXCEPT ![n] = DatasetsAfter(zlog[applied[n] + 1], @)]
    /\ UNCHANGED <<stage, members, confState, installed, addresses, exact>>

\* trySnapshot and CreateSnapshot: refused while raftConfState is nil.
TrySnapshot(n) ==
    /\ stage[n] = "serving" /\ confState[n] # NoConf
    /\ applied[n] > snap[n].idx + Offset /\ snapshots < MaxSnapshots
    /\ snapshots' = snapshots + 1
    /\ snap' = [snap EXCEPT ![n] = [idx |-> applied[n], members |-> confState[n], datasets |-> datasets[n],
                                    exact |-> exact[n], stale |-> installed[n] \in {"stale", "wrong"}]]
    /\ UNCHANGED <<zlog, stage, have, raftVars, datasets, addresses, stream, exact, introduced, crashes>>

(***************************************************************************)
(* Raft: what is committed, and what reaches another node.                 *)
(***************************************************************************)
\* A node with the whole log, as raft's leader would be, takes a proposal.  A
\* node that has entries to apply takes no more of them (Ready and Advance).
Commit(n, e) ==
    /\ stage[n] = "serving" /\ n \in members[n] /\ applied[n] = Len(zlog) /\ Len(zlog) < MaxLog
    /\ zlog' = Append(zlog, e)
    /\ have' = [have EXCEPT ![n] = Len(zlog) + 1]

\* The leader sends what follows n's log, once n can answer (or is new: the
\* first message needs no answer).
Deliver(n) ==
    /\ stage[n] = "serving" /\ applied[n] = have[n]
    /\ \E m \in Nodes \ {n} :
         /\ stage[m] = "serving" /\ n \in members[m] /\ addresses[m][n] = "right"
         /\ addresses[n][m] = "right" \/ have[n] = 0
         /\ have[m] > have[n] /\ snap[m].idx <= have[n]
    /\ have' = [have EXCEPT ![n] = @ + 1]
    /\ UNCHANGED <<zlog, snap, stage, raftVars, datasets, addresses, stream, exact, introduced, crashes, snapshots>>

\* The entries n lacks are compacted: it gets a snapshot.  processSnapshot adds
\* the datasets n does not know and leaves the others as they are; addresses
\* and raftConfState are not touched.
InstallSnapshot(n) ==
    /\ stage[n] = "serving"
    /\ \E m \in Nodes \ {n} :
         /\ stage[m] = "serving" /\ n \in members[m] /\ addresses[m][n] = "right"
         /\ addresses[n][m] = "right" \/ have[n] = 0
         /\ snap[m].idx > have[n]
         /\ snap' = [snap EXCEPT ![n] = snap[m]]
         /\ have' = [have EXCEPT ![n] = snap[m].idx]
         /\ applied' = [applied EXCEPT ![n] = snap[m].idx]
         /\ members' = [members EXCEPT ![n] = snap[m].members]
         /\ datasets' = [datasets EXCEPT ![n] = [d \in Datasets |-> IF @[d] = Absent THEN snap[m].datasets[d] ELSE @[d]]]
         /\ exact' = [exact EXCEPT ![n] = snap[m].exact /\ (exact[n] /\ datasets[n] = NoDatasets)]
         /\ installed' = [installed EXCEPT ![n] = IF snap[m].stale THEN "wrong" ELSE "stale"]
    /\ UNCHANGED <<zlog, stage, confState, addresses, stream, introduced, crashes, snapshots>>

(***************************************************************************)
(* Proposals: the dataset manager's, the allocator's, the nodes manager's. *)
(***************************************************************************)
ProposeChange(n) ==
    /\ \E d \in Datasets :
         \/ Create(d) \notin {zlog[i] : i \in 1..Len(zlog)} /\ Commit(n, Create(d))
         \/ datasets[n][d] # Absent /\ (Commit(n, Delete(d)) \/ Commit(n, Move(d)))
    /\ UNCHANGED <<snap, stage, raftVars, datasets, addresses, stream, exact, introduced, crashes, snapshots>>

\* NodesManager.AddNode at m, called by the joining node: the leader k commits the
\* entry, and the addresses that m, which may lag, knows at the moment are streamed.
\* (A proposal that is lost, or a stream that breaks, leads to another AddNode.)
AddNode(n, m) ==
    /\ stage[n] = "serving" /\ stage[m] = "serving" /\ m # n /\ n # Boot
    /\ stream[n] = <<>> /\ have[n] = 0
    /\ \E k \in Nodes : Commit(k, Join(n))
    /\ stream' = [stream EXCEPT ![n] = << [addresses[m] EXCEPT ![n] = "right"] >>]
    /\ UNCHANGED <<snap, stage, raftVars, datasets, addresses, exact, introduced, crashes, snapshots>>

\* tryJoin reads the stream to its end.
ReadStream(n) ==
    /\ stage[n] = "serving" /\ stream[n] # <<>>
    /\ addresses' = [addresses EXCEPT ![n] = [m \in Nodes |-> IF @[m] = "none" THEN stream[n][1][m] ELSE @[m]]]
    /\ stream' = [stream EXCEPT ![n] = <<>>]
    /\ introduced' = [introduced EXCEPT ![n] = TRUE]
    /\ UNCHANGED <<logVars, stage, raftVars, datasets, exact, crashes, snapshots>>

RemoveNode(n, m) ==
    /\ m \in members[n]
    /\ Commit(n, LeaveEntry(m))
    /\ UNCHANGED <<snap, stage, raftVars, datasets, addresses, stream, exact, introduced, crashes, snapshots>>

Next ==
    \E n \in Nodes :
      \/ Crash(n) \/ Register(n)
      \/ ProcessConfChange(n) \/ DropEntry(n) \/ ProcessNil(n) \/ Process(n) \/ TrySnapshot(n)
      \/ Deliver(n) \/ InstallSnapshot(n) \/ ProposeChange(n) \/ ReadStream(n)
      \/ \E m \in Nodes : AddNode(n, m) \/ RemoveNode(n, m)

Spec == Init /\ [][Next]_vars

(***************************************************************************)
(* Properties.                                                             *)
(***************************************************************************)
\* What a node knows of the others' addresses (conn.go:127-139,
\* group.go:260-269, nodes_manager.go:47-55).  Only Boot's can be wrong: it is
\* blank at a node that applied the first entry before, or without, a stream.
\* A member is missing only after a snapshot was installed, and an address
\* that belongs to no member came with a stream.
AddressesFollow ==
    \A n, m \in Nodes : Up(n) /\ n # m =>
      /\ addresses[n][m] = "blank" => m = Boot
      /\ (m \in MembersAt[applied[n]] /\ addresses[n][m] = "none") => installed[n] # "no"
      /\ (m \notin MembersAt[applied[n]] /\ addresses[n][m] # "none") => introduced[n] \/ installed[n] # "no"

\* The state's types, and what is known of the members.
ZeroInvariant == TypeOK /\ AddressesFollow

\* A node's datasets and placements are those of the log it has applied
\* (dataset_manager.go:186-238, :350-389), unless entries came before the functions were
\* registered (server.go:105), a snapshot was installed over datasets, or the
\* snapshot was made by such a node.
DatasetsFollow == \A n \in Nodes : Up(n) /\ exact[n] => datasets[n] = DatasetsAt[applied[n]]

\* The members a snapshot carries are those of its index (group.go:295), which
\* a restarted node and a new one take for theirs, unless its maker had itself
\* installed a snapshot and seen no change of members since.
SnapshotMembers == \A n \in Nodes : ~snap[n].stale => snap[n].members = MembersAt[snap[n].idx]
=============================================================================
