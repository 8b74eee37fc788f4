-------------------------- MODULE DatasetAllocation --------------------------
(***************************************************************************)
(* One node's view of which partitions exist and where their replicas are: *)
(* storage/dataset_manager.go, storage/allocator.go, the membership part   *)
(* of storage/partition.go and the notifications of cluster/conn.go.       *)
(*                                                                         *)
(* Two goroutines of the node are modelled.  The run loop of the zero group *)
(* (here: zero) applies the committed changes of datasets, partitions and  *)
(* cluster members, one after the other.  The allocator loads and unloads  *)
(* partitions it is told to watch and, when a member joins or leaves, asks *)
(* the zero group to change the partitions this node leads, and waits.     *)
(* They meet at partitionsMu, addressesMu, the unbuffered channel updatesC *)
(* and the buffered channel of membership notifications.                   *)
(*                                                                         *)
(* Raft and the other nodes are external: they commit changes in any order.*)
(***************************************************************************)
EXTENDS Naturals, FiniteSets, SequencesExt

CONSTANTS
    Nodes, Self,
    Datasets,
    Partitions,
    PartsOf,            \* the partitions of each dataset
    ReplicationFactor,
    NotificationCap,    \* capacity of the notification channel (10 in the code)
    MaxChanges          \* how many changes the environment commits (a bound)

\* The id of a partition is a fresh UUID: no two datasets share one.
ASSUME AllocationAssumption ==
    /\ IsFiniteSet(Nodes) /\ Self \in Nodes
    /\ PartsOf \in [Datasets -> SUBSET Partitions]
    /\ \A d, e \in Datasets : d # e => PartsOf[d] \cap PartsOf[e] = {}
    /\ NotificationCap \in Nat \ {0} /\ MaxChanges \in Nat

VARIABLES
    committed,  \* changes committed to the zero group, not yet applied here
    proposed,   \* the allocator's proposals that raft has not committed
    changes,    \* how many changes the environment has committed
    made,       \* the datasets ever created: an id is a fresh UUID
    datasets,   \* DatasetManager.datasets
    nodeIds,    \* partition.meta.NodeIds
    watched,    \* Allocator.partitions
    raft,       \* the partitions whose field raft is not nil
    groups,     \* the partitions whose raft group is registered and running
    addresses,  \* Conn.addresses
    notifs,     \* the allocator's channel of membership changes
    zero,       \* the zero group's run loop: where it is, with what
    alloc,      \* the allocator's goroutine: where it is, with what
    update,     \* updatesC: the update a blocked sender offers
    crashed,    \* the process panicked
    fixed       \* in this behaviour no member joins or leaves (it never changes)

vars == <<committed, proposed, changes, made, datasets, nodeIds, watched, raft, groups,
          addresses, notifs, zero, alloc, update, crashed, fixed>>

Nobody == [pc |-> "idle"]
NoUpdate == [kind |-> "none"]

Updates == [kind : {"add", "remove"}, part : Partitions, node : Nodes, mine : BOOLEAN]
MemberChanges == [kind : {"join", "leave"}, node : Nodes]
Orders == SetToAllKPermutations(Nodes) \ {<<>>}
Creations == [kind : {"create"}, dataset : Datasets, at : Orders]
Deletions == [kind : {"delete"}, dataset : Datasets]

Init ==
    /\ committed = <<>> /\ proposed = {} /\ changes = 0
    /\ made = {} /\ datasets = {}
    /\ nodeIds = [p \in Partitions |-> <<>>]
    /\ watched = {} /\ raft = {} /\ groups = {}
    /\ fixed \in BOOLEAN
    /\ addresses = IF fixed THEN Nodes ELSE {Self}
    /\ notifs = <<>>
    /\ zero = Nobody
    /\ alloc = [pc |-> "select"]
    /\ update = NoUpdate
    /\ crashed = FALSE

Assigned(p) == Self \in ToSet(nodeIds[p])

-----------------------------------------------------------------------------
(* Locks, as functions of where the two goroutines are. *)

\* The allocator holds partitionsMu for reading through the whole iteration.
AllocIterates == alloc.pc \in {"iterate", "propose", "proposed", "waiting", "joining"}
\* zero can take partitionsMu for writing (mutant: also while the allocator waits).
PartitionsFreeInWait == alloc.pc # "iterate"
PartitionsFree == ~AllocIterates
\* zero holds partitionsMu for writing while it offers an update.
ZeroHoldsPartitions == zero.pc = "offer"
\* zero holds addressesMu for writing while it sends a notification.
ZeroHoldsAddresses == zero.pc = "notify"

-----------------------------------------------------------------------------
(* Raft and the other nodes. *)

\* The members, the joins that are committed but not applied here included.
Members == addresses \cup {committed[i].node : i \in {j \in DOMAIN committed :
                                                    committed[j].kind = "join"}}

\* The replicas of p, applied here or only committed.
CreationsOf(p) == {c \in ToSet(committed) : c.kind = "create" /\ p \in PartsOf[c.dataset]}
Replicas(p) == ToSet(nodeIds[p])
               \cup UNION {ToSet(c.at) : c \in CreationsOf(p)}
               \cup {c.node : c \in {u \in ToSet(committed) : u.kind = "add" /\ u.part = p}}
LedElsewhere(p) == /\ nodeIds[p] # <<>> => Head(nodeIds[p]) # Self
                   /\ \A c \in CreationsOf(p) : Head(c.at) # Self

\* The environment's changes.  A client creates a dataset, at the nodes that
\* getPartitionsNodeIds shuffled on some member, or deletes one.  Other nodes join
\* and leave, and the allocators of others change the partitions that they lead.
\* This node itself stays.
External(c) ==
    CASE c.kind = "create" -> /\ c.dataset \notin made
                              /\ ToSet(c.at) \subseteq Members
                              /\ Len(c.at) <= ReplicationFactor
      [] c.kind = "delete" -> c.dataset \in made
      [] c.kind = "join" -> ~fixed
      [] c.kind = "leave" -> ~fixed /\ c.node \in Members \ {Self}
      [] c.kind \in {"add", "remove"} ->
            /\ ~fixed /\ ~c.mine
            /\ LedElsewhere(c.part) /\ \E d \in made : c.part \in PartsOf[d]
            /\ c.kind = "add" => c.node \in Members \ Replicas(c.part)
            /\ c.kind = "remove" => c.node # Self

CommitExternal ==
    /\ ~crashed
    /\ changes < MaxChanges
    /\ \E c \in Creations \cup Deletions \cup MemberChanges \cup Updates :
         /\ External(c)
         /\ committed' = Append(committed, c)
         /\ made' = IF c.kind = "create" THEN made \cup {c.dataset} ELSE made
    /\ changes' = changes + 1
    /\ UNCHANGED <<proposed, datasets, nodeIds, watched, raft, groups, addresses,
                   notifs, zero, alloc, update, crashed, fixed>>

CommitProposed ==
    /\ ~crashed
    /\ \E u \in proposed :
         /\ committed' = Append(committed, u)
         /\ proposed' = proposed \ {u}
    /\ UNCHANGED <<changes, made, datasets, nodeIds, watched, raft, groups, addresses,
                   notifs, zero, alloc, update, crashed, fixed>>

-----------------------------------------------------------------------------
(* loadRaft and unloadRaft, under raftMu.  A group that is registered cannot *)
(* be created again: the error is assigned along with a nil group.          *)

LoadRaftRemoves(p) ==    \* mutant: the error also removes the group that is there
    /\ groups' = IF p \in groups THEN groups \ {p} ELSE groups \cup {p}
    /\ raft' = IF p \in groups THEN raft \ {p} ELSE raft \cup {p}
LoadRaft(p) ==
    /\ groups' = groups \cup {p}
    /\ raft' = IF p \in groups THEN raft \ {p} ELSE raft \cup {p}

UnloadRaftKeepsGroup(p) == raft' = raft \ {p} /\ UNCHANGED groups    \* mutant
UnloadRaft(p) ==
    /\ groups' = IF p \in raft THEN groups \ {p} ELSE groups
    /\ raft' = raft \ {p}

-----------------------------------------------------------------------------
(* The zero group's run loop. *)

ZeroTakes(kind) == zero = Nobody /\ committed # <<>> /\ Head(committed).kind = kind

\* createDataset, with datasetsMu: the dataset is stored, its partitions are
\* given to the allocator.
ApplyCreate ==
    /\ ~crashed
    /\ ZeroTakes("create")
    /\ LET c == Head(committed)
       IN  IF c.dataset \in datasets
           THEN UNCHANGED <<datasets, nodeIds, zero>>
           ELSE /\ datasets' = datasets \cup {c.dataset}
                /\ nodeIds' = [p \in Partitions |-> IF p \in PartsOf[c.dataset] THEN c.at
                                                    ELSE nodeIds[p]]
                /\ zero' = [pc |-> "watch", todo |-> PartsOf[c.dataset]]
    /\ committed' = Tail(committed)
    /\ UNCHANGED <<proposed, changes, made, watched, raft, groups, addresses, notifs,
                   alloc, update, crashed>>

\* deleteDataset, with datasetsMu: the allocator is told to forget the partitions,
\* then the dataset is deleted, which nobody sees before datasetsMu is released.
ApplyDelete ==
    /\ ~crashed
    /\ ZeroTakes("delete")
    /\ LET c == Head(committed)
       IN  IF c.dataset \notin datasets
           THEN UNCHANGED <<datasets, zero>>
           ELSE /\ datasets' = datasets \ {c.dataset}
                /\ zero' = [pc |-> "unwatch", todo |-> PartsOf[c.dataset]]
    /\ committed' = Tail(committed)
    /\ UNCHANGED <<proposed, changes, made, nodeIds, watched, raft, groups, addresses,
                   notifs, alloc, update, crashed>>

\* The allocator's map after watch or unwatch (mutant: nothing is deleted).
WatchedForever(kind, p) == watched \cup {p}
WatchedAfter(kind, p) == IF kind = "watch" THEN watched \cup {p} ELSE watched \ {p}

\* Allocator.watch and unwatch take partitionsMu and, if it changes the map, send
\* on updatesC before they release it.
Watch ==
    /\ ~crashed
    /\ zero.pc \in {"watch", "unwatch"} /\ zero.todo # {}
    /\ PartitionsFree
    /\ \E p \in zero.todo :
         IF (zero.pc = "watch") = (p \in watched)
         THEN /\ zero' = [zero EXCEPT !.todo = @ \ {p}]
              /\ UNCHANGED <<watched, update>>
         ELSE /\ watched' = WatchedAfter(zero.pc, p)
              /\ update' = [kind |-> zero.pc, part |-> p]
              /\ zero' = [pc |-> "offer", back |-> zero.pc, todo |-> zero.todo \ {p}]
    /\ UNCHANGED <<committed, proposed, changes, made, datasets, nodeIds, raft, groups,
                   addresses, notifs, alloc, crashed>>

\* All partitions are handed over; datasetsMu is released.
Watched ==
    /\ ~crashed
    /\ zero.pc \in {"watch", "unwatch"} /\ zero.todo = {}
    /\ zero' = Nobody
    /\ UNCHANGED <<committed, proposed, changes, made, datasets, nodeIds, watched, raft,
                   groups, addresses, notifs, alloc, update, crashed>>

\* removeNode copies the other nodes' ids, in order.
Others(ids, n) ==
    LET kept[i \in 0..Len(ids)] ==
            IF i = 0 THEN <<>>
            ELSE IF ids[i] = n THEN kept[i - 1] ELSE Append(kept[i - 1], ids[i])
    IN  kept[Len(ids)]

\* updatePartitionNodes: addNode appends without looking whether the node is
\* there, removeNode filters; on this node the group is loaded or unloaded.  The
\* allocator that proposed it is notified, if it already waits.
ApplyUpdate ==
    /\ ~crashed
    /\ \E kind \in {"add", "remove"} : ZeroTakes(kind)
    /\ LET c == Head(committed)
           known == \E d \in datasets : c.part \in PartsOf[d]
       IN  /\ nodeIds' = IF ~known THEN nodeIds
                         ELSE [nodeIds EXCEPT ![c.part] =
                                  IF c.kind = "add" THEN Append(@, c.node)
                                  ELSE Others(@, c.node)]
           /\ CASE known /\ c.node = Self /\ c.kind = "add" -> LoadRaft(c.part)
                [] known /\ c.node = Self /\ c.kind = "remove" -> UnloadRaft(c.part)
                [] OTHER -> UNCHANGED <<raft, groups>>
           /\ alloc' = IF c.mine /\ alloc.pc = "waiting"
                       THEN [alloc EXCEPT !.pc = IF known THEN "joining" ELSE "iterate"]
                       ELSE alloc
    /\ committed' = Tail(committed)
    /\ UNCHANGED <<proposed, changes, made, datasets, watched, addresses, notifs, zero,
                   update, crashed>>

\* A conf change of the zero group: Conn.AddNode and RemoveNode change the
\* addresses with addressesMu, and send the notification without releasing it.
ApplyMember ==
    /\ ~crashed
    /\ \E kind \in {"join", "leave"} : ZeroTakes(kind)
    /\ LET c == Head(committed)
           news == c.kind = "join" <=> c.node \notin addresses
       IN  /\ addresses' = IF c.kind = "join" THEN addresses \cup {c.node}
                           ELSE addresses \ {c.node}
           /\ zero' = IF news THEN [pc |-> "notify", change |-> c] ELSE zero
    /\ committed' = Tail(committed)
    /\ UNCHANGED <<proposed, changes, made, datasets, nodeIds, watched, raft, groups,
                   notifs, alloc, update, crashed>>

SendNotification ==
    /\ ~crashed
    /\ zero.pc = "notify" /\ Len(notifs) < NotificationCap
    /\ notifs' = Append(notifs, zero.change)
    /\ zero' = Nobody
    /\ UNCHANGED <<committed, proposed, changes, made, datasets, nodeIds, watched, raft,
                   groups, addresses, alloc, update, crashed>>

-----------------------------------------------------------------------------
(* The allocator's goroutine. *)

\* It receives an update: the sender goes on.
ReceiveUpdate ==
    /\ ~crashed
    /\ alloc.pc = "select" /\ update # NoUpdate
    /\ alloc' = [pc |-> "update", kind |-> update.kind, part |-> update.part]
    /\ update' = NoUpdate
    /\ zero' = [pc |-> zero.back, todo |-> zero.todo]
    /\ UNCHANGED <<committed, proposed, changes, made, datasets, nodeIds, watched, raft,
                   groups, addresses, notifs, crashed>>

\* isPartitionAssignedToNode is evaluated now, not when the update was sent
\* (mutant: under partitionsMu).
LoadOrUnloadLocked(kind, p) ==
    /\ ~ZeroHoldsPartitions
    /\ IF kind = "watch" THEN LoadRaft(p) ELSE UnloadRaft(p)
LoadOrUnload(kind, p) ==
    CASE Assigned(p) /\ kind = "watch" -> LoadRaft(p)
      [] Assigned(p) /\ kind = "unwatch" -> UnloadRaft(p)
      [] OTHER -> UNCHANGED <<raft, groups>>

HandleUpdate ==
    /\ ~crashed
    /\ alloc.pc = "update"
    /\ LoadOrUnload(alloc.kind, alloc.part)
    /\ alloc' = [pc |-> "select"]
    /\ UNCHANGED <<committed, proposed, changes, made, datasets, nodeIds, watched,
                   addresses, notifs, zero, update, crashed>>

ReceiveNotification ==
    /\ ~crashed
    /\ alloc.pc = "select" /\ notifs # <<>>
    /\ alloc' = [pc |-> "lock", change |-> Head(notifs)]
    /\ notifs' = Tail(notifs)
    /\ UNCHANGED <<committed, proposed, changes, made, datasets, nodeIds, watched, raft,
                   groups, addresses, zero, update, crashed>>

\* addNodeToPartitions and removeNodeFromPartitions take partitionsMu for reading.
LockPartitions ==
    /\ ~crashed
    /\ alloc.pc = "lock"
    /\ ~ZeroHoldsPartitions
    /\ alloc' = [pc |-> "iterate", change |-> alloc.change, todo |-> watched]
    /\ UNCHANGED <<committed, proposed, changes, made, datasets, nodeIds, watched, raft,
                   groups, addresses, notifs, zero, update, crashed>>

\* canModifyPartition: the first replica leads; a partition without replicas is
\* led by whichever node NodeIds() lists first (a map has no order).
Leads(p) == IF nodeIds[p] # <<>> THEN {Head(nodeIds[p]) = Self}
            ELSE {Self = n : n \in addresses}

UnderReplicated(p) == Len(nodeIds[p]) < ReplicationFactor

Iterate ==
    /\ ~crashed
    /\ alloc.pc = "iterate" /\ alloc.todo # {}
    /\ \E p \in alloc.todo : \E leads \in Leads(p) :
         /\ nodeIds[p] = <<>> => ~ZeroHoldsAddresses
         /\ alloc' = [pc |-> IF leads /\ (alloc.change.kind = "leave" \/ UnderReplicated(p))
                             THEN "propose" ELSE "iterate",
                      change |-> alloc.change, todo |-> alloc.todo \ {p}, part |-> p]
    /\ UNCHANGED <<committed, proposed, changes, made, datasets, nodeIds, watched, raft,
                   groups, addresses, notifs, zero, update, crashed>>

\* proposeAddNode and proposeRemoveNode: raft takes the proposal, or fails and
\* the partition is left as it is.
ProposeUpdate ==
    /\ ~crashed
    /\ alloc.pc = "propose"
    /\ \/ /\ alloc' = [alloc EXCEPT !.pc = "proposed"]
          /\ proposed' = proposed \cup
                {[kind |-> IF alloc.change.kind = "join" THEN "add" ELSE "remove",
                  part |-> alloc.part, node |-> alloc.change.node, mine |-> TRUE]}
       \/ /\ alloc' = [alloc EXCEPT !.pc = "iterate"]
          /\ UNCHANGED proposed
    /\ UNCHANGED <<committed, changes, made, datasets, nodeIds, watched, raft, groups,
                   addresses, notifs, zero, update, crashed>>

\* Mutant: it does not wait.
WaitForNothing ==
    /\ ~crashed /\ alloc.pc = "proposed"
    /\ alloc' = [alloc EXCEPT !.pc = "iterate"]
    /\ UNCHANGED <<committed, proposed, changes, made, datasets, nodeIds, watched, raft, groups,
                   addresses, notifs, zero, update, crashed>>

\* It reaches the select in which it can be notified; there is no timeout.
WaitForCommit ==
    /\ ~crashed
    /\ alloc.pc = "proposed"
    /\ alloc' = [alloc EXCEPT !.pc = "waiting"]
    /\ UNCHANGED <<committed, proposed, changes, made, datasets, nodeIds, watched, raft,
                   groups, addresses, notifs, zero, update, crashed>>

\* The partition's own group is told of the change: partition.raft is used as it
\* is, without raftMu and without a check for nil.
ProposeToGroup ==
    /\ ~crashed
    /\ alloc.pc = "joining"
    /\ crashed' = (alloc.part \notin raft)
    /\ alloc' = [alloc EXCEPT !.pc = "iterate"]
    /\ UNCHANGED <<committed, proposed, changes, made, datasets, nodeIds, watched, raft,
                   groups, addresses, notifs, zero, update>>

UnlockPartitions ==
    /\ ~crashed
    /\ alloc.pc = "iterate" /\ alloc.todo = {}
    /\ alloc' = [pc |-> "select"]
    /\ UNCHANGED <<committed, proposed, changes, made, datasets, nodeIds, watched, raft,
                   groups, addresses, notifs, zero, update, crashed>>

-----------------------------------------------------------------------------
Zero == /\ \/ ApplyCreate \/ ApplyDelete \/ Watch \/ Watched \/ ApplyUpdate
           \/ ApplyMember \/ SendNotification
        /\ UNCHANGED fixed
Alloc == /\ \/ ReceiveUpdate \/ HandleUpdate \/ ReceiveNotification \/ LockPartitions
            \/ Iterate \/ ProposeUpdate \/ WaitForCommit \/ ProposeToGroup
            \/ UnlockPartitions
         /\ UNCHANGED fixed

Next == CommitExternal \/ CommitProposed \/ Zero \/ Alloc

Spec == Init /\ [][Next]_vars

\* Both goroutines run on whenever they are not blocked; raft commits.
FairSpec == Spec /\ WF_vars(Zero) /\ WF_vars(Alloc) /\ WF_vars(CommitProposed)

-----------------------------------------------------------------------------
(* Properties. *)

Offer == [kind : {"watch", "unwatch"}, part : Partitions]

\* Types.
TypeOK ==
    /\ ToSet(committed) \subseteq Creations \cup Deletions \cup MemberChanges \cup Updates
    /\ proposed \subseteq Updates
    /\ datasets \subseteq made /\ made \subseteq Datasets
    /\ \A p \in Partitions : ToSet(nodeIds[p]) \subseteq Nodes
    /\ watched \subseteq Partitions /\ groups \subseteq Partitions
    /\ raft \subseteq groups
    /\ addresses \subseteq Nodes
    /\ ToSet(notifs) \subseteq MemberChanges /\ Len(notifs) <= NotificationCap
    /\ zero.pc \in {"idle", "watch", "unwatch", "offer", "notify"}
    /\ alloc.pc \in {"select", "update", "lock", "iterate", "propose", "proposed",
                     "waiting", "joining"}
    /\ update \in Offer \cup {NoUpdate}
    /\ update # NoUpdate <=> zero.pc = "offer"
    /\ crashed \in BOOLEAN /\ fixed \in BOOLEAN

PartitionsOfDatasets == UNION {PartsOf[d] : d \in datasets}

\* Between two changes of the zero group, the allocator's map holds exactly the
\* partitions of the datasets that exist: watch and unwatch missed none.
WatchedExact == zero = Nobody => watched = PartitionsOfDatasets

\* The state's types, and what the allocator is told of (createDataset and
\* deleteDataset calling watch and unwatch).
AllocationInvariant == TypeOK /\ WatchedExact

\* When the allocator has handled its updates, every partition of this node has a
\* raft group, whichever of the allocator (createDataset) and the zero group
\* (addNode) came first to load it.
AssignedIsServed ==
    zero = Nobody /\ alloc.pc # "update"
        => \A p \in watched : Assigned(p) => p \in groups

\* The allocator asks for one change at a time: it never has two proposals in
\* raft or in the committed log, so none is applied on a decision that one of its
\* own unapplied changes has overtaken.
Mine == {i \in DOMAIN committed : committed[i].kind \in {"add", "remove"} /\ committed[i].mine}
OneChangeAtATime == Cardinality(proposed) + Cardinality(Mine) <= 1

\* partitionsMu is held through an iteration: addNodeToPartitions and
\* removeNodeFromPartitions never see the map change under them.
IterationStable == [][AllocIterates /\ AllocIterates' => watched' = watched]_vars

\* All changes are applied, and neither goroutine has anything left to do.
Settled == committed = <<>> /\ zero = Nobody /\ alloc.pc = "select"

\* With the cluster's members fixed, every committed change is applied: zero and the
\* allocator never block each other at partitionsMu and updatesC (watch, unwatch, run).
EverythingApplied == fixed /\ changes = MaxChanges ~> Settled

\* With the cluster's members fixed, the partitions of this node and no others end up
\* with a raft group, and partition.raft is the group that is registered, however
\* creations, deletions and the allocator's updates interleave (loadRaft, unloadRaft).
LoadedIffAssigned ==
    fixed /\ Settled => /\ groups = {p \in PartitionsOfDatasets : Assigned(p)}
               /\ raft = groups

\* The two goroutines never wait for each other: while zero waits for
\* partitionsMu or for the allocator to take an update or a notification, the
\* allocator does not wait for a change that only zero can apply.
NoMutualWait ==
    alloc.pc = "waiting"
        => ~\/ zero.pc \in {"watch", "unwatch"} /\ zero.todo # {}
            \/ zero.pc = "offer"
            \/ zero.pc = "notify" /\ Len(notifs) = NotificationCap
=============================================================================
