--------------------------- MODULE DatasetRequests ---------------------------
(***************************************************************************)
(* One request to a dataset that is not a search: a write of one item, a   *)
(* batch of writes, or the size (storage/dataset.go, called by             *)
(* services/data_manager.go).  The node that gets the request reads, in    *)
(* its own copy of the placement, where a partition is; the copies change  *)
(* while requests are on their way, each node at its own pace.             *)
(*                                                                         *)
(*  - A write is forwarded to a random replica, which routes it again.     *)
(*  - A batch is split by partition, a goroutine for each; a replica that  *)
(*    gets a part of a batch applies it without a look at the placement.   *)
(*  - The size is summed by a goroutine for each partition held elsewhere; *)
(*    the goroutines share the loop's variable with the loop.              *)
(*                                                                         *)
(* What a replica does with a write is PartitionReplicas' matter: here it  *)
(* refuses it, or proposes it, to be committed later or lost, whether its  *)
(* caller still waits or not, and whether or not it is told.               *)
(* Requests share no other state, so a behaviour has one of them.          *)
(***************************************************************************)
EXTENDS Naturals, Sequences, FiniteSets

CONSTANTS
    Nodes,
    Order,        \* the dataset's partitions, in the order of this.partitions
    Placements,   \* the placements in the order the zero group commits them
    Items,
    PartitionOf,  \* getPartitionForId
    Misfits,      \* the items whose vector has a wrong dimension
    LenOf,        \* the number of items in a partition
    MaxBatch      \* maxBatchRequestSize

Partitions == {Order[i] : i \in 1..Len(Order)}

ASSUME RequestsAssumption ==
    /\ IsFiniteSet(Nodes) /\ IsFiniteSet(Items)
    /\ Len(Order) \in Nat \ {0} /\ Len(Placements) \in Nat
    /\ \A v \in 1..Len(Placements) : Placements[v] \in [Partitions -> SUBSET Nodes]
    /\ PartitionOf \in [Items -> Partitions] /\ Misfits \subseteq Items
    /\ LenOf \in [Partitions -> Nat] /\ MaxBatch \in Nat

Indices == 1..Len(Order)

VARIABLES
    ver,        \* per node: how many placements it has applied; 0: it does not know the dataset
    down,       \* the nodes whose process died of a panic
    kind,       \* of the request: "none" yet, "write", "batch" or "size"
    at,         \* the node that handles it (the last one it was forwarded to)
    left,       \* the request's context is done
    answer,     \* what the client got: "none" yet, "ok" or "error"
    items,      \* the items of the request
    inflight,   \* the sets of items proposed to a partition's group
    took,       \* the items applied to an index
    denied,     \* the items an index refused (not found, exists already)
    step,       \* per partition: where its goroutine (of a write: the write) is
    out,        \* per partition: the items its goroutine will report in error
    received,   \* the receives the collector has counted
    errs,       \* the items the collector has in error
    cur,        \* size: which partition the loop's variable holds
    asked,      \* size: per goroutine, the node it will ask
    errorCh,    \* size: the channel
    sum,        \* size: the sum so far
    broken      \* history: on the way of the request an RPC broke, a dial failed, or
                \* the wait for raft ended before raft said what became of a proposal

sysVars == <<ver, down>>
dataVars == <<inflight, took, denied>>
sizeVars == <<cur, asked, errorCh, sum>>
batchVars == <<out, received, errs>>
vars == <<sysVars, kind, at, left, answer, items, dataVars, step, batchVars, sizeVars, broken>>

Running == {"routing", "proposing", "waiting", "dialled", "sending"}

\* The items with the right dimension, by partition.
Checked == items \ Misfits
Group(p) == {i \in Checked : PartitionOf[i] = p}
Parts == {PartitionOf[i] : i \in Checked}

TypeOK ==
    /\ ver \in [Nodes -> 0..Len(Placements)] /\ down \subseteq Nodes
    /\ kind \in {"none", "write", "batch", "size"} /\ at \in Nodes
    /\ left \in BOOLEAN /\ answer \in {"none", "ok", "error"}
    /\ items \subseteq Items /\ inflight \subseteq SUBSET Items
    /\ took \subseteq Items /\ denied \subseteq Items
    /\ step \in [Partitions -> {"unborn", "ended"} \cup Running]
    /\ out \in [Partitions -> SUBSET Items]
    /\ received \in 0..Len(Order) /\ errs \subseteq Items
    /\ cur \in 0..Len(Order) /\ asked \in [Partitions -> Nodes]
    /\ Len(errorCh) <= Len(Order) /\ sum \in Nat
    /\ broken \in BOOLEAN

Init ==
    /\ ver = [n \in Nodes |-> 0] /\ down = {}
    /\ kind = "none" /\ at \in Nodes /\ left = FALSE /\ answer = "none"
    /\ items = {} /\ inflight = {} /\ took = {} /\ denied = {}
    /\ step = [p \in Partitions |-> "unborn"]
    /\ out = [p \in Partitions |-> {}] /\ received = 0 /\ errs = {}
    /\ cur = 0 /\ asked = [p \in Partitions |-> at] /\ errorCh = <<>> /\ sum = 0
    /\ broken = FALSE

(***************************************************************************)
(* The placement, and the replicas.                                        *)
(***************************************************************************)
NodesOf(n, p) == Placements[ver[n]][p]
IsOnNode(n, p) == n \in NodesOf(n, p)
Knows(n) == n \notin down /\ ver[n] > 0

\* A node applies the next change of the placement.
AdvanceView(n) ==
    /\ ver[n] < Len(Placements) /\ n \notin down
    /\ ver' = [ver EXCEPT ![n] = @ + 1]
    /\ UNCHANGED <<down, kind, at, left, answer, items, dataVars, step, batchVars, sizeVars, broken>>

\* A committed proposal is applied: the index takes some items, denies others.
Commit(g) ==
    /\ \E refused \in SUBSET g :
         /\ took' = took \cup (g \ refused)
         /\ denied' = denied \cup refused
    /\ inflight' = inflight \ {g}
    /\ UNCHANGED <<sysVars, kind, at, left, answer, items, step, batchVars, sizeVars, broken>>

\* A proposal that raft accepted gets lost all the same (with its leader).
Lose(g) ==
    /\ inflight' = inflight \ {g}
    /\ UNCHANGED <<sysVars, kind, at, left, answer, items, took, denied, step, batchVars, sizeVars, broken>>

\* The client goes away or its deadline passes.
Leave ==
    /\ kind # "none" /\ answer = "none" /\ ~left
    /\ left' = TRUE
    /\ UNCHANGED <<sysVars, kind, at, answer, items, dataVars, step, batchVars, sizeVars, broken>>

\* rand.Intn(0): a partition without replicas kills the node that routes to it.
Panic(n) ==
    /\ down' = down \cup {n}
    /\ answer' = IF answer = "none" THEN "error" ELSE answer
    /\ step' = [p \in Partitions |-> "ended"]
    /\ UNCHANGED <<ver, kind, at, left, items, dataVars, batchVars, sizeVars, broken>>

Submit(k, b) ==
    /\ kind = "none" /\ at \notin down
    /\ kind' = k /\ items' = b
    /\ UNCHANGED <<sysVars, at, left, dataVars, out, received, sizeVars, broken>>

(***************************************************************************)
(* A write: Insert, Update, Remove.                                        *)
(***************************************************************************)
\* A vector of another dimension is refused at once.
SubmitWrite(i) ==
    /\ Submit("write", {i}) /\ errs' = {}
    /\ step' = [step EXCEPT ![PartitionOf[i]] = IF i \in Misfits THEN "ended" ELSE "routing"]
    /\ answer' = IF i \in Misfits THEN "error" ELSE answer

\* The write ends where it is, and the answer goes back unless the way broke.
Answer(p, a) ==
    /\ answer' = IF answer = "none" THEN a ELSE answer
    /\ step' = [step EXCEPT ![p] = "ended"]

Forward(p) ==
    \E m \in NodesOf(at, p) :
      \/ /\ at' = m
         /\ UNCHANGED <<sysVars, kind, left, answer, items, dataVars, step, batchVars, sizeVars, broken>>
      \* getDataManagerClient failed: "return nil", for the caller a success.
      \/ /\ Answer(p, "ok") /\ broken' = TRUE
         /\ UNCHANGED <<sysVars, kind, at, left, items, dataVars, batchVars, sizeVars>>

RouteWrite(p) ==
    /\ kind = "write" /\ step[p] = "routing"
    /\ IF ~Knows(at)
       THEN /\ Answer(p, "error")
            /\ UNCHANGED <<sysVars, kind, at, left, items, dataVars, batchVars, sizeVars, broken>>
       ELSE IF IsOnNode(at, p)
       THEN /\ step' = [step EXCEPT ![p] = "proposing"]
            /\ UNCHANGED <<sysVars, kind, at, left, answer, items, dataVars, batchVars, sizeVars, broken>>
       ELSE IF NodesOf(at, p) = {} THEN Panic(at) ELSE Forward(p)

\* raft.Propose returns an error: nothing was proposed (raft is not loaded, or
\* drops it), or the time ran out while raft was taking the proposal.
NotProposed(p) ==
    \/ UNCHANGED <<inflight, broken>>
    \/ inflight' = inflight \cup {Group(p)} /\ broken' = TRUE

\* The replica refuses ...
RefuseWrite(p) ==
    /\ kind = "write" /\ step[p] = "proposing"
    /\ Answer(p, "error") /\ NotProposed(p)
    /\ UNCHANGED <<sysVars, kind, at, left, items, took, denied, batchVars, sizeVars>>

\* ... or proposes it, to wait for the change to be applied.
Propose(p) ==
    /\ kind \in {"write", "batch"} /\ step[p] = "proposing"
    /\ step' = [step EXCEPT ![p] = "waiting"]
    /\ inflight' = inflight \cup {Group(p)}
    /\ UNCHANGED <<sysVars, kind, at, left, answer, items, took, denied, batchVars, sizeVars, broken>>

\* Mutant: the error the index gave is dropped.
WriteAppliedOk(p) ==
    /\ kind = "write" /\ step[p] = "waiting" /\ Group(p) \subseteq took \cup denied
    /\ Answer(p, "ok")
    /\ UNCHANGED <<sysVars, kind, at, left, items, dataVars, batchVars, sizeVars, broken>>

\* The replica is told the index's result, if it waits by then (Notify does not).
WriteApplied(p) ==
    /\ kind = "write" /\ step[p] = "waiting" /\ Group(p) \subseteq took \cup denied
    /\ Answer(p, IF Group(p) \subseteq took THEN "ok" ELSE "error")
    /\ UNCHANGED <<sysVars, kind, at, left, items, dataVars, batchVars, sizeVars, broken>>

\* A connection breaks somewhere on the way back to the client, which gets an
\* error; the nodes further on do not notice.
BreakWrite ==
    /\ kind = "write" /\ answer = "none"
    /\ answer' = "error" /\ broken' = TRUE
    /\ UNCHANGED <<sysVars, kind, at, left, items, dataVars, step, batchVars, sizeVars>>

(***************************************************************************)
(* A batch: BatchInsert, BatchUpdate, BatchRemove.                         *)
(***************************************************************************)
\* A batch that is too large, or of an unknown dataset, is refused; a misfit is an error of its own (of a
\* BatchRemove there are none); each other partition gets a goroutine.
SubmitBatch(b) ==
    /\ Submit("batch", b)
    /\ IF ver[at] = 0 \/ Cardinality(b) > MaxBatch
       THEN answer' = "error" /\ UNCHANGED <<step, errs>>
       ELSE LET parts == {PartitionOf[i] : i \in b \ Misfits} IN
            /\ errs' = b \cap Misfits
            /\ step' = [p \in Partitions |-> IF p \in parts THEN "routing" ELSE step[p]]
            /\ answer' = IF parts = {} THEN "ok" ELSE answer

\* errorToPartitionBatchResult, or what the replica answered.
Report(p, bad) ==
    /\ step' = [step EXCEPT ![p] = "sending"]
    /\ out' = [out EXCEPT ![p] = bad]

\* Mutant: there is no proposalTimeout.
GiveUpOnLeave(p) ==
    /\ step[p] = "waiting" /\ left /\ broken' = TRUE
    /\ \/ kind = "write" /\ Answer(p, "error") /\ UNCHANGED out
       \/ kind = "batch" /\ Report(p, Group(p)) /\ UNCHANGED answer
    /\ UNCHANGED <<sysVars, kind, at, left, items, dataVars, received, errs, sizeVars>>

\* proposalTimeout, or the request's context, ends the wait for the result, which
\* may be that of a proposal applied by now.
GiveUp(p) ==
    /\ step[p] = "waiting" /\ broken' = TRUE
    /\ \/ kind = "write" /\ Answer(p, "error") /\ UNCHANGED out
       \/ kind = "batch" /\ Report(p, Group(p)) /\ UNCHANGED answer
    /\ UNCHANGED <<sysVars, kind, at, left, items, dataVars, received, errs, sizeVars>>

\* A part of a batch goes to a replica, which looks at its own placement for
\* the partition's existence only.
RoutePart(p) ==
    /\ kind = "batch" /\ step[p] = "routing"
    /\ IF IsOnNode(at, p)
       THEN /\ step' = [step EXCEPT ![p] = "proposing"]
            /\ UNCHANGED <<sysVars, kind, at, left, answer, items, dataVars, out, received, errs, sizeVars, broken>>
       ELSE IF NodesOf(at, p) = {} THEN Panic(at)
       ELSE \/ /\ \E m \in NodesOf(at, p) : Knows(m)
               /\ step' = [step EXCEPT ![p] = "proposing"]
               /\ UNCHANGED <<sysVars, kind, at, left, answer, items, dataVars, out, received, errs, sizeVars, broken>>
            \* The dial failed, or the replica does not know the dataset.
            \/ /\ Report(p, Group(p))
               /\ UNCHANGED <<sysVars, kind, at, left, answer, items, dataVars, received, errs, sizeVars, broken>>

RefusePart(p) ==
    /\ kind = "batch" /\ step[p] = "proposing"
    /\ Report(p, Group(p)) /\ NotProposed(p)
    /\ UNCHANGED <<sysVars, kind, at, left, answer, items, took, denied, received, errs, sizeVars>>

PartApplied(p) ==
    /\ kind = "batch" /\ step[p] = "waiting" /\ Group(p) \subseteq took \cup denied
    /\ Report(p, Group(p) \cap denied)
    /\ UNCHANGED <<sysVars, kind, at, left, answer, items, dataVars, received, errs, sizeVars, broken>>

\* The connection to the replica breaks or the context is done: an error for
\* every item, and the replica may propose the items all the same.
BreakPart(p) ==
    /\ kind = "batch" /\ step[p] \in {"proposing", "waiting"}
    /\ Report(p, Group(p)) /\ broken' = TRUE
    /\ \/ UNCHANGED inflight
       \/ step[p] = "proposing" /\ ~IsOnNode(at, p) /\ inflight' = inflight \cup {Group(p)}
    /\ UNCHANGED <<sysVars, kind, at, left, answer, items, took, denied, received, errs, sizeVars>>

\* Mutant: the collector keeps the last result only.
CollectPartLast(p) ==
    /\ kind = "batch" /\ answer = "none" /\ step[p] = "sending"
    /\ errs' = out[p]
    /\ received' = received + 1
    /\ step' = [step EXCEPT ![p] = "ended"]
    /\ answer' = IF received' = Cardinality(Parts) THEN "ok" ELSE answer
    /\ UNCHANGED <<sysVars, kind, at, left, items, dataVars, out, sizeVars, broken>>

\* resultCh has no buffer: a goroutine is held until the collector receives.
CollectPart(p) ==
    /\ kind = "batch" /\ answer = "none" /\ step[p] = "sending"
    /\ errs' = errs \cup out[p]
    /\ received' = received + 1
    /\ step' = [step EXCEPT ![p] = "ended"]
    /\ answer' = IF received' = Cardinality(Parts) THEN "ok" ELSE answer
    /\ UNCHANGED <<sysVars, kind, at, left, items, dataVars, out, sizeVars, broken>>

\* The collector returns when the context is done, and leaves the others.
CollectorLeaves ==
    /\ answer = "none" /\ left
    /\ kind = "batch" \/ (kind = "size" /\ cur = Len(Order))
    /\ answer' = "error"
    /\ UNCHANGED <<sysVars, kind, at, left, items, dataVars, step, batchVars, sizeVars, broken>>

(***************************************************************************)
(* The size: SizeInfo and PartitionInfo.                                   *)
(***************************************************************************)
SubmitSize ==
    /\ Submit("size", {}) /\ ver[at] > 0
    /\ UNCHANGED <<answer, step, errs>>

\* One turn of the loop: a partition held here is counted at once, another
\* gets a goroutine, which will read the loop's variable when it runs.
SizeTurn ==
    /\ kind = "size" /\ cur < Len(Order) /\ at \notin down
    /\ cur' = cur + 1
    /\ LET p == Order[cur + 1] IN
       IF IsOnNode(at, p)
       THEN sum' = sum + LenOf[p] /\ errorCh' = Append(errorCh, "nil") /\ UNCHANGED step
       ELSE step' = [step EXCEPT ![p] = "routing"] /\ UNCHANGED <<errorCh, sum>>
    /\ UNCHANGED <<sysVars, kind, at, left, answer, items, dataVars, batchVars, asked, broken>>

\* A goroutine picks a replica of the partition the variable holds by now ...
SizePick(p) ==
    /\ kind = "size" /\ step[p] = "routing"
    /\ LET nodes == NodesOf(at, Order[cur]) IN
       IF nodes = {} THEN Panic(at)
       ELSE \/ /\ \E m \in nodes : asked' = [asked EXCEPT ![p] = m]
               /\ step' = [step EXCEPT ![p] = "dialled"]
               /\ UNCHANGED <<sysVars, kind, at, left, answer, items, dataVars, batchVars, cur, errorCh, sum, broken>>
            \* the dial fails
            \/ /\ errorCh' = Append(errorCh, "error")
               /\ step' = [step EXCEPT ![p] = "ended"]
               /\ UNCHANGED <<sysVars, kind, at, left, answer, items, dataVars, batchVars, cur, asked, sum, broken>>

\* ... and asks it for the partition the variable holds now.  The replica
\* answers if it knows the dataset and has the partition (PartitionInfo);
\* nothing is sent to the channel then.  Any RPC may fail.
SizeAsk(p) ==
    /\ kind = "size" /\ step[p] = "dialled"
    /\ step' = [step EXCEPT ![p] = "ended"]
    /\ LET q == Order[cur] IN
       \/ /\ Knows(asked[p]) /\ IsOnNode(asked[p], q)
          /\ sum' = sum + LenOf[q] /\ UNCHANGED errorCh
       \/ errorCh' = Append(errorCh, "error") /\ UNCHANGED sum
    /\ UNCHANGED <<sysVars, kind, at, left, answer, items, dataVars, batchVars, cur, asked, broken>>

\* Mutant: a goroutine is counted as done before its RPC.
SizeClosedEarly == \A p \in Partitions : step[p] # "routing"

\* The channel is closed when the goroutines are done (wg.Wait).
SizeClosed == \A p \in Partitions : step[p] \notin Running

\* As many receives as there are partitions; a closed channel gives nil.
SizeReceive ==
    /\ kind = "size" /\ cur = Len(Order) /\ answer = "none"
    /\ errorCh # <<>> \/ SizeClosed
    /\ received' = received + 1
    /\ errorCh' = IF errorCh = <<>> THEN errorCh ELSE Tail(errorCh)
    /\ answer' = IF errorCh # <<>> /\ Head(errorCh) = "error" THEN "error"
                 ELSE IF received' = Len(Order) THEN "ok" ELSE "none"
    /\ UNCHANGED <<sysVars, kind, at, left, items, dataVars, step, out, errs, cur, asked, sum, broken>>

Next ==
    \/ \E n \in Nodes : AdvanceView(n)
    \/ \E g \in inflight : Commit(g) \/ Lose(g)
    \/ Leave
    \/ \E i \in Items : SubmitWrite(i)
    \/ \E p \in Partitions :
         \/ RouteWrite(p) \/ RefuseWrite(p) \/ Propose(p) \/ WriteApplied(p) \/ GiveUp(p)
         \/ RoutePart(p) \/ RefusePart(p) \/ PartApplied(p) \/ BreakPart(p) \/ CollectPart(p)
         \/ SizePick(p) \/ SizeAsk(p)
    \/ BreakWrite
    \/ \E b \in SUBSET Items : SubmitBatch(b)
    \/ CollectorLeaves
    \/ SubmitSize \/ SizeTurn \/ SizeReceive

Spec == Init /\ [][Next]_vars

\* Goroutines run, timers fire, and every node applies the placements the zero
\* group has committed.  Nothing is assumed of what raft does with a proposal.
Fairness ==
    /\ \A n \in Nodes : WF_vars(AdvanceView(n))
    /\ \A p \in Partitions :
         /\ WF_vars(RouteWrite(p)) /\ WF_vars(Propose(p)) /\ WF_vars(GiveUp(p))
         /\ WF_vars(RoutePart(p)) /\ WF_vars(CollectPart(p))
         /\ WF_vars(SizePick(p)) /\ WF_vars(SizeAsk(p))
    /\ WF_vars(SizeTurn) /\ WF_vars(SizeReceive)

FairSpec == Spec /\ Fairness

(***************************************************************************)
(* Properties.                                                             *)
(***************************************************************************)
\* What a write's answer says (dataset.go:172-236, proposeAndWaitForCommit).  A
\* success means that the item is in the index, unless a node on the way could not
\* dial the next one and called that a success.  An error means that the item is
\* not in the index and will not get there, unless an RPC broke or the wait for
\* raft ended undecided: of those errors the client learns nothing.
WriteAnswered ==
    kind = "write" /\ answer # "none" /\ ~broken =>
      /\ answer = "ok" => items \subseteq took
      /\ answer = "error" => items \cap took = {} /\ inflight = {}

\* What a batch's answer says (dataset.go:549-625): an item without
\* an error was applied, whatever happened to the other partitions, and no
\* item is left out; unless an RPC broke or a wait for raft ended undecided, an
\* item in error was not applied.
BatchAnswered ==
    kind = "batch" /\ answer = "ok" =>
      /\ items \ errs \subseteq took
      /\ ~broken => errs \cap took = {} /\ inflight = {}

\* The state's types, and what the answer to a write or a batch says
\* (proposeAndWaitForCommit's error or result, on its way back to the client).
AnswerInvariant == TypeOK /\ WriteAnswered /\ BatchAnswered

\* What a size's answer says (dataset.go:103-157): without an error every
\* goroutine was answered, each by a partition counted once, if no goroutine's
\* partition is followed by another in the order; after that one the loop's
\* variable has moved on, and a partition may be counted twice, another never.
Sum[i \in 0..Len(Order)] == IF i = 0 THEN 0 ELSE Sum[i - 1] + LenOf[Order[i]]
SizeAnswered ==
    kind = "size" /\ answer = "ok" =>
      /\ SizeClosed
      /\ (\A i \in Indices : step[Order[i]] = "ended" => i = Len(Order)) => sum = Sum[Len(Order)]

\* A request is answered although it is routed by placements that differ, and
\* the goroutines it started end, unless its client has gone away
\* (dataset.go:182, :551-573).
RequestsReturn ==
    kind # "none" ~>
      /\ answer # "none"
      /\ left \/ \A p \in Partitions : step[p] \notin Running

\* The claim of the README: what was acknowledged is replicated.
AcknowledgedIsKept == kind = "write" /\ answer = "ok" => items \subseteq took
=============================================================================
