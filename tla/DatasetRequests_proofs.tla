------------------------ MODULE DatasetRequests_proofs ------------------------
(***************************************************************************)
(* Proof, for every placement, order of partitions and batch, of what the  *)
(* answer to a write, a batch or a size says (AnswerInvariant and          *)
(* SizeAnswered of DatasetRequests).                                       *)
(***************************************************************************)
EXTENDS DatasetRequests, FiniteSetTheorems, SequenceTheorems, WellFoundedInduction, TLAPS

-----------------------------------------------------------------------------
(* The inductive invariant: a part for each kind of request. *)

Live == {p \in Partitions : step[p] \in Running}

Fresh ==
    kind = "none" =>
        /\ answer = "none" /\ ~broken /\ items = {}
        /\ inflight = {} /\ took = {} /\ denied = {}
        /\ \A p \in Partitions : step[p] = "unborn" /\ out[p] = {}
        /\ received = 0 /\ errs = {} /\ cur = 0 /\ errorCh = <<>> /\ sum = 0

Untouched == inflight = {} /\ took = {} /\ denied = {}

\* A write is at one place, and its item is proposed once.
WriteAt(i, p) ==
    /\ \A q \in Partitions : q # p => step[q] \in {"unborn", "ended"}
    /\ step[p] \in {"routing", "proposing", "waiting", "ended"}
    /\ step[p] # "ended" => i \notin Misfits
    /\ step[p] \in {"routing", "proposing"} => Untouched
    /\ step[p] = "waiting" =>
         \/ inflight = {items} /\ took = {} /\ denied = {}
         \/ inflight = {} /\ took \cap denied = {}
    /\ answer # "none" /\ ~broken => step[p] = "ended"

WriteOK ==
    kind = "write" =>
        /\ \E i \in Items : items = {i} /\ WriteAt(i, PartitionOf[i])
        /\ WriteAnswered

\* The partitions whose results the collector has.
Collected == {q \in Parts : step[q] = "ended"}

\* A part of a batch is proposed once; what its goroutine reports agrees with what the
\* index took, unless an RPC broke.
PartOK(q) ==
    /\ step[q] \in {"routing", "proposing", "waiting", "sending", "ended"}
    /\ Group(q) \in inflight => Group(q) \cap (took \cup denied) = {}
    /\ Group(q) \cap took \cap denied = {}
    /\ step[q] \in {"routing", "proposing"} =>
         Group(q) \notin inflight /\ Group(q) \cap (took \cup denied) = {}
    /\ step[q] \in {"sending", "ended"} =>
         /\ out[q] \subseteq Group(q) /\ Group(q) \ out[q] \subseteq took
         /\ ~broken => out[q] \cap took = {} /\ Group(q) \notin inflight

BatchOK ==
    kind = "batch" /\ answer # "error" =>
        /\ \A q \in Partitions : step[q] # "unborn" => q \in Parts
        /\ \A q \in Parts : PartOK(q)
        /\ inflight \subseteq {Group(q) : q \in Parts}
        /\ took \subseteq Checked
        /\ errs = (items \cap Misfits) \cup UNION {out[q] : q \in Collected}
        /\ received = Cardinality(Collected)
        /\ answer = "ok" => Collected = Parts

\* While every partition but the last is held here, the sum is the one of the turns
\* taken; the last one's goroutine adds its own part, or reports an error.
OnlyLast == \A i \in 1..Len(Order) - 1 : step[Order[i]] = "unborn"
Last == Order[Len(Order)]
Summed ==
    /\ step[Last] = "unborn" => sum = Sum[cur]
    /\ step[Last] \in {"routing", "dialled"} => cur = Len(Order) /\ sum = Sum[Len(Order) - 1]
    /\ step[Last] = "ended" =>
         /\ cur = Len(Order)
         /\ sum = Sum[Len(Order)] \/ \E k \in 1..Len(errorCh) : errorCh[k] = "error"

\* A turn of the loop accounts for one receive: done, in the channel, or to come from
\* a goroutine.
SizeOK ==
    kind = "size" =>
        /\ ver[at] > 0
        /\ received + Len(errorCh) + Cardinality(Live) <= cur
        /\ \A p \in Partitions : step[p] \in {"unborn", "routing", "dialled", "ended"}
        /\ answer = "none" => received < Len(Order)
        /\ answer = "ok" => received = Len(Order)
        /\ answer # "error" /\ OnlyLast => Summed

IInv == /\ TypeOK /\ errorCh \in Seq({"nil", "error"})
        /\ Fresh /\ WriteOK /\ BatchOK /\ SizeOK

-----------------------------------------------------------------------------
(* Lemmas about the operators of the model. *)

\* The partitions of the order: at most one for each place.
LEMMA OrderFacts ==
    /\ Len(Order) \in Nat /\ Len(Order) > 0
    /\ \A i \in 1..Len(Order) : Order[i] \in Partitions
    /\ Last \in Partitions
    /\ IsFiniteSet(Partitions) /\ Cardinality(Partitions) \in Nat
    /\ Cardinality(Partitions) <= Len(Order)
<1>1. Len(Order) \in Nat /\ Len(Order) > 0
  BY RequestsAssumption
<1>2. \A i \in 1..Len(Order) : Order[i] \in Partitions
  BY DEF Partitions
<1>3. Last \in Partitions
  BY <1>1, <1>2 DEF Last
<1>4. IsFiniteSet(1..Len(Order)) /\ Cardinality(1..Len(Order)) = Len(Order)
  BY <1>1, FS_Interval
<1>5. [i \in 1..Len(Order) |-> Order[i]] \in Surjection(1..Len(Order), Partitions)
  BY DEF Surjection, Partitions
<1>6. IsFiniteSet(Partitions) /\ Cardinality(Partitions) <= Len(Order)
  BY <1>4, <1>5, FS_Surjection
<1> QED
  BY <1>1, <1>2, <1>3, <1>6, FS_CardinalityType

\* A subset of the partitions is finite, and no larger.
LEMMA SomePartitions ==
    ASSUME NEW S \in SUBSET Partitions
    PROVE  IsFiniteSet(S) /\ Cardinality(S) \in Nat /\ Cardinality(S) <= Len(Order)
  BY OrderFacts, FS_Subset, FS_CardinalityType

\* Each checked item is in the group of one partition.
LEMMA Groups ==
    ASSUME TypeOK
    PROVE  /\ Parts \subseteq Partitions /\ Checked \subseteq Items
           /\ \A p \in Parts : Group(p) # {}
           /\ \A p, q : p # q => Group(p) \cap Group(q) = {}
           /\ \A i \in Checked : PartitionOf[i] \in Parts /\ i \in Group(PartitionOf[i])
           /\ \A p : Group(p) \subseteq Checked
<1>1. Checked \subseteq Items
  BY DEF TypeOK, Checked
<1>2. \A i \in Checked : PartitionOf[i] \in Partitions
  BY <1>1, RequestsAssumption
<1> QED
  BY <1>1, <1>2 DEF Parts, Group

LessThan == {r \in Nat \X Nat : r[1] < r[2]}

\* Induction, for a set of naturals.
LEMMA NatInduct ==
    ASSUME NEW S, 0 \in S, \A n \in Nat : n \in S => n + 1 \in S
    PROVE  Nat \subseteq S
<1> DEFINE T == Nat \ S
<1> SUFFICES ASSUME T # {} PROVE FALSE
  OBVIOUS
<1>1. LessThan = OpToRel(<, Nat)
  BY DEF LessThan, OpToRel
<1>2. PICK x \in T : \A y \in T : <<y, x>> \notin LessThan
  BY <1>1, NatLessThanWellFounded, WFMin
<1>3. x # 0 /\ x - 1 \in Nat /\ x - 1 \in T
  BY <1>2
<1>4. <<x - 1, x>> \in LessThan
  <2>1. <<x - 1, x>> \in Nat \X Nat /\ <<x - 1, x>>[1] < <<x - 1, x>>[2]
    BY <1>3
  <2> QED
    BY <2>1 DEF LessThan
<1> QED
  BY <1>2, <1>3, <1>4

\* Sum is what its definition says.
LEMMA SumIs ==
    /\ Sum[0] = 0
    /\ \A i \in 1..Len(Order) : Sum[i] = Sum[i - 1] + LenOf[Order[i]]
<1> DEFINE g == [i \in 1..Len(Order) |-> LenOf[Order[i]]]
           Def(f, n) == f = [i \in 0..n |-> IF i = 0 THEN 0 ELSE f[i - 1] + LenOf[Order[i]]]
           S == {n \in Nat : \E f : Def(f, n)}
<1>1. 0 \in S
  <2>1. Def([i \in 0..0 |-> 0], 0)
    OBVIOUS
  <2> QED
    BY <2>1
<1>2. ASSUME NEW n \in Nat, n \in S PROVE n + 1 \in S
  <2>1. PICK f : Def(f, n)
    BY <1>2
  <2> DEFINE h == [i \in 0..n + 1 |-> IF i = n + 1 THEN f[n] + LenOf[Order[n + 1]] ELSE f[i]]
  <2>2. ASSUME NEW i \in 0..n + 1
        PROVE  h[i] = IF i = 0 THEN 0 ELSE h[i - 1] + LenOf[Order[i]]
    <3>1. CASE i = n + 1
      BY <3>1
    <3>2. CASE i # n + 1 /\ i # 0
      <4>1. i \in 0..n /\ i - 1 \in 0..n + 1 /\ i - 1 # n + 1
        BY <3>2
      <4>2. f[i] = f[i - 1] + LenOf[Order[i]]
        BY <2>1, <3>2, <4>1
      <4> QED
        BY <3>2, <4>1, <4>2
    <3>3. CASE i = 0
      <4>1. f[0] = 0
        BY <2>1
      <4> QED
        BY <3>3, <4>1
    <3> QED
      BY <3>1, <3>2, <3>3
  <2>3. Def(h, n + 1)
    <3>1. h = [i \in 0..n + 1 |-> h[i]]
      OBVIOUS
    <3> HIDE DEF h
    <3> QED
      BY <2>2, <3>1
  <2>4. \E f2 : Def(f2, n + 1)
    <3> HIDE DEF h, Def
    <3> QED
      BY <2>3
  <2> QED
    BY <2>4
<1>3. Nat \subseteq S
  <2> HIDE DEF S
  <2> QED
    BY <1>1, <1>2, NatInduct
<1>4. \E f : Def(f, Len(Order))
  BY <1>3, OrderFacts
<1>5. Def(Sum, Len(Order))
  BY <1>4 DEF Sum
<1> QED
  BY <1>5, OrderFacts

-----------------------------------------------------------------------------
(* Types. *)

\* The replicas of a partition are nodes, in a placement that has been applied.
LEMMA ReplicasAreNodes ==
    ASSUME TypeOK, NEW n \in Nodes, ver[n] > 0, NEW p \in Partitions
    PROVE  NodesOf(n, p) \subseteq Nodes
  BY RequestsAssumption DEF TypeOK, NodesOf

\* What a size may still add: there is room in the channel for every goroutine.
LEMMA SizeRoom ==
    ASSUME IInv, kind = "size"
    PROVE  /\ Len(errorCh) \in Nat /\ cur \in 0..Len(Order) /\ received \in Nat
           /\ Cardinality(Live) \in Nat /\ IsFiniteSet(Live)
           /\ Len(errorCh) <= cur
           /\ \A p \in Live : Len(errorCh) + 1 <= cur /\ Order[cur] \in Partitions
<1>1. Len(errorCh) \in Nat /\ cur \in 0..Len(Order) /\ received \in 0..Len(Order)
  BY DEF IInv, TypeOK
<1>2. Live \in SUBSET Partitions
  BY DEF Live
<1>3. IsFiniteSet(Live) /\ Cardinality(Live) \in Nat /\ (Live # {} => Cardinality(Live) # 0)
  BY <1>2, SomePartitions, FS_EmptySet
<1>4. received + Len(errorCh) + Cardinality(Live) <= cur
  BY DEF IInv, SizeOK
<1>5. Live # {} => Len(errorCh) + 1 <= cur
  BY <1>1, <1>3, <1>4, OrderFacts
<1> QED
  BY <1>1, <1>3, <1>4, <1>5, OrderFacts

\* The sum stays a number.
LEMMA SumType ==
    ASSUME TypeOK, NEW p \in Partitions
    PROVE  sum + LenOf[p] \in Nat
  BY RequestsAssumption DEF TypeOK

Types == TypeOK /\ errorCh \in Seq({"nil", "error"})

LEMMA PanicType ==
    ASSUME IInv, NEW n \in Nodes, Panic(n)
    PROVE  Types'
  BY DEF Panic, IInv, TypeOK, Types, dataVars, batchVars, sizeVars

LEMMA CommonType ==
    ASSUME IInv,
           \/ \E n \in Nodes : AdvanceView(n)
           \/ \E g \in inflight : Commit(g) \/ Lose(g)
           \/ Leave \/ BreakWrite \/ CollectorLeaves
           \/ UNCHANGED vars
    PROVE  Types'
<1> USE DEF IInv, TypeOK, Types, sysVars, dataVars, batchVars, sizeVars
<1>1. ASSUME NEW n \in Nodes, AdvanceView(n) PROVE Types'
  <2>1. ver' \in [Nodes -> 0..Len(Placements)]
    BY <1>1, RequestsAssumption DEF AdvanceView
  <2> QED
    BY <1>1, <2>1 DEF AdvanceView
<1>2. ASSUME NEW g \in inflight, Commit(g) \/ Lose(g) PROVE Types'
  BY <1>2 DEF Commit, Lose
<1>3. CASE Leave \/ BreakWrite \/ CollectorLeaves
  BY <1>3 DEF Leave, BreakWrite, CollectorLeaves
<1>4. CASE UNCHANGED vars
  BY <1>4 DEF vars
<1> QED
  BY <1>1, <1>2, <1>3, <1>4

LEMMA SubmitType ==
    ASSUME IInv,
           \/ \E i \in Items : SubmitWrite(i)
           \/ \E b \in SUBSET Items : SubmitBatch(b)
           \/ SubmitSize
    PROVE  Types'
<1> USE DEF IInv, TypeOK, Types, sysVars, dataVars, sizeVars, Submit
<1>1. ASSUME NEW i \in Items, SubmitWrite(i) PROVE Types'
  BY <1>1 DEF SubmitWrite, Running
<1>2. ASSUME NEW b \in SUBSET Items, SubmitBatch(b) PROVE Types'
  BY <1>2 DEF SubmitBatch, Running
<1>3. CASE SubmitSize
  BY <1>3 DEF SubmitSize
<1> QED
  BY <1>1, <1>2, <1>3

LEMMA WriteType ==
    ASSUME IInv, NEW p \in Partitions,
           \/ RouteWrite(p) \/ RefuseWrite(p) \/ Propose(p) \/ WriteApplied(p)
           \/ GiveUp(p)
    PROVE  Types'
<1> USE DEF IInv, TypeOK, Types, sysVars, dataVars, batchVars, sizeVars, Answer, Running
<1>1. CASE RouteWrite(p)
  <2>1. CASE ~Knows(at)
    BY <1>1, <2>1 DEF RouteWrite
  <2>2. CASE Knows(at) /\ IsOnNode(at, p)
    BY <1>1, <2>2 DEF RouteWrite
  <2>3. CASE Knows(at) /\ ~IsOnNode(at, p) /\ NodesOf(at, p) = {}
    BY <1>1, <2>3, PanicType DEF RouteWrite
  <2>4. CASE Knows(at) /\ ~IsOnNode(at, p) /\ NodesOf(at, p) # {}
    <3>1. NodesOf(at, p) \subseteq Nodes
      BY <2>4, ReplicasAreNodes DEF Knows
    <3>2. Forward(p)
      BY <1>1, <2>4 DEF RouteWrite
    <3> QED
      BY <3>1, <3>2 DEF Forward
  <2> QED
    BY <2>1, <2>2, <2>3, <2>4
<1>2. CASE WriteApplied(p)
  BY <1>2 DEF WriteApplied
<1>3. CASE Propose(p)
  BY <1>3, Groups DEF Propose
<1>4. CASE RefuseWrite(p)
  <2>1. Group(p) \subseteq Items
    BY Groups
  <2>2. inflight' \subseteq SUBSET Items /\ broken' \in BOOLEAN
    BY <1>4, <2>1 DEF RefuseWrite, NotProposed
  <2> QED
    BY <1>4, <2>2 DEF RefuseWrite
<1>5. CASE GiveUp(p)
  <2>1. Group(p) \subseteq Items
    BY Groups
  <2> QED
    BY <1>5, <2>1 DEF GiveUp, Report, batchVars
<1> QED
  BY <1>1, <1>2, <1>3, <1>4, <1>5

\* The partitions collected are one more, and no more than all.
LEMMA CollectedMore ==
    ASSUME IInv, NEW p \in Partitions, CollectPart(p)
    PROVE  /\ Collected' = Collected \cup {p} /\ p \in Parts /\ p \notin Collected
           /\ received' = Cardinality(Collected') /\ received' \in 0..Len(Order)
           /\ Parts' = Parts
<1>1. p \in Parts /\ received = Cardinality(Collected) /\ step[p] = "sending"
  BY DEF CollectPart, IInv, BatchOK
<1>2. Parts' = Parts
  BY DEF CollectPart, Parts, Checked
<1>3. Collected' = Collected \cup {p} /\ p \notin Collected
  BY <1>1, <1>2 DEF CollectPart, Collected, IInv, TypeOK
<1>4. Collected \in SUBSET Partitions /\ Collected' \in SUBSET Partitions
  BY <1>1, <1>3, Groups DEF Collected, IInv
<1>5. Cardinality(Collected') = Cardinality(Collected) + 1
  BY <1>3, <1>4, SomePartitions, FS_AddElement
<1>6. received' = received + 1
  BY DEF CollectPart
<1>7. received' = Cardinality(Collected')
  BY <1>1, <1>5, <1>6
<1>8. Cardinality(Collected') \in Nat /\ Cardinality(Collected') <= Len(Order)
  BY <1>4, SomePartitions
<1> QED
  BY <1>1, <1>2, <1>3, <1>7, <1>8, OrderFacts

LEMMA BatchType ==
    ASSUME IInv, NEW p \in Partitions,
           \/ RoutePart(p) \/ RefusePart(p) \/ PartApplied(p) \/ BreakPart(p) \/ CollectPart(p)
    PROVE  Types'
<1> USE DEF IInv, TypeOK, Types, sysVars, dataVars, batchVars, sizeVars, Report, Running
<1>0. Group(p) \subseteq Items
  BY Groups
<1>1. CASE RoutePart(p)
  <2>1. CASE ~IsOnNode(at, p) /\ NodesOf(at, p) = {}
    BY <1>1, <2>1, PanicType DEF RoutePart
  <2>2. CASE ~(~IsOnNode(at, p) /\ NodesOf(at, p) = {})
    BY <1>0, <1>1, <2>2 DEF RoutePart
  <2> QED
    BY <2>1, <2>2
<1>2. CASE RefusePart(p) \/ PartApplied(p)
  BY <1>0, <1>2 DEF RefusePart, NotProposed, PartApplied
<1>3. CASE BreakPart(p)
  BY <1>0, <1>3 DEF BreakPart
<1>4. CASE CollectPart(p)
  <2>1. received' \in 0..Len(Order)
    BY <1>4, CollectedMore
  <2> QED
    BY <1>4, <2>1 DEF CollectPart
<1> QED
  BY <1>1, <1>2, <1>3, <1>4

LEMMA SizeType ==
    ASSUME IInv,
           \/ SizeTurn \/ SizeReceive
           \/ \E p \in Partitions : SizePick(p) \/ SizeAsk(p)
    PROVE  Types'
<1> USE DEF IInv, TypeOK, Types, sysVars, dataVars, batchVars, sizeVars, Running
<1>0. ASSUME NEW e \in {"nil", "error"}
      PROVE  Append(errorCh, e) \in Seq({"nil", "error"})
             /\ Len(Append(errorCh, e)) = Len(errorCh) + 1
  BY <1>0, AppendProperties
<1>1. CASE SizeTurn
  <2>1. kind = "size" /\ cur < Len(Order) /\ cur' = cur + 1
    BY <1>1 DEF SizeTurn
  <2>2. cur' \in 0..Len(Order) /\ Order[cur + 1] \in Partitions /\ Len(errorCh) + 1 <= Len(Order)
    BY <2>1, SizeRoom, OrderFacts
  <2>3. sum + LenOf[Order[cur + 1]] \in Nat
    BY <2>2, SumType
  <2>4. CASE IsOnNode(at, Order[cur + 1])
    BY <1>0, <1>1, <2>2, <2>3, <2>4 DEF SizeTurn
  <2>5. CASE ~IsOnNode(at, Order[cur + 1])
    BY <1>1, <2>2, <2>5 DEF SizeTurn
  <2> QED
    BY <2>4, <2>5
<1>2. CASE SizeReceive
  <2>1. received < Len(Order) /\ received' = received + 1
    BY <1>2 DEF SizeReceive, SizeOK
  <2>2. received' \in 0..Len(Order)
    BY <2>1, OrderFacts
  <2>3. errorCh' \in Seq({"nil", "error"}) /\ Len(errorCh') <= Len(Order)
    <3>1. CASE errorCh = <<>>
      BY <1>2, <3>1 DEF SizeReceive
    <3>2. CASE errorCh # <<>>
      BY <1>2, <3>2, HeadTailProperties, OrderFacts DEF SizeReceive
    <3> QED
      BY <3>1, <3>2
  <2>4. answer' \in {"none", "ok", "error"}
    BY <1>2 DEF SizeReceive
  <2> QED
    BY <1>2, <2>2, <2>3, <2>4 DEF SizeReceive
<1>3. ASSUME NEW p \in Partitions, SizePick(p) \/ SizeAsk(p) PROVE Types'
  <2>1. kind = "size" /\ p \in Live
    BY <1>3 DEF SizePick, SizeAsk, Live
  <2>2. Len(errorCh) + 1 <= Len(Order) /\ Order[cur] \in Partitions
    BY <2>1, SizeRoom, OrderFacts
  <2>3. sum + LenOf[Order[cur]] \in Nat
    BY <2>2, SumType
  <2>4. CASE SizeAsk(p)
    BY <1>0, <2>2, <2>3, <2>4 DEF SizeAsk
  <2>5. CASE SizePick(p) /\ NodesOf(at, Order[cur]) = {}
    BY <2>5, PanicType DEF SizePick
  <2>6. CASE SizePick(p) /\ NodesOf(at, Order[cur]) # {}
    <3>1. NodesOf(at, Order[cur]) \subseteq Nodes
      BY <2>1, <2>2, ReplicasAreNodes DEF SizeOK
    <3> QED
      BY <1>0, <2>2, <2>6, <3>1 DEF SizePick
  <2> QED
    BY <1>3, <2>4, <2>5, <2>6
<1> QED
  BY <1>1, <1>2, <1>3

-----------------------------------------------------------------------------
(* Steps that change nothing of the request. *)

Rest == Fresh /\ WriteOK /\ BatchOK /\ SizeOK

\* A placement applied at a node, the client gone away, or no step.
LEMMA Kept ==
    ASSUME IInv, (\E n \in Nodes : AdvanceView(n)) \/ Leave \/ UNCHANGED vars
    PROVE  Rest'
<1>1. /\ UNCHANGED <<kind, at, answer, items, inflight, took, denied, step>>
      /\ UNCHANGED <<out, received, errs, cur, errorCh, sum, broken>>
  BY DEF AdvanceView, Leave, vars, dataVars, batchVars, sizeVars
<1>2. ver[at] > 0 => ver'[at] > 0
  <2>1. CASE UNCHANGED ver
    BY <2>1
  <2>2. ASSUME NEW n \in Nodes, AdvanceView(n) PROVE ver[at] > 0 => ver'[at] > 0
    BY <2>2 DEF AdvanceView, IInv, TypeOK
  <2> QED
    BY <2>1, <2>2 DEF Leave, vars, sysVars
<1>3. Fresh'
  BY <1>1 DEF IInv, Fresh
<1>4. WriteOK'
  BY <1>1 DEF IInv, WriteOK, WriteAt, WriteAnswered, Untouched
<1>5. BatchOK'
  <2>1. Parts' = Parts /\ Checked' = Checked /\ \A q : Group(q)' = Group(q)
    BY <1>1 DEF Parts, Checked, Group
  <2>2. Collected' = Collected
    BY <1>1, <2>1 DEF Collected
  <2>3. ASSUME NEW q, PartOK(q) PROVE PartOK(q)'
    BY <1>1, <2>1, <2>3 DEF PartOK
  <2> QED
    BY <1>1, <2>1, <2>2, <2>3 DEF IInv, BatchOK
<1>6. SizeOK'
  <2>1. Live' = Live
    BY <1>1 DEF Live
  <2>2. OnlyLast' = OnlyLast /\ (Summed => Summed')
    BY <1>1 DEF OnlyLast, Summed, Last
  <2> QED
    BY <1>1, <1>2, <2>1, <2>2 DEF IInv, SizeOK
<1> QED
  BY <1>3, <1>4, <1>5, <1>6 DEF Rest

\* A panic ends every goroutine, and the client gets an error.
LEMMA PanicKept ==
    ASSUME IInv, kind # "none", NEW n \in Nodes, Panic(n),
           kind = "write" => Untouched, kind # "write" => answer # "ok"
    PROVE  Rest'
<1>1. /\ UNCHANGED <<ver, kind, at, items, inflight, took, denied>>
      /\ UNCHANGED <<out, received, errs, cur, errorCh, sum, broken>>
      /\ step' = [p \in Partitions |-> "ended"]
      /\ answer' = IF answer = "none" THEN "error" ELSE answer
  BY DEF Panic, dataVars, batchVars, sizeVars
<1>2. Fresh'
  BY <1>1 DEF Fresh
<1>3. WriteOK'
  <2> SUFFICES ASSUME kind = "write" PROVE WriteOK'
    BY <1>1 DEF WriteOK
  <2>1. PICK i \in Items : items = {i} /\ WriteAt(i, PartitionOf[i])
    BY DEF IInv, WriteOK
  <2>2. PartitionOf[i] \in Partitions
    BY RequestsAssumption
  <2>3. WriteAt(i, PartitionOf[i])'
    BY <1>1, <2>2 DEF WriteAt
  <2>4. WriteAnswered'
    BY <1>1 DEF IInv, TypeOK, WriteOK, WriteAnswered, Untouched
  <2> QED
    BY <1>1, <2>1, <2>3, <2>4 DEF WriteOK
<1>4. BatchOK'
  <2> SUFFICES ASSUME kind = "batch" PROVE answer' = "error"
    BY <1>1 DEF BatchOK
  <2> QED
    BY <1>1 DEF IInv, TypeOK
<1>5. SizeOK'
  <2> SUFFICES ASSUME kind = "size" PROVE SizeOK'
    BY <1>1 DEF SizeOK
  <2>1. answer' = "error"
    BY <1>1 DEF IInv, TypeOK
  <2>2. Live' = {}
    BY <1>1 DEF Live, Running
  <2>3. Cardinality(Live') = 0
    BY <2>2, FS_EmptySet
  <2>4. received + Len(errorCh) + 0 <= cur
    BY SizeRoom DEF IInv, SizeOK
  <2> QED
    BY <1>1, <2>1, <2>3, <2>4 DEF IInv, SizeOK
<1> QED
  BY <1>2, <1>3, <1>4, <1>5 DEF Rest

-----------------------------------------------------------------------------
(* Steps of a write. *)

\* What a write's state amounts to.
LEMMA WriteKept ==
    ASSUME kind' = "write", WriteOK'
    PROVE  Rest'
  BY DEF Rest, Fresh, BatchOK, SizeOK

LEMMA SubmitWriteKept ==
    ASSUME IInv, NEW i \in Items, SubmitWrite(i)
    PROVE  Rest'
<1>1. /\ kind' = "write" /\ items' = {i}
      /\ UNCHANGED <<inflight, took, denied, broken>>
      /\ step' = [step EXCEPT ![PartitionOf[i]] = IF i \in Misfits THEN "ended" ELSE "routing"]
      /\ answer' = IF i \in Misfits THEN "error" ELSE answer
  BY DEF SubmitWrite, Submit, dataVars
<1>2. /\ answer = "none" /\ inflight = {} /\ took = {} /\ denied = {}
      /\ \A p \in Partitions : step[p] = "unborn"
  BY DEF SubmitWrite, Submit, IInv, Fresh
<1>3. PartitionOf[i] \in Partitions /\ step \in [Partitions -> {"unborn", "ended"} \cup Running]
  BY RequestsAssumption DEF IInv, TypeOK
<1>4. WriteAt(i, PartitionOf[i])'
  BY <1>1, <1>2, <1>3 DEF WriteAt, Untouched
<1>5. WriteAnswered'
  BY <1>1, <1>2 DEF WriteAnswered
<1> QED
  BY <1>1, <1>4, <1>5, WriteKept DEF WriteOK

\* The item of a write whose partition's step is taken.
LEMMA TheItem ==
    ASSUME IInv, kind = "write", NEW p \in Partitions, step[p] \in Running
    PROVE  \E i \in Items : /\ items = {i} /\ p = PartitionOf[i] /\ WriteAt(i, p)
                            /\ Group(p) = {i}
<1>1. PICK i \in Items : items = {i} /\ WriteAt(i, PartitionOf[i])
  BY DEF IInv, WriteOK
<1>2. p = PartitionOf[i]
  BY <1>1 DEF WriteAt, Running
<1>3. i \notin Misfits
  BY <1>1, <1>2 DEF WriteAt, Running
<1>4. Group(p) = {i}
  BY <1>1, <1>2, <1>3 DEF Group, Checked
<1> QED
  BY <1>1, <1>2, <1>4

\* The write ends with an answer that is true, or that nobody gets.
LEMMA AnswerKept ==
    ASSUME IInv, kind = "write", NEW p \in Partitions, NEW a \in {"ok", "error"},
           step[p] \in Running, Answer(p, a),
           UNCHANGED <<kind, items, took, denied>>, inflight' = inflight \/ broken',
           broken' # broken => broken',
           ~broken' => /\ a = "ok" => items \subseteq took
                       /\ a = "error" => items \cap took = {} /\ inflight = {}
    PROVE  Rest'
<1>1. PICK i \in Items : items = {i} /\ p = PartitionOf[i] /\ WriteAt(i, p)
  BY TheItem
<1>2. step' = [step EXCEPT ![p] = "ended"] /\ answer' = IF answer = "none" THEN a ELSE answer
  BY DEF Answer
<1>3. step'[p] = "ended" /\ \A q \in Partitions : q # p => step'[q] = step[q]
  BY <1>2 DEF IInv, TypeOK
<1>4. WriteAt(i, p)'
  BY <1>1, <1>3 DEF WriteAt
<1>5. WriteAnswered'
  <2>1. CASE broken'
    BY <2>1 DEF WriteAnswered
  <2>2. CASE ~broken'
    <3>1. ~broken
      BY <2>2
    <3>2. answer = "none"
      BY <1>1, <3>1 DEF WriteAt, Running
    <3> QED
      BY <1>2, <2>2, <3>2 DEF WriteAnswered
  <2> QED
    BY <2>1, <2>2
<1> QED
  BY <1>1, <1>4, <1>5, WriteKept DEF WriteOK

LEMMA RouteWriteKept ==
    ASSUME IInv, NEW p \in Partitions, RouteWrite(p)
    PROVE  Rest'
<1>0. kind = "write" /\ step[p] = "routing" /\ step[p] \in Running
  BY DEF RouteWrite, Running
<1>1. PICK i \in Items : items = {i} /\ p = PartitionOf[i] /\ WriteAt(i, p)
  BY <1>0, TheItem
<1>2. Untouched
  BY <1>0, <1>1 DEF WriteAt
<1>3. CASE ~Knows(at)
  <2>1. Answer(p, "error") /\ UNCHANGED <<kind, items, inflight, took, denied, broken>>
    BY <1>3 DEF RouteWrite, dataVars
  <2> QED
    BY <1>0, <1>2, <2>1, AnswerKept DEF Untouched
<1>4. CASE Knows(at) /\ IsOnNode(at, p)
  <2>1. /\ UNCHANGED <<kind, items, inflight, took, denied, answer, broken>>
        /\ step' = [step EXCEPT ![p] = "proposing"]
    BY <1>4 DEF RouteWrite, dataVars
  <2>2. WriteAt(i, p)'
    BY <1>0, <1>1, <2>1 DEF WriteAt, Untouched, IInv, TypeOK
  <2>3. WriteAnswered'
    BY <2>1, <1>0 DEF IInv, WriteOK, WriteAnswered
  <2> QED
    BY <1>0, <1>1, <2>1, <2>2, <2>3, WriteKept DEF WriteOK
<1>5. CASE Knows(at) /\ ~IsOnNode(at, p) /\ NodesOf(at, p) = {}
  <2>1. Panic(at) /\ at \in Nodes
    BY <1>5 DEF RouteWrite, IInv, TypeOK
  <2> QED
    BY <1>0, <1>2, <2>1, PanicKept
<1>6. CASE Knows(at) /\ ~IsOnNode(at, p) /\ NodesOf(at, p) # {}
  <2>1. Forward(p)
    BY <1>6 DEF RouteWrite
  <2>2. CASE UNCHANGED <<kind, items, inflight, took, denied, answer, step, broken>>
    BY <1>0, <1>1, <2>2, WriteKept DEF IInv, WriteOK, WriteAt, Untouched, WriteAnswered
  <2>3. CASE Answer(p, "ok") /\ broken' /\ UNCHANGED <<kind, items, inflight, took, denied>>
    BY <1>0, <2>3, AnswerKept
  <2> QED
    BY <2>1, <2>2, <2>3 DEF Forward, dataVars
<1> QED
  BY <1>3, <1>4, <1>5, <1>6

LEMMA EndWriteKept ==
    ASSUME IInv, NEW p \in Partitions, kind = "write", RefuseWrite(p) \/ WriteApplied(p) \/ GiveUp(p)
    PROVE  Rest'
<1>0. /\ kind = "write" /\ step[p] \in {"proposing", "waiting"} /\ step[p] \in Running
      /\ UNCHANGED <<kind, items, took, denied>>
  BY DEF RefuseWrite, WriteApplied, GiveUp, Running, dataVars
<1>1. PICK i \in Items : items = {i} /\ p = PartitionOf[i] /\ WriteAt(i, p) /\ Group(p) = {i}
  BY <1>0, TheItem
<1>2. CASE RefuseWrite(p)
  <2>1. Answer(p, "error") /\ Untouched /\ (broken' \/ UNCHANGED <<inflight, broken>>)
    BY <1>1, <1>2 DEF RefuseWrite, NotProposed, WriteAt
  <2> QED
    BY <1>0, <2>1, AnswerKept DEF Untouched
<1>3. CASE GiveUp(p)
  <2>1. Answer(p, "error") /\ broken'
    BY <1>0, <1>3 DEF GiveUp
  <2> QED
    BY <1>0, <2>1, AnswerKept
<1>4. CASE WriteApplied(p)
  <2>1. /\ UNCHANGED <<broken, inflight>> /\ step[p] = "waiting" /\ {i} \subseteq took \cup denied
        /\ Answer(p, IF {i} \subseteq took THEN "ok" ELSE "error")
    BY <1>1, <1>4 DEF WriteApplied, dataVars
  <2>2. inflight = {} /\ took \cap denied = {}
    BY <1>1, <2>1 DEF WriteAt
  <2>3. CASE {i} \subseteq took
    BY <1>0, <1>1, <2>1, <2>3, AnswerKept
  <2>4. CASE ~({i} \subseteq took)
    BY <1>0, <1>1, <2>1, <2>2, <2>4, AnswerKept
  <2> QED
    BY <2>3, <2>4
<1> QED
  BY <1>2, <1>3, <1>4

LEMMA ProposeWriteKept ==
    ASSUME IInv, kind = "write", NEW p \in Partitions, Propose(p)
    PROVE  Rest'
<1>0. /\ step[p] = "proposing" /\ step[p] \in Running
      /\ step' = [step EXCEPT ![p] = "waiting"] /\ inflight' = inflight \cup {Group(p)}
      /\ UNCHANGED <<kind, items, took, denied, answer, broken>>
  BY DEF Propose, Running
<1>1. PICK i \in Items : items = {i} /\ p = PartitionOf[i] /\ WriteAt(i, p) /\ Group(p) = {i}
  BY <1>0, TheItem
<1>2. Untouched /\ i \notin Misfits /\ (answer # "none" => broken)
  BY <1>0, <1>1 DEF WriteAt
<1>3. WriteAt(i, p)'
  BY <1>0, <1>1, <1>2 DEF WriteAt, Untouched, IInv, TypeOK
<1>4. WriteAnswered'
  BY <1>0, <1>2 DEF WriteAnswered
<1> QED
  BY <1>0, <1>1, <1>3, <1>4, WriteKept DEF WriteOK

LEMMA BreakWriteKept ==
    ASSUME IInv, BreakWrite
    PROVE  Rest'
<1>0. /\ kind = "write" /\ broken'
      /\ UNCHANGED <<kind, items, inflight, took, denied, step>>
  BY DEF BreakWrite, dataVars
<1>1. PICK i \in Items : items = {i} /\ WriteAt(i, PartitionOf[i])
  BY <1>0 DEF IInv, WriteOK
<1>2. WriteAt(i, PartitionOf[i])'
  BY <1>0, <1>1 DEF WriteAt, Untouched
<1>3. WriteAnswered'
  BY <1>0 DEF WriteAnswered
<1> QED
  BY <1>0, <1>1, <1>2, <1>3, WriteKept DEF WriteOK

LEMMA CommitWriteKept ==
    ASSUME IInv, kind = "write", NEW g \in inflight, Commit(g)
    PROVE  Rest'
<1>0. PICK refused \in SUBSET g :
         /\ took' = took \cup (g \ refused) /\ denied' = denied \cup refused
         /\ inflight' = inflight \ {g}
         /\ UNCHANGED <<kind, items, step, answer, broken>>
  BY DEF Commit
<1>1. PICK i \in Items : items = {i} /\ WriteAt(i, PartitionOf[i])
  BY DEF IInv, WriteOK
<1>2. WriteAt(i, PartitionOf[i])'
  BY <1>0, <1>1 DEF WriteAt, Untouched
<1>3. WriteAnswered'
  BY <1>0 DEF IInv, WriteOK, WriteAnswered
<1> QED
  BY <1>0, <1>1, <1>2, <1>3, WriteKept DEF WriteOK

\* What is lost changes no answer that was given: nothing is said of it.
LEMMA LoseWriteKept ==
    ASSUME IInv, kind = "write", NEW g \in inflight, Lose(g)
    PROVE  Rest'
<1>0. inflight' = inflight \ {g} /\ UNCHANGED <<kind, items, took, denied, step, answer, broken>>
  BY DEF Lose
<1>1. PICK i \in Items : items = {i} /\ WriteAt(i, PartitionOf[i])
  BY DEF IInv, WriteOK
<1>2. WriteAt(i, PartitionOf[i])'
  BY <1>0, <1>1 DEF WriteAt, Untouched
<1>3. WriteAnswered'
  BY <1>0 DEF IInv, WriteOK, WriteAnswered
<1> QED
  BY <1>0, <1>1, <1>2, <1>3, WriteKept DEF WriteOK

-----------------------------------------------------------------------------
(* Steps of a batch. *)

LEMMA BatchKept ==
    ASSUME kind' = "batch", BatchOK'
    PROVE  Rest'
  BY DEF Rest, Fresh, WriteOK, SizeOK

LEMMA SubmitBatchKept ==
    ASSUME IInv, NEW b \in SUBSET Items, SubmitBatch(b)
    PROVE  Rest'
<1> DEFINE parts == {PartitionOf[i] : i \in b \ Misfits}
<1>1. kind' = "batch" /\ items' = b /\ UNCHANGED <<inflight, took, denied, out, received, broken>>
  BY DEF SubmitBatch, Submit, dataVars
<1>2. /\ answer = "none" /\ inflight = {} /\ took = {} /\ denied = {} /\ received = 0
      /\ \A p \in Partitions : step[p] = "unborn"
  BY DEF SubmitBatch, Submit, IInv, Fresh
<1>3. CASE ver[at] = 0 \/ Cardinality(b) > MaxBatch
  <2>1. answer' = "error"
    BY <1>3 DEF SubmitBatch
  <2> QED
    BY <1>1, <2>1, BatchKept DEF BatchOK
<1>4. CASE ~(ver[at] = 0 \/ Cardinality(b) > MaxBatch)
  <2>1. /\ errs' = b \cap Misfits
        /\ step' = [p \in Partitions |-> IF p \in parts THEN "routing" ELSE step[p]]
        /\ answer' = IF parts = {} THEN "ok" ELSE answer
    BY <1>4 DEF SubmitBatch
  <2>2. Checked' = b \ Misfits /\ Parts' = parts
    BY <1>1 DEF Checked, Parts
  <2>3. parts \subseteq Partitions
    BY RequestsAssumption
  <2> HIDE DEF parts
  <2>4. Collected' = {}
    BY <2>1, <2>2, <2>3 DEF Collected
  <2>5. Cardinality(Collected') = 0
    BY <2>4, FS_EmptySet
  <2>6. (\A q \in Parts : PartOK(q))'
    <3>1. ASSUME NEW q \in Parts' PROVE PartOK(q)'
      BY <1>1, <1>2, <2>1, <2>2, <2>3 DEF PartOK
    <3> QED
      BY <3>1
  <2>7. BatchOK'
    BY <1>1, <1>2, <2>1, <2>2, <2>3, <2>4, <2>5, <2>6 DEF BatchOK
  <2> QED
    BY <1>1, <2>7, BatchKept
<1> QED
  BY <1>3, <1>4

\* The groups stay what they are.
LEMMA SameGroups ==
    ASSUME UNCHANGED items
    PROVE  Checked' = Checked /\ Parts' = Parts /\ \A q : Group(q)' = Group(q)
  BY DEF Checked, Parts, Group

\* What another part's step leaves as it is.
LEMMA OtherPart ==
    ASSUME IInv, UNCHANGED <<items, took, denied>>, broken => broken',
           NEW p \in Partitions, NEW q \in Parts, q # p, PartOK(q),
           step'[q] = step[q], out'[q] = out[q],
           inflight' = inflight \/ inflight' = inflight \cup {Group(p)}
    PROVE  PartOK(q)'
<1>1. Group(q)' = Group(q) /\ Group(q) # Group(p)
  BY SameGroups, Groups DEF IInv
<1>2. Group(q) \in inflight' <=> Group(q) \in inflight
  BY <1>1
<1> QED
  BY <1>1, <1>2 DEF PartOK

\* A step of a part's goroutine before its result is collected.
LEMMA PartStep ==
    ASSUME IInv, kind = "batch", NEW p \in Partitions,
           step[p] \in {"routing", "proposing", "waiting"},
           step'[p] \in {"proposing", "waiting", "sending"},
           \A q \in Partitions : q # p => step'[q] = step[q] /\ out'[q] = out[q],
           UNCHANGED <<kind, items, took, denied, received, errs, answer>>,
           broken => broken',
           inflight' = inflight \/ inflight' = inflight \cup {Group(p)},
           answer # "error" /\ PartOK(p) /\ p \in Parts => PartOK(p)'
    PROVE  Rest'
<1> SUFFICES ASSUME answer # "error" PROVE BatchOK'
  BY BatchKept DEF BatchOK
<1>0. BatchOK /\ step \in [Partitions -> {"unborn", "ended"} \cup Running]
      /\ out \in [Partitions -> SUBSET Items]
  BY DEF IInv, TypeOK
<1>1. Checked' = Checked /\ Parts' = Parts /\ \A q : Group(q)' = Group(q)
  BY SameGroups
<1>2. p \in Parts /\ Parts \subseteq Partitions
  BY <1>0, Groups DEF BatchOK, IInv
<1>3. \A q \in Partitions : q # p => step'[q] = step[q] /\ out'[q] = out[q]
  OBVIOUS
<1>4. Collected' = Collected /\ \A q \in Collected : out'[q] = out[q]
  BY <1>1, <1>2, <1>3 DEF Collected
<1>5. ASSUME NEW q \in Parts PROVE PartOK(q)'
  <2>1. PartOK(q)
    BY <1>0, <1>5 DEF BatchOK
  <2>2. CASE q = p
    BY <1>2, <2>1, <2>2
  <2>3. CASE q # p
    <3>1. step'[q] = step[q] /\ out'[q] = out[q]
      BY <1>2, <1>3, <2>3
    <3> QED
      BY <2>1, <2>3, <3>1, OtherPart
  <2> QED
    BY <2>2, <2>3
<1>6. (\A q \in Parts : PartOK(q))'
  BY <1>1, <1>5
<1>7. inflight' \subseteq {Group(q) : q \in Parts}
  BY <1>0, <1>2 DEF BatchOK
<1>8. {Group(q) : q \in Parts}' = {Group(q) : q \in Parts}
  BY <1>1
<1>9. UNION {out'[q] : q \in Collected'} = UNION {out[q] : q \in Collected}
  BY <1>4
<1> QED
  BY <1>0, <1>1, <1>2, <1>3, <1>4, <1>6, <1>7, <1>8, <1>9 DEF BatchOK

LEMMA RoutePartKept ==
    ASSUME IInv, NEW p \in Partitions, RoutePart(p)
    PROVE  Rest'
<1>0. kind = "batch" /\ step[p] = "routing"
  BY DEF RoutePart, IInv, TypeOK
<1>1. ASSUME step' = [step EXCEPT ![p] = "proposing"],
             UNCHANGED <<kind, at, answer, items, inflight, took, denied, out, received, errs, broken>>
      PROVE  Rest'
  <2>1. /\ step'[p] = "proposing" /\ Group(p)' = Group(p)
        /\ \A q \in Partitions : q # p => step'[q] = step[q] /\ out'[q] = out[q]
    BY <1>1, SameGroups DEF IInv, TypeOK
  <2>2. PartOK(p) => PartOK(p)'
    BY <1>0, <1>1, <2>1 DEF PartOK
  <2> QED
    BY <1>0, <1>1, <2>1, <2>2, PartStep
<1>2. ASSUME Report(p, Group(p)),
             UNCHANGED <<kind, at, answer, items, inflight, took, denied, received, errs, broken>>
      PROVE  Rest'
  <2>1. /\ step' = [step EXCEPT ![p] = "sending"] /\ out' = [out EXCEPT ![p] = Group(p)]
        /\ (\A q \in Partitions : q # p => step'[q] = step[q] /\ out'[q] = out[q])
        /\ step'[p] = "sending" /\ out'[p] = Group(p) /\ Group(p)' = Group(p)
    BY <1>2, SameGroups DEF IInv, TypeOK, Report
  <2>2. PartOK(p) => PartOK(p)'
    BY <1>0, <1>2, <2>1 DEF PartOK
  <2> QED
    BY <1>0, <1>2, <2>1, <2>2, PartStep
<1>3. CASE Panic(at)
  <2>1. answer # "ok"
    BY <1>0 DEF IInv, BatchOK, Collected
  <2>2. at \in Nodes
    BY DEF IInv, TypeOK
  <2> QED
    BY <1>0, <1>3, <2>1, <2>2, PanicKept
<1> QED
  BY <1>1, <1>2, <1>3 DEF RoutePart, dataVars

LEMMA ProposePartKept ==
    ASSUME IInv, kind = "batch", NEW p \in Partitions, Propose(p)
    PROVE  Rest'
<1>0. /\ step[p] = "proposing"
      /\ step' = [step EXCEPT ![p] = "waiting"] /\ inflight' = inflight \cup {Group(p)}
      /\ UNCHANGED <<kind, answer, items, took, denied, out, received, errs, broken>>
  BY DEF Propose, IInv, TypeOK, batchVars
<1>1. /\ step'[p] = "waiting" /\ Group(p)' = Group(p)
      /\ \A q \in Partitions : q # p => step'[q] = step[q] /\ out'[q] = out[q]
  BY <1>0, SameGroups DEF IInv, TypeOK
<1>2. PartOK(p) => PartOK(p)'
  BY <1>0, <1>1 DEF PartOK
<1> QED
  BY <1>0, <1>1, <1>2, PartStep

LEMMA ReportKept ==
    ASSUME IInv, NEW p \in Partitions,
           RefusePart(p) \/ PartApplied(p) \/ BreakPart(p) \/ (kind = "batch" /\ GiveUp(p))
    PROVE  Rest'
<1>1. CASE RefusePart(p)
  <2>1. /\ kind = "batch" /\ step[p] = "proposing" /\ Report(p, Group(p))
        /\ \/ UNCHANGED <<inflight, broken>>
           \/ inflight' = inflight \cup {Group(p)} /\ broken'
        /\ UNCHANGED <<kind, answer, items, took, denied, received, errs>>
    BY <1>1 DEF RefusePart, NotProposed
  <2>2. /\ step' = [step EXCEPT ![p] = "sending"] /\ out' = [out EXCEPT ![p] = Group(p)]
        /\ (\A q \in Partitions : q # p => step'[q] = step[q] /\ out'[q] = out[q])
        /\ step'[p] = "sending" /\ out'[p] = Group(p) /\ Group(p)' = Group(p)
    BY <2>1, SameGroups DEF IInv, TypeOK, Report
  <2>3. PartOK(p) => PartOK(p)'
    BY <2>1, <2>2 DEF PartOK
  <2> QED
    BY <2>1, <2>2, <2>3, PartStep
<1>2. CASE PartApplied(p)
  <2>1. /\ kind = "batch" /\ step[p] = "waiting" /\ Group(p) \subseteq took \cup denied
        /\ Report(p, Group(p) \cap denied)
        /\ UNCHANGED <<kind, answer, items, inflight, took, denied, received, errs, broken>>
    BY <1>2 DEF PartApplied, dataVars
  <2>2. /\ step' = [step EXCEPT ![p] = "sending"] /\ out' = [out EXCEPT ![p] = Group(p) \cap denied]
        /\ (\A q \in Partitions : q # p => step'[q] = step[q] /\ out'[q] = out[q])
        /\ step'[p] = "sending" /\ out'[p] = Group(p) \cap denied /\ Group(p)' = Group(p)
    BY <2>1, SameGroups DEF IInv, TypeOK, Report
  <2>3. PartOK(p) /\ p \in Parts => PartOK(p)'
    <3> SUFFICES ASSUME PartOK(p), p \in Parts PROVE PartOK(p)'
      OBVIOUS
    <3>1. Group(p) # {}
      BY Groups DEF IInv
    <3>2. Group(p) \notin inflight
      BY <2>1, <3>1 DEF PartOK
    <3> QED
      BY <2>1, <2>2, <3>2 DEF PartOK
  <2> QED
    BY <2>1, <2>2, <2>3, PartStep
<1>3. CASE BreakPart(p) \/ (kind = "batch" /\ GiveUp(p))
  <2>1. /\ kind = "batch" /\ step[p] \in {"proposing", "waiting"} /\ Report(p, Group(p)) /\ broken'
        /\ \/ inflight' = inflight
           \/ step[p] = "proposing" /\ inflight' = inflight \cup {Group(p)}
        /\ UNCHANGED <<kind, answer, items, took, denied, received, errs>>
    BY <1>3 DEF BreakPart, GiveUp, dataVars
  <2>2. /\ step' = [step EXCEPT ![p] = "sending"] /\ out' = [out EXCEPT ![p] = Group(p)]
        /\ (\A q \in Partitions : q # p => step'[q] = step[q] /\ out'[q] = out[q])
        /\ step'[p] = "sending" /\ out'[p] = Group(p) /\ Group(p)' = Group(p)
    BY <2>1, SameGroups DEF IInv, TypeOK, Report
  <2>3. PartOK(p) => PartOK(p)'
    BY <2>1, <2>2 DEF PartOK
  <2> QED
    BY <2>1, <2>2, <2>3, PartStep
<1> QED
  BY <1>1, <1>2, <1>3

\* The collector is done when it has every part's result.
LEMMA CollectKept ==
    ASSUME IInv, NEW p \in Partitions, CollectPart(p)
    PROVE  Rest'
<1>0. /\ kind = "batch" /\ answer = "none" /\ step[p] = "sending"
      /\ errs' = errs \cup out[p] /\ step' = [step EXCEPT ![p] = "ended"]
      /\ answer' = IF received' = Cardinality(Parts) THEN "ok" ELSE answer
      /\ UNCHANGED <<kind, items, inflight, took, denied, out, broken>>
  BY DEF CollectPart, dataVars
<1>1. BatchOK
  BY DEF IInv
<1>2. Checked' = Checked /\ Parts' = Parts /\ \A q : Group(q)' = Group(q)
  BY <1>0, SameGroups
<1>3. /\ Collected' = Collected \cup {p} /\ p \in Parts /\ received' = Cardinality(Collected')
  BY CollectedMore
<1>4. Parts \subseteq Partitions /\ Collected' \subseteq Parts
  BY <1>3, Groups DEF IInv, Collected
<1>5. /\ step'[p] = "ended" /\ \A q \in Partitions : q # p => step'[q] = step[q]
  BY <1>0 DEF IInv, TypeOK
<1>6. ASSUME NEW q \in Parts PROVE PartOK(q)'
  <2>1. PartOK(q)
    BY <1>0, <1>1, <1>6 DEF BatchOK
  <2>2. CASE q = p
    BY <1>0, <1>2, <1>5, <2>1, <2>2 DEF PartOK
  <2>3. CASE q # p
    <3>1. step'[q] = step[q] /\ out'[q] = out[q]
      BY <1>0, <1>4, <1>5, <2>3
    <3> QED
      BY <1>0, <2>1, <2>3, <3>1, OtherPart
  <2> QED
    BY <2>2, <2>3
<1>7. (\A q \in Parts : PartOK(q))'
  BY <1>2, <1>6
<1>8. errs' = (items \cap Misfits) \cup UNION {out'[q] : q \in Collected'}
  BY <1>0, <1>1, <1>3 DEF BatchOK
<1>9. answer' = "ok" => Collected' = Parts
  <2>1. Parts \in SUBSET Partitions
    BY <1>4
  <2>2. IsFiniteSet(Parts)
    BY <2>1, SomePartitions
  <2>3. Cardinality(Collected') = Cardinality(Parts) => Collected' = Parts
    BY <1>4, <2>2, FS_Subset
  <2> QED
    BY <1>0, <1>3, <2>3
<1>10. BatchOK'
  <2>1. inflight' \subseteq {Group(q) : q \in Parts}'
    BY <1>0, <1>1, <1>2 DEF BatchOK
  <2> QED
    BY <1>0, <1>1, <1>2, <1>3, <1>5, <1>7, <1>8, <1>9, <2>1 DEF BatchOK
<1> QED
  BY <1>0, <1>10, BatchKept

LEMMA CommitBatchKept ==
    ASSUME IInv, kind = "batch", NEW g \in inflight, Commit(g)
    PROVE  Rest'
<1> SUFFICES ASSUME answer # "error" PROVE BatchOK'
  BY BatchKept DEF BatchOK, Commit
<1>0. PICK refused \in SUBSET g :
         /\ took' = took \cup (g \ refused) /\ denied' = denied \cup refused
         /\ inflight' = inflight \ {g}
         /\ UNCHANGED <<kind, items, step, answer, out, received, errs, broken>>
  BY DEF Commit, batchVars
<1>1. BatchOK
  BY DEF IInv
<1>2. Checked' = Checked /\ Parts' = Parts /\ \A q : Group(q)' = Group(q)
  BY <1>0, SameGroups
<1>3. PICK p \in Parts : g = Group(p)
  BY <1>1 DEF BatchOK
<1>4. ASSUME NEW q \in Parts PROVE PartOK(q)'
  <2>1. PartOK(q)
    BY <1>1, <1>4 DEF BatchOK
  <2>2. CASE q = p
    BY <1>0, <1>2, <1>3, <2>1, <2>2 DEF PartOK
  <2>3. CASE q # p
    <3>1. Group(q) \cap g = {} /\ Group(q) # g
      BY <1>3, <2>3, Groups DEF IInv
    <3>2. Group(q) \in inflight' <=> Group(q) \in inflight
      BY <1>0, <3>1
    <3>3. Group(q) \cap took' = Group(q) \cap took /\ Group(q) \cap denied' = Group(q) \cap denied
      BY <1>0, <3>1
    <3>4. out[q] \subseteq Group(q) => out[q] \cap took' = out[q] \cap took
      BY <3>3
    <3> QED
      BY <1>0, <1>2, <2>1, <3>2, <3>3, <3>4 DEF PartOK
  <2> QED
    BY <2>2, <2>3
<1>5. (\A q \in Parts : PartOK(q))'
  BY <1>2, <1>4
<1>6. inflight' \subseteq {Group(q) : q \in Parts}'
  BY <1>0, <1>1, <1>2 DEF BatchOK
<1>7. took' \subseteq Checked'
  BY <1>0, <1>1, <1>2, <1>3, Groups DEF BatchOK, IInv
<1>8. Collected' = Collected
  BY <1>0, <1>2 DEF Collected
<1> QED
  BY <1>0, <1>1, <1>2, <1>5, <1>6, <1>7, <1>8 DEF BatchOK

LEMMA LoseBatchKept ==
    ASSUME IInv, kind = "batch", NEW g \in inflight, Lose(g)
    PROVE  Rest'
<1> SUFFICES ASSUME answer # "error" PROVE BatchOK'
  BY BatchKept DEF BatchOK, Lose
<1>0. /\ inflight' = inflight \ {g}
      /\ UNCHANGED <<kind, items, took, denied, step, answer, out, received, errs, broken>>
  BY DEF Lose, batchVars
<1>1. BatchOK
  BY DEF IInv
<1>2. Checked' = Checked /\ Parts' = Parts /\ \A q : Group(q)' = Group(q)
  BY <1>0, SameGroups
<1>3. ASSUME NEW q \in Parts PROVE PartOK(q)'
  <2>1. PartOK(q)
    BY <1>1 DEF BatchOK
  <2>2. Group(q) \in inflight' => Group(q) \in inflight
    BY <1>0
  <2> QED
    BY <1>0, <1>2, <2>1, <2>2 DEF PartOK
<1>4. (\A q \in Parts : PartOK(q))'
  BY <1>2, <1>3
<1>5. inflight' \subseteq {Group(q) : q \in Parts}'
  BY <1>0, <1>1, <1>2 DEF BatchOK
<1>6. Collected' = Collected
  BY <1>0, <1>2 DEF Collected
<1> QED
  BY <1>0, <1>1, <1>2, <1>4, <1>5, <1>6 DEF BatchOK

\* The client is gone: its answer says nothing.
LEMMA LeavesKept ==
    ASSUME IInv, CollectorLeaves
    PROVE  Rest'
<1>1. /\ kind \in {"batch", "size"} /\ answer' = "error"
      /\ UNCHANGED <<ver, kind, at, step, received, errorCh, cur>>
  BY DEF CollectorLeaves, sysVars, batchVars, sizeVars
<1>2. CASE kind = "batch"
  BY <1>1, <1>2, BatchKept DEF BatchOK
<1>3. CASE kind = "size"
  <2>1. Live' = Live
    BY <1>1 DEF Live
  <2>2. SizeOK'
    BY <1>1, <1>3, <2>1 DEF IInv, SizeOK
  <2> QED
    BY <1>1, <1>3, <2>2 DEF Rest, Fresh, WriteOK, BatchOK
<1> QED
  BY <1>1, <1>2, <1>3

-----------------------------------------------------------------------------
(* Steps of a size. *)

LEMMA SizeKept ==
    ASSUME kind' = "size", SizeOK'
    PROVE  Rest'
  BY DEF Rest, Fresh, WriteOK, BatchOK

\* A goroutine starts, goes on or ends.
LEMMA LiveChange ==
    ASSUME IInv, NEW p \in Partitions, NEW s, step' = [step EXCEPT ![p] = s]
    PROVE  /\ step'[p] = s /\ \A q \in Partitions : q # p => step'[q] = step[q]
           /\ Cardinality(Live) \in Nat /\ Cardinality(Live') \in Nat
           /\ s \in Running => Cardinality(Live') <= Cardinality(Live) + 1
           /\ s \in Running /\ p \in Live => Live' = Live
           /\ s \notin Running /\ p \in Live => Cardinality(Live') = Cardinality(Live) - 1
<1>1. step'[p] = s /\ \A q \in Partitions : q # p => step'[q] = step[q]
  BY DEF IInv, TypeOK
<1>2. Live \in SUBSET Partitions /\ Live' \in SUBSET Partitions
  BY DEF Live
<1>3. /\ IsFiniteSet(Live) /\ Cardinality(Live) \in Nat
      /\ IsFiniteSet(Live') /\ Cardinality(Live') \in Nat
  BY <1>2, SomePartitions
<1>4. s \in Running => Live' = Live \cup {p}
  BY <1>1, <1>2 DEF Live
<1>5. s \notin Running => Live' = Live \ {p}
  BY <1>1, <1>2 DEF Live
<1>6. Cardinality(Live \cup {p}) <= Cardinality(Live) + 1
  <2>1. p \in Live => Live \cup {p} = Live
    OBVIOUS
  <2>2. p \notin Live => Cardinality(Live \cup {p}) = Cardinality(Live) + 1
    BY <1>3, FS_AddElement
  <2> QED
    BY <1>3, <2>1, <2>2
<1>7. p \in Live => Cardinality(Live \ {p}) = Cardinality(Live) - 1
  BY <1>3, FS_RemoveElement
<1> QED
  BY <1>1, <1>3, <1>4, <1>5, <1>6, <1>7

\* If only the last partition has a goroutine, a goroutine is the last partition's.
LEMMA ItIsLast ==
    ASSUME OnlyLast', NEW p \in Partitions, step'[p] # "unborn"
    PROVE  p = Last
<1>1. PICK i \in 1..Len(Order) : p = Order[i]
  BY DEF Partitions
<1>2. i = Len(Order)
  BY <1>1, OrderFacts DEF OnlyLast
<1> QED
  BY <1>1, <1>2 DEF Last

LEMMA SubmitSizeKept ==
    ASSUME IInv, SubmitSize
    PROVE  Rest'
<1>1. /\ kind' = "size" /\ ver[at] > 0 /\ answer = "none"
      /\ UNCHANGED <<ver, at, answer, step, received, errorCh, cur, sum>>
      /\ \A p \in Partitions : step[p] = "unborn"
      /\ received = 0 /\ errorCh = <<>> /\ cur = 0 /\ sum = 0
  BY DEF SubmitSize, Submit, sysVars, sizeVars, IInv, Fresh
<1>2. Live' = {}
  BY <1>1 DEF Live, Running
<1>3. Cardinality(Live') = 0
  BY <1>2, FS_EmptySet
<1>4. Summed'
  <2>1. step'[Last] = "unborn" /\ sum' = Sum[cur']
    BY <1>1, OrderFacts, SumIs
  <2> QED
    BY <2>1 DEF Summed
<1>5. Len(errorCh') = 0
  BY <1>1
<1>6. SizeOK'
  BY <1>1, <1>3, <1>4, <1>5, OrderFacts DEF SizeOK
<1> QED
  BY <1>1, <1>6, SizeKept

\* While a goroutine runs, the size has no answer but an error.
LEMMA NotYet ==
    ASSUME IInv, kind = "size", Live # {}
    PROVE  answer # "ok"
<1>1. Live \in SUBSET Partitions
  BY DEF Live
<1>2. Cardinality(Live) # 0
  BY <1>1, SomePartitions, FS_EmptySet
<1> QED
  BY <1>2, SizeRoom, OrderFacts DEF IInv, SizeOK

LEMMA SizeTurnKept ==
    ASSUME IInv, SizeTurn
    PROVE  Rest'
<1> DEFINE p == Order[cur + 1]
<1>0. /\ kind = "size" /\ cur < Len(Order) /\ cur' = cur + 1
      /\ UNCHANGED <<ver, kind, at, answer, received>>
  BY DEF SizeTurn, sysVars, batchVars
<1>1. /\ p \in Partitions /\ cur \in Nat /\ Len(errorCh) \in Nat /\ received \in Nat
      /\ Cardinality(Live) \in Nat /\ Len(Order) \in Nat
  BY <1>0, OrderFacts, SizeRoom
<1>2. SizeOK /\ errorCh \in Seq({"nil", "error"})
  BY DEF IInv
<1>3. OnlyLast /\ answer # "error" => step[Last] = "unborn" /\ sum = Sum[cur]
  <2>1. step[Last] \in {"unborn", "routing", "dialled", "ended"}
    BY <1>0, <1>2, OrderFacts DEF SizeOK
  <2> QED
    BY <1>0, <1>1, <1>2, <2>1 DEF SizeOK, Summed
<1>4. CASE IsOnNode(at, p)
  <2>1. sum' = sum + LenOf[p] /\ errorCh' = Append(errorCh, "nil") /\ step' = step
    BY <1>4 DEF SizeTurn
  <2>2. Len(errorCh') = Len(errorCh) + 1
    BY <1>2, <2>1, AppendProperties
  <2>3. Live' = Live /\ OnlyLast' = OnlyLast
    BY <2>1 DEF Live, OnlyLast
  <2>4. Sum[cur + 1] = Sum[cur] + LenOf[p]
    <3>1. cur + 1 \in 1..Len(Order) /\ (cur + 1) - 1 = cur
      BY <1>0, <1>1
    <3> QED
      BY <3>1, SumIs
  <2>5. answer # "error" /\ OnlyLast => Summed'
    BY <1>0, <1>3, <2>1, <2>4 DEF Summed
  <2>6. SizeOK'
    BY <1>0, <1>1, <1>2, <2>1, <2>2, <2>3, <2>5 DEF SizeOK
  <2> QED
    BY <1>0, <2>6, SizeKept
<1>5. CASE ~IsOnNode(at, p)
  <2>1. step' = [step EXCEPT ![p] = "routing"] /\ errorCh' = errorCh /\ sum' = sum
    BY <1>5 DEF SizeTurn
  <2>2. /\ step'[p] = "routing" /\ \A q \in Partitions : q # p => step'[q] = step[q]
        /\ Cardinality(Live') \in Nat /\ Cardinality(Live') <= Cardinality(Live) + 1
    BY <1>1, <2>1, LiveChange DEF Running
  <2>3. ASSUME answer # "error", OnlyLast' PROVE Summed'
    <3>1. cur + 1 = Len(Order)
      BY <1>0, <1>1, <2>2, <2>3 DEF OnlyLast
    <3>2. OnlyLast
      BY <2>2, <2>3, OrderFacts DEF OnlyLast
    <3>3. sum' = Sum[Len(Order) - 1]
      BY <1>1, <1>3, <2>1, <2>3, <3>1, <3>2
    <3>4. p = Last
      BY <3>1 DEF Last
    <3> QED
      BY <1>0, <2>2, <3>1, <3>3, <3>4 DEF Summed
  <2>4. SizeOK'
    BY <1>0, <1>1, <1>2, <2>1, <2>2, <2>3 DEF SizeOK
  <2> QED
    BY <1>0, <2>4, SizeKept
<1> QED
  BY <1>4, <1>5

\* A goroutine ends: it added its part to the sum, or it reports an error.
LEMMA SizeEnds ==
    ASSUME IInv, kind = "size", NEW p \in Partitions, step[p] \in {"routing", "dialled"},
           step' = [step EXCEPT ![p] = "ended"],
           UNCHANGED <<ver, kind, at, answer, received, cur>>,
           \/ sum' = sum + LenOf[Order[cur]] /\ errorCh' = errorCh
           \/ sum' = sum /\ errorCh' = Append(errorCh, "error")
    PROVE  Rest'
<1>0. SizeOK /\ errorCh \in Seq({"nil", "error"}) /\ p \in Live
  BY DEF IInv, Live, Running
<1>1. /\ cur \in Nat /\ Len(errorCh) \in Nat /\ received \in Nat
      /\ Len(Order) \in Nat /\ Len(Order) > 0
  BY OrderFacts, SizeRoom
<1>2. /\ step'[p] = "ended" /\ \A q \in Partitions : q # p => step'[q] = step[q]
      /\ Cardinality(Live) \in Nat /\ Cardinality(Live') \in Nat
      /\ Cardinality(Live') = Cardinality(Live) - 1
  BY <1>0, LiveChange DEF Running
<1>3. /\ Len(errorCh') <= Len(errorCh) + 1 /\ Len(errorCh') \in Nat
      /\ errorCh' # errorCh => \E k \in 1..Len(errorCh') : errorCh'[k] = "error"
  BY <1>0, <1>1, AppendProperties
<1>4. ASSUME answer # "error", OnlyLast' PROVE Summed'
  <2>1. p = Last
    BY <1>2, <1>4, ItIsLast
  <2>2. \A i \in 1..Len(Order) - 1 : Order[i] # p
    BY <1>2, <1>4, OrderFacts DEF OnlyLast
  <2>3. OnlyLast
    BY <1>2, <1>4, <2>2, OrderFacts DEF OnlyLast
  <2>4. cur = Len(Order) /\ sum = Sum[Len(Order) - 1]
    BY <1>0, <1>4, <2>1, <2>3 DEF SizeOK, Summed
  <2>5. Sum[Len(Order)] = Sum[Len(Order) - 1] + LenOf[Order[Len(Order)]]
    <3>1. Len(Order) \in 1..Len(Order)
      BY <1>1
    <3> QED
      BY <3>1, SumIs
  <2>6. CASE sum' = sum + LenOf[Order[cur]] /\ errorCh' = errorCh
    BY <1>2, <2>1, <2>4, <2>5, <2>6 DEF Summed
  <2>7. CASE sum' = sum /\ errorCh' = Append(errorCh, "error")
    <3>1. errorCh'[Len(errorCh')] = "error" /\ Len(errorCh') \in 1..Len(errorCh')
      BY <1>0, <1>1, <2>7, AppendProperties
    <3> QED
      BY <1>2, <2>1, <2>4, <3>1 DEF Summed
  <2> QED
    BY <2>6, <2>7
<1>5. SizeOK'
  BY <1>0, <1>1, <1>2, <1>3, <1>4 DEF SizeOK
<1> QED
  BY <1>5, SizeKept

LEMMA SizePickKept ==
    ASSUME IInv, NEW p \in Partitions, SizePick(p)
    PROVE  Rest'
<1>0. kind = "size" /\ step[p] = "routing" /\ p \in Live
  BY DEF SizePick, Live, Running
<1>1. CASE Panic(at)
  BY <1>0, <1>1, NotYet, PanicKept DEF IInv, TypeOK
<1>2. CASE /\ step' = [step EXCEPT ![p] = "dialled"]
           /\ UNCHANGED <<ver, kind, at, answer, received, cur, errorCh, sum>>
  <2>1. /\ step'[p] = "dialled" /\ \A q \in Partitions : q # p => step'[q] = step[q]
        /\ Live' = Live
    BY <1>0, <1>2, LiveChange DEF Running
  <2>2. ASSUME answer # "error", OnlyLast' PROVE Summed'
    <3>1. p = Last
      BY <2>1, <2>2, ItIsLast
    <3>2. OnlyLast
      BY <2>1, <2>2, OrderFacts DEF OnlyLast
    <3> QED
      BY <1>0, <1>2, <2>1, <2>2, <3>1, <3>2 DEF IInv, SizeOK, Summed
  <2>3. SizeOK'
    BY <1>0, <1>2, <2>1, <2>2 DEF IInv, SizeOK
  <2> QED
    BY <1>0, <1>2, <2>3, SizeKept
<1>3. CASE /\ errorCh' = Append(errorCh, "error") /\ step' = [step EXCEPT ![p] = "ended"]
           /\ UNCHANGED <<ver, kind, at, answer, received, cur, sum>>
  BY <1>0, <1>3, SizeEnds
<1> QED
  BY <1>1, <1>2, <1>3 DEF SizePick, sysVars, batchVars

LEMMA SizeAskKept ==
    ASSUME IInv, NEW p \in Partitions, SizeAsk(p)
    PROVE  Rest'
<1>1. /\ kind = "size" /\ step[p] = "dialled" /\ step' = [step EXCEPT ![p] = "ended"]
      /\ UNCHANGED <<ver, kind, at, answer, received, cur>>
      /\ \/ sum' = sum + LenOf[Order[cur]] /\ errorCh' = errorCh
         \/ sum' = sum /\ errorCh' = Append(errorCh, "error")
  BY DEF SizeAsk, sysVars, batchVars
<1> QED
  BY <1>1, SizeEnds

LEMMA SizeReceiveKept ==
    ASSUME IInv, SizeReceive
    PROVE  Rest'
<1>0. /\ kind = "size" /\ cur = Len(Order) /\ answer = "none"
      /\ errorCh # <<>> \/ SizeClosed
      /\ received' = received + 1
      /\ errorCh' = IF errorCh = <<>> THEN errorCh ELSE Tail(errorCh)
      /\ answer' = IF errorCh # <<>> /\ Head(errorCh) = "error" THEN "error"
                   ELSE IF received' = Len(Order) THEN "ok" ELSE "none"
      /\ UNCHANGED <<ver, kind, at, step, cur, sum>>
  BY DEF SizeReceive, sysVars
<1>1. /\ Len(errorCh) \in Nat /\ received \in Nat /\ Len(Order) \in Nat
      /\ Cardinality(Live) \in Nat
  BY <1>0, OrderFacts, SizeRoom
<1>2. SizeOK /\ errorCh \in Seq({"nil", "error"})
  BY DEF IInv
<1>3. Live' = Live /\ OnlyLast' = OnlyLast
  BY <1>0 DEF Live, OnlyLast
<1>4. received' + Len(errorCh') + Cardinality(Live') <= cur'
  <2>1. CASE errorCh = <<>>
    <3>1. Live = {}
      BY <1>0, <2>1 DEF SizeClosed, Live
    <3>2. Cardinality(Live) = 0 /\ Len(errorCh) = 0
      BY <2>1, <3>1, FS_EmptySet
    <3> QED
      BY <1>0, <1>1, <1>2, <1>3, <2>1, <3>2 DEF SizeOK
  <2>2. CASE errorCh # <<>>
    <3>1. Len(errorCh') = Len(errorCh) - 1
      BY <1>0, <1>2, <2>2, HeadTailProperties
    <3>2. received + Len(errorCh) + Cardinality(Live) <= cur
      BY <1>0, <1>2 DEF SizeOK
    <3>3. received' = received + 1 /\ cur' = cur /\ Cardinality(Live') = Cardinality(Live)
      BY <1>0, <1>3
    <3>4. cur \in Nat
      BY <1>0, <1>1
    <3> QED
      BY <1>1, <3>1, <3>2, <3>3, <3>4
  <2> QED
    BY <2>1, <2>2
<1>5. ASSUME answer' # "error", OnlyLast' PROVE Summed'
  <2>1. Summed
    BY <1>0, <1>2, <1>3, <1>5 DEF SizeOK
  <2>2. (\E k \in 1..Len(errorCh) : errorCh[k] = "error")
        => \E k \in 1..Len(errorCh') : errorCh'[k] = "error"
    <3> SUFFICES ASSUME NEW k \in 1..Len(errorCh), errorCh[k] = "error"
                 PROVE  \E m \in 1..Len(errorCh') : errorCh'[m] = "error"
      OBVIOUS
    <3>1. errorCh # <<>> /\ Head(errorCh) # "error" /\ errorCh' = Tail(errorCh)
      BY <1>0, <1>5
    <3>2. k # 1
      BY <1>2, <3>1
    <3>3. /\ Len(errorCh') = Len(errorCh) - 1
          /\ k - 1 \in 1..Len(errorCh') /\ errorCh'[k - 1] = errorCh[k]
      BY <1>1, <1>2, <3>1, <3>2, HeadTailProperties
    <3> QED
      BY <3>3
  <2> QED
    BY <1>0, <2>1, <2>2 DEF Summed
<1>6. received < Len(Order)
  BY <1>0, <1>2 DEF SizeOK
<1>7. answer' = "none" => received' < Len(Order)
  BY <1>0, <1>1, <1>6
<1>8. answer' = "ok" => received' = Len(Order)
  BY <1>0
<1>9. ver'[at'] > 0 /\ \A p \in Partitions : step'[p] \in {"unborn", "routing", "dialled", "ended"}
  BY <1>0, <1>2 DEF SizeOK
<1>10. SizeOK'
  BY <1>4, <1>5, <1>7, <1>8, <1>9 DEF SizeOK
<1> QED
  BY <1>0, <1>10, SizeKept

-----------------------------------------------------------------------------
(* The theorems. *)

\* The invariant, from one step to the next.
LEMMA InitInvariant == Init => IInv
<1> SUFFICES ASSUME Init PROVE IInv
  OBVIOUS
<1>1. TypeOK
  <2>1. Len(errorCh) = 0 /\ 0 \in 0..Len(Order) /\ 0 \in 0..Len(Placements)
    BY OrderFacts, RequestsAssumption DEF Init
  <2>2. ver \in [Nodes -> 0..Len(Placements)] /\ asked \in [Partitions -> Nodes]
    BY <2>1 DEF Init
  <2>3. /\ step \in [Partitions -> {"unborn", "ended"} \cup Running]
        /\ out \in [Partitions -> SUBSET Items]
    BY DEF Init
  <2>4. Len(errorCh) <= Len(Order)
    BY <2>1
  <2> QED
    BY <2>1, <2>2, <2>3, <2>4 DEF Init, TypeOK
<1>2. errorCh \in Seq({"nil", "error"})
  BY DEF Init
<1>3. Fresh
  BY DEF Init, Fresh
<1> QED
  BY <1>1, <1>2, <1>3 DEF Init, IInv, WriteOK, BatchOK, SizeOK

LEMMA NextInvariant == IInv /\ [Next]_vars => IInv'
<1> SUFFICES ASSUME IInv, [Next]_vars PROVE IInv'
  OBVIOUS
<1> USE DEF Types
<1>0. Types' /\ Rest' => IInv'
  BY DEF IInv, Rest
<1>1. CASE (\E n \in Nodes : AdvanceView(n)) \/ Leave \/ UNCHANGED vars
  BY <1>0, <1>1, CommonType, Kept
<1>2. ASSUME NEW g \in inflight, Commit(g) \/ Lose(g) PROVE IInv'
  <2>1. Types'
    BY <1>2, CommonType
  <2>2. kind \in {"write", "batch"} => Rest'
    BY <1>2, CommitWriteKept, CommitBatchKept, LoseWriteKept, LoseBatchKept
  <2>3. kind # "none"
    BY <1>2 DEF IInv, Fresh
  <2>4. kind = "size" => Rest'
    <3> SUFFICES ASSUME kind = "size" PROVE Rest'
      OBVIOUS
    <3>1. UNCHANGED <<ver, kind, at, answer, step, received, cur, errorCh, sum>>
      BY <1>2 DEF Commit, Lose, sysVars, batchVars, sizeVars
    <3>2. Live' = Live /\ OnlyLast' = OnlyLast /\ Summed' = Summed
      BY <3>1 DEF Live, OnlyLast, Summed, Last
    <3>3. SizeOK'
      BY <3>1, <3>2 DEF IInv, SizeOK
    <3> QED
      BY <3>1, <3>3, SizeKept
  <2> QED
    BY <1>0, <2>1, <2>2, <2>3, <2>4 DEF IInv, TypeOK
<1>3. ASSUME NEW i \in Items, SubmitWrite(i) PROVE IInv'
  BY <1>0, <1>3, SubmitType, SubmitWriteKept
<1>4. ASSUME NEW b \in SUBSET Items, SubmitBatch(b) PROVE IInv'
  BY <1>0, <1>4, SubmitType, SubmitBatchKept
<1>5. CASE SubmitSize
  BY <1>0, <1>5, SubmitType, SubmitSizeKept
<1>6. ASSUME NEW p \in Partitions,
             RouteWrite(p) \/ RefuseWrite(p) \/ Propose(p) \/ WriteApplied(p) \/ GiveUp(p)
      PROVE  IInv'
  <2>1. Types'
    BY <1>6, WriteType
  <2>2. Propose(p) \/ GiveUp(p) => kind = "write" \/ kind = "batch"
    BY DEF Propose, GiveUp
  <2>3. RefuseWrite(p) \/ WriteApplied(p) => kind = "write"
    BY DEF RefuseWrite, WriteApplied
  <2> QED
    BY <1>0, <1>6, <2>1, <2>2, <2>3, RouteWriteKept, EndWriteKept, ReportKept, ProposeWriteKept,
       ProposePartKept
<1>7. ASSUME NEW p \in Partitions,
             RoutePart(p) \/ RefusePart(p) \/ PartApplied(p) \/ BreakPart(p) \/ CollectPart(p)
      PROVE  IInv'
  <2>1. Types'
    BY <1>7, BatchType
  <2>2. ASSUME RoutePart(p) \/ CollectPart(p) PROVE Rest'
    BY <2>2, RoutePartKept, CollectKept
  <2>3. ASSUME RefusePart(p) \/ PartApplied(p) \/ BreakPart(p) PROVE Rest'
    <3>1. RefusePart(p) \/ PartApplied(p) \/ BreakPart(p) \/ (kind = "batch" /\ GiveUp(p))
      BY <2>3
    <3> QED
      BY <3>1, ReportKept
  <2> QED
    BY <1>0, <1>7, <2>1, <2>2, <2>3
<1>8. ASSUME NEW p \in Partitions, SizePick(p) \/ SizeAsk(p) PROVE IInv'
  BY <1>0, <1>8, SizeType, SizePickKept, SizeAskKept
<1>9. CASE BreakWrite \/ CollectorLeaves
  BY <1>0, <1>9, CommonType, BreakWriteKept, LeavesKept
<1>10. CASE SizeTurn \/ SizeReceive
  BY <1>0, <1>10, SizeType, SizeTurnKept, SizeReceiveKept
<1> QED
  BY <1>1, <1>2, <1>3, <1>4, <1>5, <1>6, <1>7, <1>8, <1>9, <1>10 DEF Next

\* What the answer to a write, a batch or a size says, at last.
LEMMA InvariantAnswers == IInv => AnswerInvariant /\ SizeAnswered
<1> SUFFICES ASSUME IInv PROVE AnswerInvariant /\ SizeAnswered
  OBVIOUS
<1>1. WriteAnswered
  BY DEF IInv, WriteOK, WriteAnswered
<1>2. BatchAnswered
  <2> SUFFICES ASSUME kind = "batch", answer = "ok"
               PROVE  /\ items \ errs \subseteq took
                      /\ ~broken => errs \cap took = {} /\ inflight = {}
    BY DEF BatchAnswered
  <2>1. /\ Collected = Parts /\ \A q \in Parts : PartOK(q)
        /\ inflight \subseteq {Group(q) : q \in Parts} /\ took \subseteq Checked
        /\ errs = (items \cap Misfits) \cup UNION {out[q] : q \in Parts}
    BY DEF IInv, BatchOK
  <2>2. \A q \in Parts : step[q] = "ended"
    BY <2>1 DEF Collected
  <2>3. ASSUME NEW i \in items \ errs PROVE i \in took
    <3>1. i \in Checked
      BY <2>1, <2>3 DEF Checked
    <3>2. PICK q \in Parts : i \in Group(q)
      BY <3>1, Groups DEF IInv
    <3>3. i \notin out[q]
      BY <2>1, <2>3, <3>2
    <3> QED
      BY <2>1, <2>2, <3>2, <3>3 DEF PartOK
  <2>4. ASSUME ~broken PROVE errs \cap took = {} /\ inflight = {}
    <3>1. \A q \in Parts : out[q] \cap took = {} /\ Group(q) \notin inflight
      BY <2>1, <2>2, <2>4 DEF PartOK
    <3>2. (items \cap Misfits) \cap took = {}
      BY <2>1 DEF Checked
    <3> QED
      BY <2>1, <3>1, <3>2
  <2> QED
    BY <2>3, <2>4
<1>3. SizeAnswered
  <2> SUFFICES ASSUME kind = "size", answer = "ok"
               PROVE  /\ SizeClosed
                      /\ (\A i \in Indices : step[Order[i]] = "ended" => i = Len(Order))
                         => sum = Sum[Len(Order)]
    BY DEF SizeAnswered
  <2>1. SizeOK /\ received = Len(Order)
    BY DEF IInv, SizeOK
  <2>2. /\ cur = Len(Order) /\ Len(errorCh) = 0 /\ Cardinality(Live) = 0
    BY <2>1, SizeRoom, OrderFacts DEF SizeOK
  <2>3. Live \in SUBSET Partitions
    BY DEF Live
  <2>4. Live = {}
    BY <2>2, <2>3, SomePartitions, FS_EmptySet
  <2>5. SizeClosed
    BY <2>4 DEF Live, SizeClosed
  <2>6. ASSUME \A i \in Indices : step[Order[i]] = "ended" => i = Len(Order)
        PROVE  sum = Sum[Len(Order)]
    <3>1. \A p \in Partitions : step[p] \in {"unborn", "ended"}
      BY <2>1, <2>5 DEF SizeOK, SizeClosed, Running
    <3>2. OnlyLast
      BY <2>6, <3>1, OrderFacts DEF OnlyLast, Indices
    <3>3. Summed
      BY <2>1, <3>2 DEF SizeOK
    <3> QED
      BY <2>2, <3>1, <3>3, OrderFacts DEF Summed
  <2> QED
    BY <2>5, <2>6
<1> QED
  BY <1>1, <1>2, <1>3 DEF AnswerInvariant, IInv

\* The answer to a write is true unless the way of the request broke or the wait for raft
\* ended undecided (proposalTimeout); an item that a batch reports without an error was
\* applied whatever broke, and one in error was not applied, unless the same happened
\* (dataset.go:172-236, :549-625, partition.go:308-341).
THEOREM AnswerCorrect == Spec => []AnswerInvariant
  BY InitInvariant, NextInvariant, InvariantAnswers, PTL DEF Spec

\* A size without an error has heard of every goroutine, and counts each partition once
\* while only the last of the order is asked for elsewhere (dataset.go:103-157).
THEOREM SizeCorrect == Spec => []SizeAnswered
  BY InitInvariant, NextInvariant, InvariantAnswers, PTL DEF Spec
=============================================================================
