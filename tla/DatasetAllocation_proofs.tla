------------------------ MODULE DatasetAllocation_proofs ------------------------
(***************************************************************************)
(* Proof, for every set of nodes, datasets and partitions, of what the     *)
(* allocator and the zero group keep of a node's partitions while they     *)
(* run side by side (the safety properties of DatasetAllocation).          *)
(***************************************************************************)
EXTENDS DatasetAllocation, FiniteSetTheorems, SequenceTheorems, WellFoundedInduction, TLAPS

-----------------------------------------------------------------------------
(* The inductive invariant. *)

Changes == Creations \cup Deletions \cup MemberChanges \cup Updates

ZeroOK ==
    \/ zero = Nobody
    \/ zero \in [pc : {"watch", "unwatch"}, todo : SUBSET Partitions]
    \/ zero \in [pc : {"offer"}, back : {"watch", "unwatch"}, todo : SUBSET Partitions]
    \/ zero \in [pc : {"notify"}, change : MemberChanges]

AllocOK ==
    \/ alloc = [pc |-> "select"]
    \/ alloc \in [pc : {"update"}, kind : {"watch", "unwatch"}, part : Partitions]
    \/ alloc \in [pc : {"lock"}, change : MemberChanges]
    \/ alloc \in [pc : {"iterate"}, change : MemberChanges, todo : SUBSET Partitions]
    \/ alloc \in [pc : {"iterate", "propose", "proposed", "waiting", "joining"},
                  change : MemberChanges, todo : SUBSET Partitions, part : Partitions]

Types ==
    /\ committed \in Seq(Changes)
    /\ proposed \subseteq Updates /\ \A u \in proposed : u.mine
    /\ datasets \subseteq made /\ made \subseteq Datasets
    /\ nodeIds \in [Partitions -> Seq(Nodes)]
    /\ watched \subseteq Partitions /\ groups \subseteq Partitions /\ raft \subseteq groups
    /\ addresses \subseteq Nodes
    /\ notifs \in Seq(MemberChanges) /\ Len(notifs) <= NotificationCap
    /\ ZeroOK /\ AllocOK
    /\ update \in Offer \cup {NoUpdate} /\ (update # NoUpdate <=> zero.pc = "offer")
    /\ crashed \in BOOLEAN /\ fixed \in BOOLEAN

\* Where zero is in handing over partitions, and which are still to be handed over.
Phase == IF zero.pc = "offer" THEN zero.back ELSE zero.pc

WatchInv ==
    /\ Phase \in {"idle", "notify"} => watched = PartitionsOfDatasets
    /\ Phase = "watch" => watched \cup zero.todo = PartitionsOfDatasets
    /\ Phase = "unwatch" => /\ watched \ zero.todo = PartitionsOfDatasets
                            /\ zero.todo \cap PartitionsOfDatasets = {}

\* The allocator's map as it was before the update that is offered, and before the one
\* that the allocator handles.
Before(kind, p, S) == IF kind = "watch" THEN S \ {p} ELSE S \cup {p}
Offered == IF update = NoUpdate THEN watched ELSE Before(update.kind, update.part, watched)
Handled == IF alloc.pc = "update" THEN Before(alloc.kind, alloc.part, Offered) ELSE Offered

UpdateInv ==
    /\ update # NoUpdate => (update.kind = "watch" <=> update.part \in watched)
    /\ alloc.pc = "update" => (alloc.kind = "watch" <=> alloc.part \in Offered)

\* What the allocator has handled is served, by it or by zero.
ServedInv == \A p \in Handled : Assigned(p) => p \in groups

\* A dataset that is not made yet, or whose creation is not applied: nothing knows of its
\* partitions.
Created(i) == committed[i].kind = "create"
NotYet(d) == d \notin made \/ \E i \in DOMAIN committed : Created(i) /\ committed[i].dataset = d

FreshInv ==
    /\ \A d \in Datasets : NotYet(d) =>
          /\ d \notin datasets
          /\ \A p \in PartsOf[d] : p \notin watched /\ p \notin Offered /\ p \notin Handled
    /\ \A i \in DOMAIN committed : Created(i) => committed[i].dataset \in made
    /\ \A i, j \in DOMAIN committed :
          Created(i) /\ Created(j) /\ i # j => committed[i].dataset # committed[j].dataset

\* While no member joins or leaves, nothing is loaded but by the allocator's updates.
FixedInv ==
    fixed =>
        /\ groups = {p \in Handled : Assigned(p)} /\ raft = groups
        /\ proposed = {} /\ notifs = <<>> /\ zero.pc # "notify"
        /\ alloc.pc \in {"select", "update"}
        /\ \A i \in DOMAIN committed : committed[i].kind \in {"create", "delete"}

\* The allocator's change: in raft, in the committed log, or nowhere.
OneOut ==
    /\ \/ proposed = {} /\ Mine = {}
       \/ Mine = {} /\ \E u : proposed = {u}
       \/ proposed = {} /\ \E i : Mine = {i}
    /\ alloc.pc \notin {"proposed", "waiting"} => proposed = {} /\ Mine = {}

IInv == Types /\ WatchInv /\ UpdateInv /\ ServedInv /\ FreshInv /\ FixedInv /\ OneOut

LEMMA Parts ==
    IInv <=> /\ Types /\ WatchInv /\ UpdateInv /\ ServedInv /\ FreshInv /\ FixedInv /\ OneOut
  BY DEF IInv

-----------------------------------------------------------------------------
(* Lemmas about sequences and changes. *)

LessThan == {r \in Nat \X Nat : r[1] < r[2]}

\* Induction, for a set of naturals.
LEMMA NatInduct ==
    ASSUME NEW S, 0 \in S, \A n \in Nat : n \in S => n + 1 \in S
    PROVE  Nat \subseteq S
<1> DEFINE T == Nat \ S
<1> SUFFICES ASSUME T # {} PROVE FALSE
  OBVIOUS
<1>1. LessThan = OpToRel(<, Nat)
  BY DEF LessThan, OpToRel
<1>2. PICK x \in T : \A y \in T : <<y, x>> \notin LessThan
  BY <1>1, NatLessThanWellFounded, WFMin
<1>3. x # 0 /\ x - 1 \in Nat /\ x - 1 \in T
  BY <1>2
<1>4. <<x - 1, x>> \in LessThan
  <2>1. <<x - 1, x>> \in Nat \X Nat /\ <<x - 1, x>>[1] < <<x - 1, x>>[2]
    BY <1>3
  <2> QED
    BY <2>1 DEF LessThan
<1> QED
  BY <1>2, <1>3, <1>4

\* removeNode leaves the other nodes, and only them: by induction the recursive function
\* is defined on every prefix, and its values are sequences of the nodes that are left.
LEMMA OthersIs ==
    ASSUME NEW ids \in Seq(Nodes), NEW n
    PROVE  Others(ids, n) \in Seq(Nodes) /\ ToSet(Others(ids, n)) \subseteq ToSet(ids) \ {n}
<1> DEFINE Left == ToSet(ids) \ {n}
           Def(f, m) == f = [i \in 0..m |-> IF i = 0 THEN <<>>
                                            ELSE IF ids[i] = n THEN f[i - 1]
                                            ELSE Append(f[i - 1], ids[i])]
           S == {m \in Nat : \E f : Def(f, m)}
<1>0. Len(ids) \in Nat /\ \A i \in 1..Len(ids) : ids[i] \in ToSet(ids) /\ ids[i] \in Nodes
  BY DEF ToSet
<1>1. 0 \in S
  <2>1. Def([i \in 0..0 |-> <<>>], 0)
    OBVIOUS
  <2> QED
    BY <2>1
<1>2. ASSUME NEW m \in Nat, m \in S PROVE m + 1 \in S
  <2>1. PICK f : Def(f, m)
    BY <1>2
  <2> DEFINE next == IF ids[m + 1] = n THEN f[m] ELSE Append(f[m], ids[m + 1])
             h == [i \in 0..m + 1 |-> IF i = m + 1 THEN next ELSE f[i]]
  <2>2. ASSUME NEW i \in 0..m + 1
        PROVE  h[i] = IF i = 0 THEN <<>>
                      ELSE IF ids[i] = n THEN h[i - 1] ELSE Append(h[i - 1], ids[i])
    <3>1. CASE i = m + 1
      <4>1. h[i] = next /\ i - 1 = m /\ h[m] = f[m] /\ i # 0
        BY <3>1
      <4> QED
        BY <3>1, <4>1
    <3>2. CASE i # m + 1
      <4>1. i \in 0..m /\ h[i] = f[i]
        BY <3>2
      <4>2. i # 0 => i - 1 \in 0..m + 1 /\ i - 1 # m + 1 /\ h[i - 1] = f[i - 1]
        BY <3>2
      <4>3. f[i] = IF i = 0 THEN <<>> ELSE IF ids[i] = n THEN f[i - 1] ELSE Append(f[i - 1], ids[i])
        BY <2>1, <4>1
      <4> HIDE DEF h
      <4> QED
        BY <4>1, <4>2, <4>3
    <3> QED
      BY <3>1, <3>2
  <2>3. Def(h, m + 1)
    <3>1. h = [i \in 0..m + 1 |-> h[i]]
      OBVIOUS
    <3> HIDE DEF h
    <3> QED
      BY <2>2, <3>1
  <2>4. \E f2 : Def(f2, m + 1)
    <3> HIDE DEF h, Def
    <3> QED
      BY <2>3
  <2> HIDE DEF Def
  <2> QED
    BY <2>4
<1>3. Nat \subseteq S
  <2> HIDE DEF S
  <2> QED
    BY <1>1, <1>2, NatInduct
<1>4. \E f : Def(f, Len(ids))
  BY <1>0, <1>3
<1> DEFINE kept == CHOOSE g : Def(g, Len(ids))
<1>5. Def(kept, Len(ids))
  <2> HIDE DEF Def
  <2> QED
    BY <1>4
<1>6. Others(ids, n) = kept[Len(ids)]
  BY DEF Others
<1> DEFINE K == {m \in Nat : m <= Len(ids) => kept[m] \in Seq(Left)}
<1> HIDE DEF kept
<1>7. 0 \in K
  BY <1>0, <1>5
<1>8. ASSUME NEW m \in Nat, m \in K PROVE m + 1 \in K
  <2> SUFFICES ASSUME m + 1 <= Len(ids) PROVE kept[m + 1] \in Seq(Left)
    OBVIOUS
  <2>1. m + 1 \in 1..Len(ids) /\ m + 1 \in 0..Len(ids) /\ m + 1 # 0 /\ m + 1 - 1 = m
    <3>1. Len(ids) \in Nat
      BY <1>0
    <3>2. \A k \in Nat : m + 1 <= k =>
              m + 1 \in 1..k /\ m + 1 \in 0..k /\ m + 1 # 0 /\ m + 1 - 1 = m
      OBVIOUS
    <3> QED
      BY <3>1, <3>2
  <2>2. kept[m + 1] = IF ids[m + 1] = n THEN kept[m] ELSE Append(kept[m], ids[m + 1])
    <3>1. \A i \in 0..Len(ids) :
            kept[i] = IF i = 0 THEN <<>>
                      ELSE IF ids[i] = n THEN kept[i - 1] ELSE Append(kept[i - 1], ids[i])
      BY <1>5
    <3>2. kept[m + 1] = IF ids[m + 1] = n THEN kept[m + 1 - 1] ELSE Append(kept[m + 1 - 1], ids[m + 1])
      BY <2>1, <3>1
    <3> QED
      BY <2>1, <3>2
  <2>3. kept[m] \in Seq(Left)
    BY <1>0, <1>8
  <2>4. ids[m + 1] # n => ids[m + 1] \in Left
    BY <1>0, <2>1
  <2> HIDE DEF Left
  <2> QED
    BY <2>2, <2>3, <2>4
<1>9. kept[Len(ids)] \in Seq(Left)
  <2>1. Nat \subseteq K
    <3> HIDE DEF K
    <3> QED
      BY <1>7, <1>8, NatInduct
  <2> QED
    BY <1>0, <2>1
<1>10. Left \subseteq Nodes
  BY <1>0 DEF ToSet
<1> HIDE DEF Left
<1>11. kept[Len(ids)] \in Seq(Nodes)
  BY <1>9, <1>10
<1>12. ToSet(kept[Len(ids)]) \subseteq Left
  BY <1>9 DEF ToSet
<1> QED
  BY <1>6, <1>11, <1>12 DEF Left

LEMMA OrdersAreSeqs == Orders \subseteq Seq(Nodes)
<1> SUFFICES ASSUME NEW o \in Orders PROVE o \in Seq(Nodes)
  OBVIOUS
<1>1. PICK T \in SUBSET Nodes : o \in SetToSeqs(T)
  BY DEF Orders, SetToAllKPermutations
<1>2. Cardinality(T) \in Nat
  BY <1>1, AllocationAssumption, FS_Subset, FS_CardinalityType
<1>3. o \in [1..Cardinality(T) -> T]
  BY <1>1 DEF SetToSeqs
<1>4. o \in Seq(T)
  BY <1>2, <1>3
<1> QED
  BY <1>1, <1>4

\* What each kind of change is.
LEMMA ChangeIs ==
    ASSUME NEW c \in Changes
    PROVE  /\ c.kind = "create" => c.dataset \in Datasets /\ c.at \in Seq(Nodes)
           /\ c.kind = "delete" => c.dataset \in Datasets
           /\ c.kind \in {"join", "leave"} => c \in MemberChanges /\ c.node \in Nodes
           /\ c.kind \in {"add", "remove"} =>
                 c.part \in Partitions /\ c.node \in Nodes /\ c.mine \in BOOLEAN
           /\ c.kind \in {"create", "delete", "join", "leave", "add", "remove"}
  BY OrdersAreSeqs DEF Changes, Creations, Deletions, MemberChanges, Updates

\* The first committed change is taken.
LEMMA Taken ==
    ASSUME Types, committed # <<>>
    PROVE  /\ Head(committed) = committed[1] /\ 1 \in DOMAIN committed
           /\ Head(committed) \in Changes /\ Tail(committed) \in Seq(Changes)
           /\ \A i \in DOMAIN Tail(committed) :
                 /\ i \in Nat /\ i + 1 \in DOMAIN committed /\ i + 1 # 1
                 /\ Tail(committed)[i] = committed[i + 1]
           /\ \A i \in DOMAIN committed : i # 1 => i - 1 \in DOMAIN Tail(committed)
  BY DEF Types

LEMMA AppendSet ==
    ASSUME NEW S, NEW s \in Seq(S), NEW x \in S
    PROVE  ToSet(Append(s, x)) = ToSet(s) \cup {x}
<1>1. /\ Len(s) \in Nat /\ DOMAIN s = 1..Len(s) /\ DOMAIN Append(s, x) = 1..Len(s) + 1
      /\ \A i \in 1..Len(s) : Append(s, x)[i] = s[i]
      /\ Append(s, x)[Len(s) + 1] = x
  OBVIOUS
<1>2. 1..Len(s) + 1 = (1..Len(s)) \cup {Len(s) + 1}
  BY <1>1
<1> QED
  BY <1>1, <1>2 DEF ToSet

-----------------------------------------------------------------------------
(* What a step that leaves part of the state alone keeps. *)

LEMMA SameHandled ==
    ASSUME UNCHANGED <<watched, update>>,
           alloc' = alloc \/ (alloc.pc # "update" /\ alloc'.pc # "update")
    PROVE  Offered' = Offered /\ Handled' = Handled /\ (UpdateInv => UpdateInv')
<1>1. Offered' = Offered
  BY DEF Offered, Before
<1>2. Handled' = Handled
  BY <1>1 DEF Handled, Before
<1> QED
  BY <1>1, <1>2 DEF UpdateInv

LEMMA SameWatch ==
    ASSUME UNCHANGED <<watched, datasets, zero>>, WatchInv
    PROVE  WatchInv'
  BY DEF WatchInv, Phase, PartitionsOfDatasets

LEMMA SameFresh ==
    ASSUME FreshInv, UNCHANGED <<committed, made, watched, datasets>>,
           Offered' = Offered, Handled' = Handled
    PROVE  FreshInv'
  BY DEF FreshInv, NotYet, Created

LEMMA SameServed ==
    ASSUME ServedInv, UNCHANGED <<nodeIds, groups>>, Handled' = Handled
    PROVE  ServedInv'
  BY DEF ServedInv, Assigned

\* When a change is taken, what waited is still to come.
LEMMA TailFresh ==
    ASSUME Types, FreshInv, committed # <<>>, committed' = Tail(committed),
           UNCHANGED <<made, watched>>, Offered' = Offered, Handled' = Handled,
           \/ datasets' \subseteq datasets
           \/ Created(1) /\ datasets' = datasets \cup {Head(committed).dataset}
    PROVE  FreshInv'
<1>1. \A i \in DOMAIN committed' : /\ i + 1 \in DOMAIN committed /\ i + 1 # 1 /\ i \in Nat
                                   /\ committed'[i] = committed[i + 1]
  BY Taken
<1>2. ASSUME NEW i \in DOMAIN committed', Created(i)'
      PROVE  /\ Created(i + 1) /\ committed'[i].dataset = committed[i + 1].dataset
             /\ i + 1 \in DOMAIN committed
  BY <1>1, <1>2 DEF Created
<1>3. ASSUME NEW d \in Datasets, NotYet(d)'
      PROVE  NotYet(d) /\ (Created(1) => Head(committed).dataset # d)
  <2>1. CASE d \notin made
    <3>1. Created(1) => committed[1].dataset \in made
      BY Taken DEF FreshInv
    <3> QED
      BY <2>1, <3>1, Taken DEF NotYet
  <2>2. CASE d \in made
    <3>1. PICK i \in DOMAIN committed' : Created(i)' /\ committed'[i].dataset = d
      BY <1>3, <2>2 DEF NotYet
    <3>2. Created(i + 1) /\ committed[i + 1].dataset = d /\ i + 1 \in DOMAIN committed /\ i + 1 # 1
      BY <1>1, <1>2, <3>1
    <3>3. Created(1) => committed[1].dataset # d
      BY <3>2, Taken DEF FreshInv
    <3> QED
      BY <3>2, <3>3, Taken DEF NotYet
  <2> QED
    BY <2>1, <2>2
<1>4. \A d \in Datasets : NotYet(d)' =>
          /\ d \notin datasets'
          /\ \A p \in PartsOf[d] : p \notin watched' /\ p \notin Offered' /\ p \notin Handled'
  BY <1>3 DEF FreshInv
<1>5. \A i \in DOMAIN committed' : Created(i)' => committed'[i].dataset \in made'
  BY <1>2 DEF FreshInv
<1>6. ASSUME NEW i \in DOMAIN committed', NEW j \in DOMAIN committed',
             Created(i)', Created(j)', i # j
      PROVE  committed'[i].dataset # committed'[j].dataset
  <2>1. i + 1 # j + 1
    BY <1>1, <1>6
  <2> QED
    BY <1>2, <1>6, <2>1 DEF FreshInv
<1> QED
  BY <1>4, <1>5, <1>6 DEF FreshInv

\* A change that is taken was the allocator's, or the allocator's is where it was.
LEMMA TailMine ==
    ASSUME Types, committed # <<>>, committed' = Tail(committed)
    PROVE  /\ Mine = {} => Mine' = {}
           /\ \A i : Mine = {i} => Mine' = {} \/ (i # 1 /\ Mine' = {i - 1})
           /\ 1 \in Mine => \A i : Mine = {i} => Mine' = {}
<1>1. \A i \in DOMAIN committed' : /\ i \in Nat /\ i + 1 \in DOMAIN committed /\ i + 1 # 1
                                   /\ committed'[i] = committed[i + 1]
  BY Taken
<1>2. \A i \in Mine' : i \in Nat /\ i + 1 \in Mine /\ i + 1 # 1
  BY <1>1 DEF Mine
<1>3. ASSUME NEW i, Mine = {i} PROVE Mine' = {} \/ (i # 1 /\ Mine' = {i - 1})
  <2>1. \A j \in Mine' : j \in Nat /\ j + 1 = i /\ i # 1
    BY <1>2, <1>3
  <2>2. \A j \in Mine' : j = i - 1
    BY <2>1
  <2> QED
    BY <2>1, <2>2
<1>4. ASSUME 1 \in Mine, NEW i, Mine = {i} PROVE Mine' = {}
  BY <1>2, <1>4
<1> QED
  BY <1>2, <1>3, <1>4

\* The allocator goes on without a change of what it keeps.
LEMMA AllocMoves ==
    ASSUME IInv,
           UNCHANGED <<committed, made, datasets, nodeIds, watched, raft, groups, addresses,
                       zero, update, fixed, proposed>>,
           alloc.pc # "update", alloc'.pc # "update", AllocOK', crashed' \in BOOLEAN,
           notifs' \in Seq(MemberChanges), Len(notifs') <= NotificationCap,
           fixed => alloc'.pc = "select" /\ notifs' = notifs,
           alloc'.pc \notin {"proposed", "waiting"} => proposed = {} /\ Mine = {}
    PROVE  IInv'
<1>0. Types /\ WatchInv /\ UpdateInv /\ ServedInv /\ FreshInv /\ FixedInv /\ OneOut
  BY Parts
<1>1. Offered' = Offered /\ Handled' = Handled /\ UpdateInv'
  BY <1>0, SameHandled
<1>2. Types'
  BY <1>0 DEF Types, ZeroOK
<1>3. FixedInv'
  BY <1>0, <1>1 DEF FixedInv, Assigned
<1>4. OneOut'
  <2>1. Mine' = Mine
    BY DEF Mine
  <2> QED
    BY <1>0, <2>1 DEF OneOut
<1>5. WatchInv' /\ ServedInv' /\ FreshInv'
  BY <1>0, <1>1, SameWatch, SameServed, SameFresh
<1> QED
  BY <1>1, <1>2, <1>3, <1>4, <1>5, Parts, PTL

-----------------------------------------------------------------------------
(* The allocator's goroutine. *)

LEMMA AllocMovesKept ==
    ASSUME IInv, UNCHANGED fixed,
           \/ ReceiveNotification \/ LockPartitions \/ Iterate \/ WaitForCommit
           \/ ProposeToGroup \/ UnlockPartitions
    PROVE  IInv'
<1>0. Types /\ FixedInv /\ OneOut /\ AllocOK
  BY Parts DEF Types
<1>1. CASE ReceiveNotification
  <2>1. notifs # <<>> /\ Head(notifs) \in MemberChanges /\ Tail(notifs) \in Seq(MemberChanges)
        /\ Len(Tail(notifs)) <= NotificationCap
    <3>1. notifs # <<>> /\ notifs \in Seq(MemberChanges) /\ Len(notifs) <= NotificationCap
          /\ NotificationCap \in Nat
      BY <1>0, <1>1, AllocationAssumption DEF Types, ReceiveNotification
    <3> QED
      BY <3>1
  <2>2. AllocOK'
    BY <1>1, <2>1 DEF ReceiveNotification, AllocOK
  <2> QED
    BY <1>0, <1>1, <2>1, <2>2, AllocMoves DEF ReceiveNotification, Types, FixedInv, OneOut
<1>2. CASE LockPartitions
  <2>1. AllocOK' /\ ~fixed
    BY <1>0, <1>2 DEF LockPartitions, AllocOK, Types, FixedInv
  <2> QED
    BY <1>0, <1>2, <2>1, AllocMoves DEF LockPartitions, Types, OneOut
<1>3. CASE Iterate
  <2>1. PICK p \in alloc.todo : \E leads \in Leads(p) :
           alloc' = [pc |-> IF leads /\ (alloc.change.kind = "leave" \/ UnderReplicated(p))
                            THEN "propose" ELSE "iterate",
                     change |-> alloc.change, todo |-> alloc.todo \ {p}, part |-> p]
    BY <1>3 DEF Iterate
  <2>2. alloc.change \in MemberChanges /\ alloc.todo \in SUBSET Partitions /\ p \in Partitions
    BY <1>0, <1>3, <2>1 DEF AllocOK, Iterate
  <2>3. alloc'.pc \in {"propose", "iterate"} /\ AllocOK' /\ ~fixed
    BY <1>0, <1>3, <2>1, <2>2 DEF AllocOK, Iterate, FixedInv
  <2> QED
    BY <1>0, <1>3, <2>3, AllocMoves DEF Iterate, Types, OneOut
<1>4. CASE WaitForCommit
  <2>1. AllocOK' /\ ~fixed /\ alloc'.pc = "waiting"
    BY <1>0, <1>4 DEF AllocOK, WaitForCommit, FixedInv
  <2> QED
    BY <1>0, <1>4, <2>1, AllocMoves DEF WaitForCommit, Types, OneOut
<1>5. CASE ProposeToGroup
  <2>1. AllocOK' /\ ~fixed /\ alloc'.pc = "iterate"
    BY <1>0, <1>5 DEF AllocOK, ProposeToGroup, FixedInv
  <2> QED
    BY <1>0, <1>5, <2>1, AllocMoves DEF ProposeToGroup, Types, OneOut
<1>6. CASE UnlockPartitions
  <2>1. AllocOK' /\ ~fixed
    BY <1>0, <1>6 DEF AllocOK, UnlockPartitions, FixedInv
  <2> QED
    BY <1>0, <1>6, <2>1, AllocMoves DEF UnlockPartitions, Types, OneOut
<1> QED
  BY <1>1, <1>2, <1>3, <1>4, <1>5, <1>6

LEMMA ProposeUpdateKept ==
    ASSUME IInv, UNCHANGED fixed, ProposeUpdate
    PROVE  IInv'
<1>0. Types /\ WatchInv /\ UpdateInv /\ ServedInv /\ FreshInv /\ FixedInv /\ OneOut /\ AllocOK
  BY Parts DEF Types
<1>1. /\ alloc \in [pc : {"propose"}, change : MemberChanges, todo : SUBSET Partitions,
                    part : Partitions]
      /\ proposed = {} /\ Mine = {} /\ ~fixed
  BY <1>0 DEF ProposeUpdate, AllocOK, OneOut, FixedInv
<1>2. CASE alloc' = [alloc EXCEPT !.pc = "iterate"] /\ UNCHANGED proposed
  <2>1. AllocOK' /\ alloc'.pc = "iterate"
    BY <1>1, <1>2 DEF AllocOK
  <2> QED
    BY <1>0, <1>1, <1>2, <2>1, AllocMoves DEF ProposeUpdate, Types
<1>3. CASE /\ alloc' = [alloc EXCEPT !.pc = "proposed"]
           /\ proposed' = proposed \cup
                {[kind |-> IF alloc.change.kind = "join" THEN "add" ELSE "remove",
                  part |-> alloc.part, node |-> alloc.change.node, mine |-> TRUE]}
  <2>1. AllocOK' /\ alloc'.pc = "proposed"
    BY <1>1, <1>3 DEF AllocOK
  <2> DEFINE u == [kind |-> IF alloc.change.kind = "join" THEN "add" ELSE "remove",
                   part |-> alloc.part, node |-> alloc.change.node, mine |-> TRUE]
  <2>2. u \in Updates /\ u.mine /\ proposed' = {u}
    BY <1>1, <1>3 DEF Updates, MemberChanges
  <2> HIDE DEF u
  <2>3. Offered' = Offered /\ Handled' = Handled /\ UpdateInv'
    BY <1>0, <1>1, <2>1, SameHandled DEF ProposeUpdate
  <2>4. Types'
    BY <1>0, <2>1, <2>2 DEF Types, ZeroOK, ProposeUpdate
  <2>5. WatchInv' /\ ServedInv' /\ FreshInv'
    BY <1>0, <2>3, SameWatch, SameServed, SameFresh DEF ProposeUpdate
  <2>6. FixedInv'
    BY <1>1 DEF FixedInv
  <2>7. Mine' = Mine
    BY DEF ProposeUpdate, Mine
  <2>8. OneOut'
    BY <1>1, <2>1, <2>2, <2>7 DEF OneOut
  <2> QED
    BY <2>3, <2>4, <2>5, <2>6, <2>8, Parts, PTL
<1> QED
  BY <1>2, <1>3 DEF ProposeUpdate

\* The allocator takes the update that is offered: what it has handled is the same.
LEMMA ReceiveUpdateKept ==
    ASSUME IInv, UNCHANGED fixed, ReceiveUpdate
    PROVE  IInv'
<1>0. Types /\ WatchInv /\ UpdateInv /\ ServedInv /\ FreshInv /\ FixedInv /\ OneOut /\ ZeroOK
  BY Parts DEF Types
<1>1. /\ alloc.pc = "select" /\ update # NoUpdate /\ update \in Offer /\ update' = NoUpdate
      /\ alloc' = [pc |-> "update", kind |-> update.kind, part |-> update.part]
      /\ zero' = [pc |-> zero.back, todo |-> zero.todo]
      /\ zero \in [pc : {"offer"}, back : {"watch", "unwatch"}, todo : SUBSET Partitions]
      /\ UNCHANGED <<committed, proposed, made, datasets, nodeIds, watched, raft, groups,
                     addresses, notifs, crashed, fixed>>
  BY <1>0 DEF ReceiveUpdate, Types, ZeroOK, Nobody
<1>2. Offered' = watched /\ Handled' = Offered /\ Handled = Offered
  BY <1>1 DEF Offered, Handled, Before
<1>3. Types'
  <2>1. AllocOK' /\ ZeroOK' /\ zero'.pc # "offer"
    BY <1>1 DEF AllocOK, ZeroOK, Offer
  <2> QED
    BY <1>0, <1>1, <2>1 DEF Types
<1>4. WatchInv'
  <2>1. Phase' = Phase /\ zero'.todo = zero.todo /\ PartitionsOfDatasets' = PartitionsOfDatasets
    BY <1>1 DEF Phase, PartitionsOfDatasets
  <2> QED
    BY <1>0, <1>1, <2>1 DEF WatchInv
<1>5. UpdateInv'
  BY <1>0, <1>1, <1>2 DEF UpdateInv
<1>6. ServedInv'
  BY <1>0, <1>1, <1>2, SameServed
<1>7. FreshInv'
  <2>1. \A d \in Datasets : NotYet(d)' <=> NotYet(d)
    BY <1>1 DEF NotYet, Created
  <2>2. \A i \in DOMAIN committed : Created(i)' <=> Created(i)
    BY <1>1 DEF Created
  <2> QED
    BY <1>0, <1>1, <1>2, <2>1, <2>2 DEF FreshInv
<1>8. FixedInv'
  BY <1>0, <1>1, <1>2 DEF FixedInv, Assigned
<1>9. OneOut'
  <2>1. Mine' = Mine
    BY <1>1 DEF Mine
  <2> QED
    BY <1>0, <1>1, <2>1 DEF OneOut
<1> QED
  BY <1>3, <1>4, <1>5, <1>6, <1>7, <1>8, <1>9, Parts, PTL

\* The update is handled: the allocator's map has caught up.
LEMMA HandleUpdateKept ==
    ASSUME IInv, UNCHANGED fixed, HandleUpdate
    PROVE  IInv'
<1>0. Types /\ WatchInv /\ UpdateInv /\ ServedInv /\ FreshInv /\ FixedInv /\ OneOut /\ AllocOK
  BY Parts DEF Types
<1>1. /\ alloc \in [pc : {"update"}, kind : {"watch", "unwatch"}, part : Partitions]
      /\ alloc' = [pc |-> "select"] /\ LoadOrUnload(alloc.kind, alloc.part)
      /\ UNCHANGED <<committed, proposed, made, datasets, nodeIds, watched, addresses, notifs,
                     zero, update, crashed, fixed>>
  BY <1>0 DEF HandleUpdate, AllocOK
<1> DEFINE p == alloc.part
<1>2. /\ Offered' = Offered /\ Handled' = Offered
      /\ alloc.kind = "watch" => Handled = Offered \ {p} /\ p \in Offered
      /\ alloc.kind = "unwatch" => Handled = Offered \cup {p} /\ p \notin Offered
  BY <1>0, <1>1 DEF Offered, Handled, Before, UpdateInv
<1>3. \A q : Assigned(q)' <=> Assigned(q)
  BY <1>1 DEF Assigned
<1>4. \/ /\ alloc.kind = "watch" /\ Assigned(p) /\ groups' = groups \cup {p}
         /\ raft' = IF p \in groups THEN raft \ {p} ELSE raft \cup {p}
      \/ /\ alloc.kind = "unwatch" /\ Assigned(p)
         /\ groups' = (IF p \in raft THEN groups \ {p} ELSE groups) /\ raft' = raft \ {p}
      \/ ~Assigned(p) /\ groups' = groups /\ raft' = raft
  BY <1>1 DEF LoadOrUnload, LoadRaft, UnloadRaft
<1>5. p \in Partitions /\ alloc.kind \in {"watch", "unwatch"}
  BY <1>1
<1> HIDE DEF p
<1>6. groups' \subseteq Partitions /\ raft' \subseteq groups'
  BY <1>0, <1>4, <1>5 DEF Types
<1>7. Types'
  <2>1. AllocOK'
    BY <1>1 DEF AllocOK
  <2> QED
    BY <1>0, <1>1, <1>6, <2>1 DEF Types, ZeroOK
<1>8. ServedInv'
  BY <1>0, <1>2, <1>3, <1>4, <1>5 DEF ServedInv
<1>9. FreshInv'
  <2>1. \A d \in Datasets : NotYet(d)' <=> NotYet(d)
    BY <1>1 DEF NotYet, Created
  <2>2. \A i \in DOMAIN committed : Created(i)' <=> Created(i)
    BY <1>1 DEF Created
  <2> QED
    BY <1>0, <1>1, <1>2, <2>1, <2>2 DEF FreshInv
<1>10. FixedInv'
  <2> SUFFICES ASSUME fixed PROVE FixedInv'
    BY <1>1 DEF FixedInv
  <2>1. groups = {q \in Handled : Assigned(q)} /\ raft = groups
    BY <1>0 DEF FixedInv
  <2>2. groups' = {q \in Offered : Assigned(q)} /\ raft' = groups'
    BY <1>2, <1>4, <1>5, <2>1
  <2>3. groups' = {q \in Handled' : Assigned(q)'}
    BY <1>2, <1>3, <2>2
  <2> QED
    BY <1>0, <1>1, <2>2, <2>3 DEF FixedInv
<1>11. OneOut'
  <2>1. Mine' = Mine
    BY <1>1 DEF Mine
  <2> QED
    BY <1>0, <1>1, <2>1 DEF OneOut
<1>12. WatchInv' /\ UpdateInv'
  BY <1>0, <1>1, SameWatch DEF UpdateInv
<1> QED
  BY <1>7, <1>8, <1>9, <1>10, <1>11, <1>12, Parts, PTL

-----------------------------------------------------------------------------
(* Raft commits a change. *)

LEMMA CommitExternalKept ==
    ASSUME IInv, CommitExternal
    PROVE  IInv'
<1>0. Types /\ WatchInv /\ UpdateInv /\ ServedInv /\ FreshInv /\ FixedInv /\ OneOut
  BY Parts
<1>1. PICK c \in Changes :
         /\ External(c) /\ committed' = Append(committed, c)
         /\ made' = IF c.kind = "create" THEN made \cup {c.dataset} ELSE made
  BY DEF CommitExternal, Changes
<1>2. UNCHANGED <<proposed, datasets, nodeIds, watched, raft, groups, addresses, notifs, zero,
                  alloc, update, crashed, fixed>>
  BY DEF CommitExternal
<1>3. /\ Len(committed) \in Nat /\ DOMAIN committed = 1..Len(committed)
      /\ DOMAIN committed' = 1..Len(committed) + 1 /\ committed'[Len(committed) + 1] = c
      /\ \A i \in DOMAIN committed : committed'[i] = committed[i]
      /\ committed' \in Seq(Changes)
  BY <1>0, <1>1 DEF Types
<1>last. PICK last : last = Len(committed) + 1
  OBVIOUS
<1>4. DOMAIN committed' = DOMAIN committed \cup {last} /\ last \notin DOMAIN committed
  BY <1>3, <1>last
<1>5. committed'[last] = c
  BY <1>3, <1>last
<1>6. Types'
  <2>1. made' \subseteq Datasets /\ datasets' \subseteq made'
    BY <1>0, <1>1, <1>2, ChangeIs DEF Types
  <2> QED
    BY <1>0, <1>2, <1>3, <2>1 DEF Types, ZeroOK, AllocOK
<1>7. Offered' = Offered /\ Handled' = Handled /\ UpdateInv'
  BY <1>0, <1>2, SameHandled
<1>8. WatchInv' /\ ServedInv'
  BY <1>0, <1>2, <1>7, SameWatch, SameServed
<1>9. \A i \in DOMAIN committed : Created(i)' <=> Created(i)
  BY <1>3 DEF Created
<1>10. Created(last)' <=> c.kind = "create"
  BY <1>5 DEF Created
<1>11. c.kind = "create" => c.dataset \notin made
  BY <1>1 DEF External
<1>12. FreshInv'
  <2>1. ASSUME NEW d \in Datasets, NotYet(d)' PROVE NotYet(d)
    <3>1. CASE d \notin made
      BY <3>1 DEF NotYet
    <3>2. CASE d \in made
      <4>1. d \in made'
        BY <1>1, <3>2
      <4>2. PICK i \in DOMAIN committed' : Created(i)' /\ committed'[i].dataset = d
        BY <2>1, <4>1 DEF NotYet
      <4>3. i # last
        BY <1>5, <1>10, <1>11, <3>2, <4>2
      <4>4. i \in DOMAIN committed /\ Created(i) /\ committed[i].dataset = d
        BY <1>3, <1>4, <1>9, <4>2, <4>3
      <4> QED
        BY <4>4 DEF NotYet
    <3> QED
      BY <3>1, <3>2
  <2>2. \A d \in Datasets : NotYet(d)' =>
          /\ d \notin datasets'
          /\ \A p \in PartsOf[d] : p \notin watched' /\ p \notin Offered' /\ p \notin Handled'
    BY <1>0, <1>2, <1>7, <2>1 DEF FreshInv
  <2>3. \A i \in DOMAIN committed' : Created(i)' => committed'[i].dataset \in made'
    <3>1. \A i \in DOMAIN committed : Created(i)' => committed'[i].dataset \in made'
      BY <1>0, <1>1, <1>3, <1>9 DEF FreshInv
    <3>2. Created(last)' => committed'[last].dataset \in made'
      BY <1>1, <1>5, <1>10
    <3> QED
      BY <1>4, <3>1, <3>2
  <2>4. ASSUME NEW i \in DOMAIN committed', NEW j \in DOMAIN committed',
               Created(i)', Created(j)', i # j
        PROVE  committed'[i].dataset # committed'[j].dataset
    <3>1. CASE i \in DOMAIN committed /\ j \in DOMAIN committed
      BY <1>0, <1>3, <1>9, <2>4, <3>1 DEF FreshInv
    <3>2. CASE i = last
      <4>1. j \in DOMAIN committed /\ Created(j) /\ committed'[j] = committed[j]
        BY <1>3, <1>4, <1>9, <2>4, <3>2
      <4>2. committed[j].dataset \in made
        BY <1>0, <4>1 DEF FreshInv
      <4> QED
        BY <1>5, <1>10, <1>11, <2>4, <3>2, <4>1, <4>2
    <3>3. CASE j = last
      <4>1. i \in DOMAIN committed /\ Created(i) /\ committed'[i] = committed[i]
        BY <1>3, <1>4, <1>9, <2>4, <3>3
      <4>2. committed[i].dataset \in made
        BY <1>0, <4>1 DEF FreshInv
      <4> QED
        BY <1>5, <1>10, <1>11, <2>4, <3>3, <4>1, <4>2
    <3> QED
      BY <1>4, <3>1, <3>2, <3>3
  <2> QED
    BY <2>2, <2>3, <2>4 DEF FreshInv
<1>13. FixedInv'
  <2> SUFFICES ASSUME fixed PROVE FixedInv'
    BY <1>2 DEF FixedInv
  <2>1. c.kind \in {"create", "delete"}
    BY <1>1, ChangeIs DEF External
  <2>2. \A i \in DOMAIN committed' : committed'[i].kind \in {"create", "delete"}
    <3>1. \A i \in DOMAIN committed : committed'[i].kind \in {"create", "delete"}
      BY <1>0, <1>3 DEF FixedInv
    <3> QED
      BY <1>4, <1>5, <2>1, <3>1
  <2> QED
    BY <1>0, <1>2, <1>7, <2>2 DEF FixedInv, Assigned
<1>14. OneOut'
  <2>1. ~(c.kind \in {"add", "remove"} /\ c.mine)
    BY <1>1 DEF External
  <2>2. Mine' = Mine
    BY <1>3, <1>4, <1>5, <2>1 DEF Mine
  <2> QED
    BY <1>0, <1>2, <2>2 DEF OneOut
<1> QED
  BY <1>6, <1>7, <1>8, <1>12, <1>13, <1>14, Parts, PTL

LEMMA CommitProposedKept ==
    ASSUME IInv, CommitProposed
    PROVE  IInv'
<1>0. Types /\ WatchInv /\ UpdateInv /\ ServedInv /\ FreshInv /\ FixedInv /\ OneOut
  BY Parts
<1>1. PICK u \in proposed : committed' = Append(committed, u) /\ proposed' = proposed \ {u}
  BY DEF CommitProposed
<1>2. UNCHANGED <<made, datasets, nodeIds, watched, raft, groups, addresses, notifs, zero,
                  alloc, update, crashed, fixed>>
  BY DEF CommitProposed
<1>3. u \in Updates /\ u.mine /\ u.kind \in {"add", "remove"} /\ u \in Changes /\ ~fixed
  BY <1>0, <1>1 DEF Types, Updates, Changes, FixedInv
<1>4. /\ Len(committed) \in Nat /\ DOMAIN committed = 1..Len(committed)
      /\ DOMAIN committed' = 1..Len(committed) + 1 /\ committed'[Len(committed) + 1] = u
      /\ \A i \in DOMAIN committed : committed'[i] = committed[i]
      /\ committed' \in Seq(Changes)
  BY <1>0, <1>1, <1>3 DEF Types
<1>last. PICK last : last = Len(committed) + 1
  OBVIOUS
<1>5. DOMAIN committed' = DOMAIN committed \cup {last} /\ committed'[last] = u
  BY <1>4, <1>last
<1>6. Types'
  <2>1. proposed' \subseteq Updates /\ \A x \in proposed' : x.mine
    BY <1>0, <1>1 DEF Types
  <2> QED
    BY <1>0, <1>2, <1>4, <2>1 DEF Types, ZeroOK, AllocOK
<1>7. Offered' = Offered /\ Handled' = Handled /\ UpdateInv'
  BY <1>0, <1>2, SameHandled
<1>8. WatchInv' /\ ServedInv'
  BY <1>0, <1>2, <1>7, SameWatch, SameServed
<1>9. \A i \in DOMAIN committed' :
          Created(i)' => i \in DOMAIN committed /\ Created(i) /\ committed'[i] = committed[i]
  BY <1>3, <1>4, <1>5 DEF Created
<1>10. FreshInv'
  <2>1. \A d \in Datasets : NotYet(d)' => NotYet(d)
    BY <1>2, <1>9 DEF NotYet
  <2> QED
    BY <1>0, <1>2, <1>7, <1>9, <2>1 DEF FreshInv
<1>11. FixedInv'
  BY <1>2, <1>3 DEF FixedInv
<1>12. OneOut'
  <2>1. proposed = {u} /\ Mine = {}
    BY <1>0, <1>1 DEF OneOut
  <2>2. Mine' = {last}
    BY <1>3, <1>4, <1>5, <2>1 DEF Mine
  <2>3. alloc'.pc \in {"proposed", "waiting"}
    BY <1>0, <1>2, <2>1 DEF OneOut
  <2> QED
    BY <1>1, <2>1, <2>2, <2>3 DEF OneOut
<1> QED
  BY <1>6, <1>7, <1>8, <1>10, <1>11, <1>12, Parts, PTL

-----------------------------------------------------------------------------
(* The zero group's run loop. *)

LEMMA ZeroIdle ==
    ASSUME IInv, NEW kind, ZeroTakes(kind)
    PROVE  /\ zero = Nobody /\ zero.pc = "idle" /\ committed # <<>>
           /\ Head(committed) \in Changes /\ Head(committed).kind = kind
           /\ committed[1] = Head(committed) /\ 1 \in DOMAIN committed
           /\ update = NoUpdate /\ Offered = watched /\ watched = PartitionsOfDatasets
  BY Taken, Parts DEF ZeroTakes, Nobody, Types, Offered, WatchInv, Phase

\* A change that was not the allocator's is taken.
LEMMA TakenMine ==
    ASSUME IInv, committed # <<>>, committed' = Tail(committed), 1 \notin Mine,
           UNCHANGED <<proposed, alloc>>
    PROVE  OneOut'
  BY TailMine, Parts DEF OneOut

LEMMA TakenFixed ==
    ASSUME IInv, committed # <<>>, committed' = Tail(committed), fixed
    PROVE  \A i \in DOMAIN committed' : committed'[i].kind \in {"create", "delete"}
  BY Taken, Parts DEF FixedInv

LEMMA ApplyCreateKept ==
    ASSUME IInv, UNCHANGED fixed, ApplyCreate
    PROVE  IInv'
<1>0. Types /\ WatchInv /\ UpdateInv /\ ServedInv /\ FreshInv /\ FixedInv /\ OneOut
  BY Parts
<1> DEFINE c == Head(committed)
           d == c.dataset
<1>1. /\ zero = Nobody /\ zero.pc = "idle" /\ committed # <<>> /\ committed[1] = c
      /\ 1 \in DOMAIN committed /\ c.kind = "create" /\ c \in Changes
      /\ update = NoUpdate /\ Offered = watched /\ watched = PartitionsOfDatasets
  BY ZeroIdle DEF ApplyCreate
<1>2. /\ committed' = Tail(committed) /\ committed' \in Seq(Changes)
      /\ UNCHANGED <<proposed, made, watched, raft, groups, addresses, notifs, alloc, update,
                     crashed, fixed>>
      /\ \/ UNCHANGED <<datasets, nodeIds, zero>>
         \/ /\ datasets' = datasets \cup {d}
            /\ nodeIds' = [p \in Partitions |-> IF p \in PartsOf[d] THEN c.at ELSE nodeIds[p]]
            /\ zero' = [pc |-> "watch", todo |-> PartsOf[d]]
  BY <1>0, <1>1, Taken DEF ApplyCreate
<1>3. d \in Datasets /\ c.at \in Seq(Nodes) /\ Created(1) /\ 1 \notin Mine
  BY <1>1, ChangeIs DEF Created, Mine
<1>4. d \in made /\ NotYet(d)
  BY <1>0, <1>1, <1>3 DEF FreshInv, NotYet
<1>5. PartsOf[d] \subseteq Partitions /\ \A p \in PartsOf[d] : p \notin Handled
  BY <1>0, <1>3, <1>4, AllocationAssumption DEF FreshInv
<1>6. Offered' = Offered /\ Handled' = Handled /\ UpdateInv'
  BY <1>0, <1>2, SameHandled
<1>7. FreshInv'
  BY <1>0, <1>1, <1>2, <1>3, <1>6, TailFresh
<1>8. OneOut'
  BY <1>1, <1>2, <1>3, TakenMine
<1>9. fixed => \A i \in DOMAIN committed' : committed'[i].kind \in {"create", "delete"}
  BY <1>1, <1>2, TakenFixed
<1> HIDE DEF d, c
<1>10. /\ nodeIds' \in [Partitions -> Seq(Nodes)]
       /\ \A p \in Handled : Assigned(p)' <=> Assigned(p)
  <2>1. CASE nodeIds' = nodeIds
    BY <1>0, <2>1 DEF Types, Assigned
  <2>2. CASE nodeIds' = [p \in Partitions |-> IF p \in PartsOf[d] THEN c.at ELSE nodeIds[p]]
    <3>1. nodeIds' \in [Partitions -> Seq(Nodes)]
      BY <1>0, <1>3, <2>2 DEF Types
    <3>2. ASSUME NEW p \in Handled PROVE nodeIds'[p] = nodeIds[p]
      <4>1. p \in Partitions
        BY <1>0, <1>1 DEF Handled, Before, Types, AllocOK
      <4> QED
        BY <1>5, <2>2, <3>2, <4>1
    <3> QED
      BY <3>1, <3>2 DEF Assigned
  <2> QED
    BY <1>2, <2>1, <2>2
<1>11. Types'
  <2>1. ZeroOK' /\ zero'.pc # "offer"
    BY <1>1, <1>2, <1>5 DEF ZeroOK
  <2>2. datasets' \subseteq made'
    BY <1>0, <1>2, <1>4 DEF Types
  <2> QED
    BY <1>0, <1>1, <1>2, <1>10, <2>1, <2>2 DEF Types, AllocOK
<1>12. WatchInv'
  <2>1. CASE UNCHANGED <<datasets, nodeIds, zero>>
    BY <1>0, <1>2, <2>1, SameWatch
  <2>2. CASE datasets' = datasets \cup {d} /\ zero' = [pc |-> "watch", todo |-> PartsOf[d]]
    <3>1. PartitionsOfDatasets' = PartitionsOfDatasets \cup PartsOf[d]
      BY <2>2 DEF PartitionsOfDatasets
    <3> QED
      BY <1>1, <1>2, <2>2, <3>1 DEF WatchInv, Phase
  <2> QED
    BY <1>2, <2>1, <2>2
<1>13. ServedInv'
  BY <1>0, <1>2, <1>6, <1>10 DEF ServedInv
<1>14. FixedInv'
  <2> SUFFICES ASSUME fixed PROVE FixedInv'
    BY <1>2 DEF FixedInv
  <2>1. {p \in Handled' : Assigned(p)'} = {p \in Handled : Assigned(p)}
    BY <1>6, <1>10
  <2>2. zero'.pc # "notify"
    BY <1>1, <1>2
  <2> QED
    BY <1>0, <1>2, <1>9, <2>1, <2>2 DEF FixedInv
<1> QED
  BY <1>6, <1>7, <1>8, <1>11, <1>12, <1>13, <1>14, Parts, PTL

LEMMA ApplyDeleteKept ==
    ASSUME IInv, UNCHANGED fixed, ApplyDelete
    PROVE  IInv'
<1>0. Types /\ WatchInv /\ UpdateInv /\ ServedInv /\ FreshInv /\ FixedInv /\ OneOut
  BY Parts
<1> DEFINE c == Head(committed)
           d == c.dataset
<1>1. /\ zero = Nobody /\ zero.pc = "idle" /\ committed # <<>> /\ committed[1] = c
      /\ 1 \in DOMAIN committed /\ c.kind = "delete" /\ c \in Changes
      /\ update = NoUpdate /\ Offered = watched /\ watched = PartitionsOfDatasets
  BY ZeroIdle DEF ApplyDelete
<1>2. /\ committed' = Tail(committed) /\ committed' \in Seq(Changes)
      /\ UNCHANGED <<proposed, made, nodeIds, watched, raft, groups, addresses, notifs, alloc,
                     update, crashed, fixed>>
      /\ \/ UNCHANGED <<datasets, zero>>
         \/ /\ d \in datasets /\ datasets' = datasets \ {d}
            /\ zero' = [pc |-> "unwatch", todo |-> PartsOf[d]]
  BY <1>0, <1>1, Taken DEF ApplyDelete
<1>3. d \in Datasets /\ 1 \notin Mine
  BY <1>1, ChangeIs DEF Mine
<1>4. Offered' = Offered /\ Handled' = Handled /\ UpdateInv'
  BY <1>0, <1>2, SameHandled
<1>5. FreshInv'
  BY <1>0, <1>1, <1>2, <1>4, TailFresh
<1>6. OneOut'
  BY <1>1, <1>2, <1>3, TakenMine
<1>7. fixed => \A i \in DOMAIN committed' : committed'[i].kind \in {"create", "delete"}
  BY <1>1, <1>2, TakenFixed
<1> HIDE DEF d, c
<1>8. Types'
  <2>1. PartsOf[d] \subseteq Partitions
    BY <1>3, AllocationAssumption
  <2>2. ZeroOK' /\ zero'.pc # "offer"
    BY <1>1, <1>2, <2>1 DEF ZeroOK
  <2> QED
    BY <1>0, <1>1, <1>2, <2>2 DEF Types, AllocOK
<1>9. WatchInv'
  <2>1. CASE UNCHANGED <<datasets, zero>>
    BY <1>0, <1>2, <2>1, SameWatch
  <2>2. CASE d \in datasets /\ datasets' = datasets \ {d}
             /\ zero' = [pc |-> "unwatch", todo |-> PartsOf[d]]
    <3>1. \A e \in datasets' : e \in Datasets /\ e # d /\ PartsOf[e] \cap PartsOf[d] = {}
      BY <1>0, <1>3, <2>2, AllocationAssumption DEF Types
    <3>2. PartitionsOfDatasets = PartitionsOfDatasets' \cup PartsOf[d]
      BY <2>2 DEF PartitionsOfDatasets
    <3>3. PartitionsOfDatasets' \cap PartsOf[d] = {}
      BY <3>1 DEF PartitionsOfDatasets
    <3> QED
      BY <1>1, <1>2, <2>2, <3>2, <3>3 DEF WatchInv, Phase
  <2> QED
    BY <1>2, <2>1, <2>2
<1>10. ServedInv'
  BY <1>0, <1>2, <1>4, SameServed
<1>11. FixedInv'
  <2>1. zero'.pc # "notify"
    BY <1>1, <1>2
  <2> QED
    BY <1>0, <1>2, <1>4, <1>7, <2>1 DEF FixedInv, Assigned
<1> QED
  BY <1>4, <1>5, <1>6, <1>8, <1>9, <1>10, <1>11, Parts, PTL

\* The allocator's map changes, and the update is offered: what it has handled is the same.
LEMMA WatchKept ==
    ASSUME IInv, UNCHANGED fixed, Watch
    PROVE  IInv'
<1>0. Types /\ WatchInv /\ UpdateInv /\ ServedInv /\ FreshInv /\ FixedInv /\ OneOut /\ ZeroOK
  BY Parts DEF Types
<1>1. /\ zero \in [pc : {"watch", "unwatch"}, todo : SUBSET Partitions]
      /\ zero.pc \in {"watch", "unwatch"} /\ update = NoUpdate
      /\ UNCHANGED <<committed, proposed, made, datasets, nodeIds, raft, groups, addresses,
                     notifs, alloc, crashed, fixed>>
  BY <1>0 DEF Watch, ZeroOK, Nobody, Types
<1>2. PICK p \in zero.todo :
         IF (zero.pc = "watch") = (p \in watched)
         THEN zero' = [zero EXCEPT !.todo = @ \ {p}] /\ UNCHANGED <<watched, update>>
         ELSE /\ watched' = WatchedAfter(zero.pc, p)
              /\ update' = [kind |-> zero.pc, part |-> p]
              /\ zero' = [pc |-> "offer", back |-> zero.pc, todo |-> zero.todo \ {p}]
  BY DEF Watch
<1>3. p \in Partitions /\ zero.todo \subseteq Partitions
  BY <1>1, <1>2
<1>4. PartitionsOfDatasets' = PartitionsOfDatasets
  BY <1>1 DEF PartitionsOfDatasets
<1>5. Mine' = Mine /\ (\A i \in DOMAIN committed : Created(i)' <=> Created(i))
      /\ (\A d \in Datasets : NotYet(d)' <=> NotYet(d))
  BY <1>1 DEF Mine, Created, NotYet
<1>6. OneOut'
  BY <1>0, <1>1, <1>5 DEF OneOut
<1>7. CASE (zero.pc = "watch") = (p \in watched)
  <2>1. zero' = [pc |-> zero.pc, todo |-> zero.todo \ {p}] /\ UNCHANGED <<watched, update>>
    BY <1>1, <1>2, <1>7
  <2>2. Offered' = Offered /\ Handled' = Handled /\ UpdateInv'
    BY <1>0, <1>1, <2>1, SameHandled
  <2>3. ServedInv' /\ FreshInv'
    BY <1>0, <1>1, <2>1, <2>2, SameServed, SameFresh
  <2>4. Types'
    BY <1>0, <1>1, <1>3, <2>1 DEF Types, AllocOK, ZeroOK
  <2>5. WatchInv'
    BY <1>0, <1>1, <1>2, <1>4, <1>7, <2>1 DEF WatchInv, Phase
  <2>6. FixedInv'
    BY <1>0, <1>1, <2>1, <2>2 DEF FixedInv, Assigned
  <2> QED
    BY <1>6, <2>2, <2>3, <2>4, <2>5, <2>6, Parts, PTL
<1>8. CASE ~((zero.pc = "watch") = (p \in watched))
  <2>1. /\ zero' = [pc |-> "offer", back |-> zero.pc, todo |-> zero.todo \ {p}]
        /\ update' = [kind |-> zero.pc, part |-> p] /\ update'.kind = zero.pc /\ update'.part = p
        /\ watched' = IF zero.pc = "watch" THEN watched \cup {p} ELSE watched \ {p}
    BY <1>2, <1>8 DEF WatchedAfter
  <2>2. zero.pc = "watch" <=> p \notin watched
    BY <1>1, <1>8
  <2>3. update' # NoUpdate /\ update' \in Offer
    BY <1>1, <1>3, <2>1 DEF NoUpdate, Offer
  <2>4. Offered' = watched /\ Offered = watched /\ Handled' = Handled
    <3>1. Offered = watched
      BY <1>1 DEF Offered
    <3>2. Offered' = watched
      BY <1>1, <2>1, <2>2, <2>3 DEF Offered, Before
    <3> QED
      BY <1>1, <3>1, <3>2 DEF Handled, Before
  <2>5. UpdateInv'
    BY <1>0, <1>1, <2>1, <2>2, <2>3, <2>4 DEF UpdateInv
  <2>6. ServedInv'
    BY <1>0, <1>1, <2>4, SameServed
  <2>7. \A d \in Datasets : NotYet(d) => p \notin PartsOf[d]
    <3> SUFFICES ASSUME NEW d \in Datasets, NotYet(d), p \in PartsOf[d] PROVE FALSE
      OBVIOUS
    <3>1. d \notin datasets /\ p \notin watched
      BY <1>0 DEF FreshInv
    <3>2. p \in PartitionsOfDatasets
      BY <1>0, <1>1, <2>2, <3>1 DEF WatchInv, Phase
    <3>3. PICK e \in datasets : p \in PartsOf[e]
      BY <3>2 DEF PartitionsOfDatasets
    <3> QED
      BY <1>0, <3>1, <3>3, AllocationAssumption DEF Types
  <2>8. FreshInv'
    BY <1>0, <1>1, <1>5, <2>1, <2>4, <2>7 DEF FreshInv
  <2>9. Types'
    <3>1. ZeroOK' /\ zero'.pc = "offer"
      BY <1>1, <1>3, <2>1 DEF ZeroOK
    <3>2. watched' \subseteq Partitions
      BY <1>0, <1>3, <2>1 DEF Types
    <3> QED
      BY <1>0, <1>1, <2>3, <3>1, <3>2 DEF Types, AllocOK
  <2>10. WatchInv'
    <3>1. Phase' = zero.pc /\ Phase = zero.pc /\ zero'.todo = zero.todo \ {p}
      BY <1>1, <2>1 DEF Phase
    <3> QED
      BY <1>0, <1>1, <1>2, <1>4, <2>1, <3>1 DEF WatchInv
  <2>11. FixedInv'
    BY <1>0, <1>1, <2>1, <2>4 DEF FixedInv, Assigned
  <2> QED
    BY <1>6, <2>5, <2>6, <2>8, <2>9, <2>10, <2>11, Parts, PTL
<1> QED
  BY <1>7, <1>8

LEMMA WatchedKept ==
    ASSUME IInv, UNCHANGED fixed, Watched
    PROVE  IInv'
<1>0. Types /\ WatchInv /\ UpdateInv /\ ServedInv /\ FreshInv /\ FixedInv /\ OneOut
  BY Parts
<1>1. /\ zero.pc \in {"watch", "unwatch"} /\ zero.todo = {} /\ zero' = Nobody
      /\ UNCHANGED <<committed, proposed, made, datasets, nodeIds, watched, raft, groups,
                     addresses, notifs, alloc, update, crashed, fixed>>
  BY DEF Watched
<1>2. Offered' = Offered /\ Handled' = Handled /\ UpdateInv'
  BY <1>0, <1>1, SameHandled
<1>3. ServedInv' /\ FreshInv'
  BY <1>0, <1>1, <1>2, SameServed, SameFresh
<1>4. Types'
  BY <1>0, <1>1 DEF Types, AllocOK, ZeroOK, Nobody
<1>5. WatchInv'
  BY <1>0, <1>1 DEF WatchInv, Phase, PartitionsOfDatasets, Nobody
<1>6. FixedInv'
  BY <1>0, <1>1, <1>2 DEF FixedInv, Assigned, Nobody
<1>7. OneOut'
  BY <1>0, <1>1 DEF OneOut, Mine
<1> QED
  BY <1>2, <1>3, <1>4, <1>5, <1>6, <1>7, Parts, PTL

LEMMA ApplyMemberKept ==
    ASSUME IInv, UNCHANGED fixed, ApplyMember
    PROVE  IInv'
<1>0. Types /\ WatchInv /\ UpdateInv /\ ServedInv /\ FreshInv /\ FixedInv /\ OneOut
  BY Parts
<1> DEFINE c == Head(committed)
<1>1. /\ zero = Nobody /\ zero.pc = "idle" /\ committed # <<>> /\ committed[1] = c
      /\ 1 \in DOMAIN committed /\ c.kind \in {"join", "leave"} /\ c \in Changes
      /\ update = NoUpdate /\ Offered = watched /\ watched = PartitionsOfDatasets
  BY ZeroIdle DEF ApplyMember
<1>2. /\ committed' = Tail(committed) /\ committed' \in Seq(Changes)
      /\ UNCHANGED <<proposed, made, datasets, nodeIds, watched, raft, groups, notifs, alloc,
                     update, crashed, fixed>>
      /\ addresses' = (IF c.kind = "join" THEN addresses \cup {c.node} ELSE addresses \ {c.node})
      /\ zero' \in {zero, [pc |-> "notify", change |-> c]}
  BY <1>0, <1>1, Taken DEF ApplyMember
<1>3. c \in MemberChanges /\ c.node \in Nodes /\ 1 \notin Mine /\ ~fixed
  BY <1>0, <1>1, ChangeIs DEF Mine, FixedInv
<1>4. Offered' = Offered /\ Handled' = Handled /\ UpdateInv'
  BY <1>0, <1>2, SameHandled
<1>5. FreshInv'
  BY <1>0, <1>1, <1>2, <1>4, TailFresh
<1>6. OneOut'
  BY <1>1, <1>2, <1>3, TakenMine
<1> HIDE DEF c
<1>7. Types'
  <2>1. ZeroOK' /\ zero'.pc # "offer"
    BY <1>1, <1>2, <1>3 DEF ZeroOK
  <2>2. addresses' \subseteq Nodes
    BY <1>0, <1>2, <1>3 DEF Types
  <2> QED
    BY <1>0, <1>1, <1>2, <2>1, <2>2 DEF Types, AllocOK
<1>8. WatchInv'
  <2>1. PartitionsOfDatasets' = PartitionsOfDatasets
    BY <1>2 DEF PartitionsOfDatasets
  <2>2. Phase' \in {"idle", "notify"}
    BY <1>1, <1>2 DEF Phase
  <2> QED
    BY <1>1, <1>2, <2>1, <2>2 DEF WatchInv
<1>9. ServedInv'
  BY <1>0, <1>2, <1>4, SameServed
<1>10. FixedInv'
  BY <1>2, <1>3 DEF FixedInv
<1> QED
  BY <1>4, <1>5, <1>6, <1>7, <1>8, <1>9, <1>10, Parts, PTL

LEMMA SendNotificationKept ==
    ASSUME IInv, UNCHANGED fixed, SendNotification
    PROVE  IInv'
<1>0. Types /\ WatchInv /\ UpdateInv /\ ServedInv /\ FreshInv /\ FixedInv /\ OneOut /\ ZeroOK
  BY Parts DEF Types
<1>1. /\ zero \in [pc : {"notify"}, change : MemberChanges] /\ zero.pc = "notify"
      /\ zero' = Nobody /\ Len(notifs) < NotificationCap /\ notifs' = Append(notifs, zero.change)
      /\ UNCHANGED <<committed, proposed, made, datasets, nodeIds, watched, raft, groups,
                     addresses, alloc, update, crashed, fixed>>
  BY <1>0 DEF SendNotification, ZeroOK, Nobody
<1>2. Offered' = Offered /\ Handled' = Handled /\ UpdateInv'
  BY <1>0, <1>1, SameHandled
<1>3. ServedInv' /\ FreshInv'
  BY <1>0, <1>1, <1>2, SameServed, SameFresh
<1>4. Types'
  <2>1. zero.change \in MemberChanges /\ notifs \in Seq(MemberChanges) /\ NotificationCap \in Nat
    BY <1>0, <1>1, AllocationAssumption DEF Types
  <2>2. notifs' \in Seq(MemberChanges) /\ Len(notifs') <= NotificationCap
    BY <1>1, <2>1
  <2> QED
    BY <1>0, <1>1, <2>2 DEF Types, AllocOK, ZeroOK, Nobody
<1>5. WatchInv'
  BY <1>0, <1>1 DEF WatchInv, Phase, PartitionsOfDatasets, Nobody
<1>6. FixedInv'
  BY <1>0, <1>1 DEF FixedInv
<1>7. OneOut'
  BY <1>0, <1>1 DEF OneOut, Mine
<1> QED
  BY <1>2, <1>3, <1>4, <1>5, <1>6, <1>7, Parts, PTL

\* A partition's replicas change; on this node its group is loaded or unloaded.
LEMMA ApplyUpdateKept ==
    ASSUME IInv, UNCHANGED fixed, ApplyUpdate
    PROVE  IInv'
<1>0. Types /\ WatchInv /\ UpdateInv /\ ServedInv /\ FreshInv /\ FixedInv /\ OneOut /\ AllocOK
  BY Parts DEF Types
<1>c. PICK c, p, known : /\ c = Head(committed) /\ p = c.part /\ known \in BOOLEAN
                         /\ known <=> \E d \in datasets : c.part \in PartsOf[d]
  <2> DEFINE k == \E d \in datasets : Head(committed).part \in PartsOf[d]
  <2>1. k \in BOOLEAN
    OBVIOUS
  <2> QED
    BY <2>1
<1>1. /\ zero = Nobody /\ zero.pc = "idle" /\ committed # <<>> /\ committed[1] = c
      /\ 1 \in DOMAIN committed /\ c.kind \in {"add", "remove"} /\ c \in Changes
      /\ update = NoUpdate /\ Offered = watched /\ watched = PartitionsOfDatasets
  BY ZeroIdle, <1>c DEF ApplyUpdate
<1>2. /\ committed' = Tail(committed) /\ committed' \in Seq(Changes)
      /\ UNCHANGED <<proposed, made, datasets, watched, addresses, notifs, zero, update,
                     crashed, fixed>>
  BY <1>0, <1>1, <1>c, Taken DEF ApplyUpdate
<1>3. p \in Partitions /\ c.node \in Nodes /\ c.mine \in BOOLEAN /\ ~fixed /\ (1 \in Mine <=> c.mine)
  BY <1>0, <1>1, <1>c, ChangeIs DEF Mine, FixedInv
<1>4. alloc' = IF c.mine /\ alloc.pc = "waiting"
               THEN [alloc EXCEPT !.pc = IF known THEN "joining" ELSE "iterate"] ELSE alloc
  BY <1>c DEF ApplyUpdate
<1>5. nodeIds' = IF ~known THEN nodeIds
                 ELSE [nodeIds EXCEPT ![p] = IF c.kind = "add" THEN Append(@, c.node)
                                             ELSE Others(@, c.node)]
  BY <1>c DEF ApplyUpdate
<1>6. /\ known /\ c.node = Self /\ c.kind = "add" => LoadRaft(p)
      /\ known /\ c.node = Self /\ c.kind = "remove" => UnloadRaft(p)
      /\ ~known \/ c.node # Self => UNCHANGED <<raft, groups>>
  BY <1>c DEF ApplyUpdate
<1>7. alloc' = alloc \/ (alloc.pc # "update" /\ alloc'.pc # "update")
  BY <1>0, <1>4 DEF AllocOK
<1>8. Offered' = Offered /\ Handled' = Handled /\ UpdateInv'
  BY <1>0, <1>2, <1>7, SameHandled
<1>9. FreshInv'
  BY <1>0, <1>1, <1>2, <1>8, <1>c, TailFresh
<1>10. OneOut'
  <2>1. CASE c.mine
    <3>1. proposed = {} /\ alloc.pc \in {"proposed", "waiting"} /\ \E i : Mine = {i}
      BY <1>0, <1>3, <2>1 DEF OneOut
    <3>2. Mine' = {}
      BY <1>0, <1>1, <1>2, <1>3, <2>1, <3>1, TailMine
    <3> QED
      BY <1>2, <3>1, <3>2 DEF OneOut
  <2>2. CASE ~c.mine
    BY <1>1, <1>2, <1>3, <1>4, <2>2, TakenMine
  <2> QED
    BY <2>1, <2>2
<1>11. WatchInv'
  BY <1>0, <1>2, SameWatch
<1>12. FixedInv'
  BY <1>2, <1>3 DEF FixedInv
<1>13. nodeIds[p] \in Seq(Nodes)
  BY <1>0, <1>3 DEF Types
<1>14. /\ nodeIds' \in [Partitions -> Seq(Nodes)]
       /\ \A q \in Partitions : q # p => nodeIds'[q] = nodeIds[q]
       /\ ~known => nodeIds' = nodeIds
       /\ known /\ c.kind = "add" => nodeIds'[p] = Append(nodeIds[p], c.node)
       /\ known /\ c.kind = "remove" => nodeIds'[p] = Others(nodeIds[p], c.node)
  <2>1. Append(nodeIds[p], c.node) \in Seq(Nodes) /\ Others(nodeIds[p], c.node) \in Seq(Nodes)
    BY <1>3, <1>13, OthersIs
  <2> QED
    BY <1>0, <1>1, <1>3, <1>5, <2>1 DEF Types
<1>15. /\ \A q \in Partitions : q # p \/ ~known => (Assigned(q)' <=> Assigned(q))
       /\ known /\ Assigned(p)' => (c.kind = "add" /\ c.node = Self) \/ (Assigned(p) /\ (c.kind = "remove" => c.node # Self))
  <2>1. \A q \in Partitions : q # p \/ ~known => (Assigned(q)' <=> Assigned(q))
    BY <1>14 DEF Assigned
  <2>2. CASE known /\ c.kind = "add"
    <3>1. ToSet(Append(nodeIds[p], c.node)) = ToSet(nodeIds[p]) \cup {c.node}
      BY <1>3, <1>13, AppendSet
    <3>2. ToSet(nodeIds'[p]) = ToSet(nodeIds[p]) \cup {c.node}
      BY <1>14, <2>2, <3>1
    <3>3. Assigned(p)' <=> Self \in ToSet(nodeIds'[p])
      BY DEF Assigned
    <3> QED
      BY <2>1, <2>2, <3>2, <3>3 DEF Assigned
  <2>3. CASE known /\ c.kind = "remove"
    <3>1. ToSet(nodeIds'[p]) \subseteq ToSet(nodeIds[p]) \ {c.node}
      BY <1>13, <1>14, <2>3, OthersIs
    <3>2. Assigned(p)' <=> Self \in ToSet(nodeIds'[p])
      BY DEF Assigned
    <3> QED
      BY <2>1, <2>3, <3>1, <3>2 DEF Assigned
  <2> QED
    BY <1>1, <2>1, <2>2, <2>3
<1>16. /\ groups' \subseteq groups \cup {p} /\ raft' \subseteq groups'
       /\ groups \ {p} \subseteq groups'
       /\ known /\ c.node = Self /\ c.kind = "add" => p \in groups'
       /\ ~known \/ c.node # Self => groups' = groups
  BY <1>0, <1>1, <1>6 DEF Types, LoadRaft, UnloadRaft
<1>17. Types'
  <2>1. AllocOK'
    BY <1>0, <1>4 DEF AllocOK
  <2>2. groups' \subseteq Partitions
    BY <1>0, <1>3, <1>16 DEF Types
  <2> QED
    BY <1>0, <1>1, <1>2, <1>14, <1>16, <2>1, <2>2 DEF Types, ZeroOK
<1>18. ServedInv'
  <2> SUFFICES ASSUME NEW q \in Handled, Assigned(q)' PROVE q \in groups'
    BY <1>8 DEF ServedInv
  <2>1. q \in Partitions
    BY <1>0, <1>1 DEF Handled, Before, Types, AllocOK
  <2>2. CASE q # p \/ ~known
    <3>1. q \in groups
      BY <1>0, <1>15, <2>1, <2>2 DEF ServedInv
    <3> QED
      BY <1>16, <2>2, <3>1
  <2>3. CASE q = p /\ known
    <3>1. CASE c.kind = "add" /\ c.node = Self
      BY <1>16, <2>3, <3>1
    <3>2. CASE Assigned(p) /\ (c.kind = "remove" => c.node # Self)
      <4>1. q \in groups
        BY <1>0, <2>3, <3>2 DEF ServedInv
      <4> QED
        BY <1>1, <1>16, <2>3, <3>2, <4>1
    <3> QED
      BY <1>15, <2>3, <3>1, <3>2
  <2> QED
    BY <2>2, <2>3
<1> QED
  BY <1>8, <1>9, <1>10, <1>11, <1>12, <1>17, <1>18, Parts, PTL

-----------------------------------------------------------------------------
(* The theorems. *)

\* The invariant, from one step to the next.
LEMMA InitInvariant == Init => IInv
<1> SUFFICES ASSUME Init PROVE IInv
  OBVIOUS
<1>1. Types
  <2>1. addresses \subseteq Nodes
    BY AllocationAssumption DEF Init
  <2>2. zero = Nobody /\ zero.pc # "offer" /\ update = NoUpdate
    BY DEF Init, Nobody
  <2>3. notifs = <<>> /\ Len(notifs) <= NotificationCap
    <3>1. Len(<<>>) = 0 /\ NotificationCap \in Nat
      BY AllocationAssumption
    <3> QED
      BY <3>1 DEF Init
  <2>4. ZeroOK /\ AllocOK
    BY <2>2 DEF Init, ZeroOK, AllocOK
  <2>5. nodeIds \in [Partitions -> Seq(Nodes)] /\ committed \in Seq(Changes)
        /\ notifs \in Seq(MemberChanges)
    BY <2>3 DEF Init
  <2> QED
    BY <2>1, <2>2, <2>3, <2>4, <2>5 DEF Init, Types
<1>2. Offered = {} /\ Handled = {}
  BY DEF Init, Offered, Handled
<1>3. WatchInv /\ UpdateInv
  BY DEF Init, WatchInv, UpdateInv, Phase, PartitionsOfDatasets, Nobody
<1>4. ServedInv /\ FreshInv /\ FixedInv
  BY <1>2 DEF Init, ServedInv, FreshInv, FixedInv, Nobody
<1>5. OneOut
  BY DEF Init, OneOut, Mine
<1> QED
  BY <1>1, <1>3, <1>4, <1>5, Parts

LEMMA NextInvariant == IInv /\ [Next]_vars => IInv'
<1> SUFFICES ASSUME IInv, [Next]_vars PROVE IInv'
  OBVIOUS
<1>1. CASE CommitExternal \/ CommitProposed
  BY <1>1, CommitExternalKept, CommitProposedKept
<1>2. CASE Zero
  BY <1>2, ApplyCreateKept, ApplyDeleteKept, WatchKept, WatchedKept, ApplyUpdateKept,
     ApplyMemberKept, SendNotificationKept DEF Zero
<1>3. CASE Alloc
  BY <1>3, ReceiveUpdateKept, HandleUpdateKept, AllocMovesKept, ProposeUpdateKept DEF Alloc
<1>4. CASE UNCHANGED vars
  <2>1. Types /\ WatchInv /\ UpdateInv /\ ServedInv /\ FreshInv /\ FixedInv /\ OneOut
    BY Parts
  <2>2. Offered' = Offered /\ Handled' = Handled /\ UpdateInv'
    BY <1>4, <2>1, SameHandled DEF vars
  <2>3. WatchInv' /\ ServedInv' /\ FreshInv'
    BY <1>4, <2>1, <2>2, SameWatch, SameServed, SameFresh DEF vars
  <2>4. Types' /\ FixedInv' /\ OneOut'
    BY <1>4, <2>1, <2>2 DEF vars, Types, ZeroOK, AllocOK, FixedInv, OneOut, Mine, Assigned
  <2> QED
    BY <2>2, <2>3, <2>4, Parts, PTL
<1> QED
  BY <1>1, <1>2, <1>3, <1>4 DEF Next

LEMMA InvariantType == IInv => TypeOK
<1> SUFFICES ASSUME IInv PROVE TypeOK
  OBVIOUS
<1>0. Types
  BY Parts
<1>1. \A S, s : s \in Seq(S) => ToSet(s) \subseteq S
  BY DEF ToSet
<1>2. ToSet(committed) \subseteq Changes /\ ToSet(notifs) \subseteq MemberChanges
      /\ \A p \in Partitions : ToSet(nodeIds[p]) \subseteq Nodes
  BY <1>0, <1>1 DEF Types
<1>3. /\ zero.pc \in {"idle", "watch", "unwatch", "offer", "notify"}
      /\ alloc.pc \in {"select", "update", "lock", "iterate", "propose", "proposed",
                       "waiting", "joining"}
  BY <1>0 DEF Types, ZeroOK, AllocOK, Nobody
<1> QED
  BY <1>0, <1>2, <1>3 DEF TypeOK, Types, Changes

LEMMA InvariantSafe ==
    IInv => /\ WatchedExact /\ AssignedIsServed /\ LoadedIffAssigned /\ OneChangeAtATime
<1> SUFFICES ASSUME IInv
             PROVE  WatchedExact /\ AssignedIsServed /\ LoadedIffAssigned /\ OneChangeAtATime
  OBVIOUS
<1>0. Types /\ WatchInv /\ UpdateInv /\ ServedInv /\ FreshInv /\ FixedInv /\ OneOut
  BY Parts
<1>1. zero = Nobody => /\ watched = PartitionsOfDatasets /\ Offered = watched
                       /\ (alloc.pc # "update" => Handled = watched)
  BY <1>0 DEF WatchInv, Phase, Nobody, Types, Offered, Handled
<1>2. WatchedExact
  BY <1>1 DEF WatchedExact
<1>3. AssignedIsServed
  BY <1>0, <1>1 DEF AssignedIsServed, ServedInv
<1>4. LoadedIffAssigned
  BY <1>0, <1>1 DEF LoadedIffAssigned, Settled, FixedInv
<1>5. OneChangeAtATime
  <2>1. Cardinality({}) = 0 /\ \A x : Cardinality({x}) = 1
    BY FS_EmptySet, FS_Singleton
  <2>2. CASE proposed = {} /\ Mine = {}
    <3>1. Cardinality(proposed) = 0 /\ Cardinality(Mine) = 0
      BY <2>1, <2>2, Zenon
    <3> QED
      BY <3>1 DEF OneChangeAtATime
  <2>3. CASE Mine = {} /\ \E u : proposed = {u}
    <3>1. Cardinality(proposed) = 1 /\ Cardinality(Mine) = 0
      BY <2>1, <2>3, Zenon
    <3> QED
      BY <3>1 DEF OneChangeAtATime
  <2>4. CASE proposed = {} /\ \E i : Mine = {i}
    <3>1. Cardinality(proposed) = 0 /\ Cardinality(Mine) = 1
      BY <2>1, <2>4, Zenon
    <3> QED
      BY <3>1 DEF OneChangeAtATime
  <2> QED
    BY <1>0, <2>2, <2>3, <2>4 DEF OneOut
<1> QED
  BY <1>2, <1>3, <1>4, <1>5

\* The state's types hold, and between two changes of the zero group the allocator's map
\* holds the partitions of the datasets that exist (createDataset, deleteDataset).
THEOREM AllocationCorrect == Spec => []AllocationInvariant
<1>1. IInv => AllocationInvariant
  BY InvariantType, InvariantSafe DEF AllocationInvariant
<1> QED
  BY <1>1, InitInvariant, NextInvariant, PTL DEF Spec

\* Every partition of this node that the allocator has handled has a raft group,
\* whichever of the allocator and the zero group came first to load it (loadRaft).
THEOREM AssignedServed == Spec => []AssignedIsServed
  BY InitInvariant, NextInvariant, InvariantSafe, PTL DEF Spec

\* While no member joins or leaves, the raft groups are those of this node's partitions,
\* once all changes are applied, however the two goroutines interleaved.
THEOREM LoadedExactly == Spec => []LoadedIffAssigned
  BY InitInvariant, NextInvariant, InvariantSafe, PTL DEF Spec

\* The allocator has at most one change of its own in raft and in the committed log
\* (proposeAddNode and proposeRemoveNode wait until it is applied).
THEOREM OneChange == Spec => []OneChangeAtATime
  BY InitInvariant, NextInvariant, InvariantSafe, PTL DEF Spec

\* The allocator's map does not change while the allocator iterates over it, for only
\* watch and unwatch change it, under partitionsMu.
THEOREM MapStable == Spec => IterationStable
<1>1. [Next]_vars => [AllocIterates /\ AllocIterates' => watched' = watched]_vars
  <2> SUFFICES ASSUME [Next]_vars, AllocIterates, watched' # watched PROVE FALSE
    BY DEF vars
  <2>1. Watch
    BY DEF Next, Zero, Alloc, vars, CommitExternal, CommitProposed, ApplyCreate, ApplyDelete,
           Watched, ApplyUpdate, ApplyMember, SendNotification, ReceiveUpdate, HandleUpdate,
           ReceiveNotification, LockPartitions, Iterate, ProposeUpdate, WaitForCommit,
           ProposeToGroup, UnlockPartitions
  <2> QED
    BY <2>1 DEF Watch, PartitionsFree
<1> QED
  BY <1>1, PTL DEF Spec, IterationStable
=============================================================================
