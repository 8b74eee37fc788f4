------------------------- MODULE DatasetSearch_proofs -------------------------
(***************************************************************************)
(* Proof, for every number of nodes, partitions and items, of what a       *)
(* search gathers: GatherInvariant and ErrorLostOnlyAtClose of             *)
(* DatasetSearch, and that merging the partitions' best items keeps the    *)
(* best of the dataset.                                                    *)
(***************************************************************************)
EXTENDS DatasetSearch, FiniteSetTheorems, WellFoundedInduction, TLAPS

-----------------------------------------------------------------------------
(* Lemmas about the operators of the model. *)

\* A worker works for one gather, and there are finitely many.
LEMMA WorkersOf ==
    ASSUME NEW g \in Gathers
    PROVE  /\ Workers(g) \subseteq Queried \cup Partitions
           /\ IsFiniteSet(Workers(g)) /\ Cardinality(Workers(g)) \in Nat
           /\ \A h \in Gathers : h # g => Workers(h) \cap Workers(g) = {}
           /\ g = Driver => Workers(g) = Queried
           /\ g # Driver => g \in Queried /\ Workers(g) \subseteq Partitions
<1>1. Queried \subseteq Nodes /\ Queried \cap Partitions = {} /\ Driver \notin Queried
  BY SearchAssumption DEF Queried
<1>2. /\ g = Driver => Workers(g) = Queried
      /\ g # Driver => g \in Queried /\ Workers(g) \subseteq Partitions
  BY DEF Gathers, Workers
<1>3. IsFiniteSet(Workers(g)) /\ Cardinality(Workers(g)) \in Nat
  <2>1. IsFiniteSet(Queried) /\ IsFiniteSet(Partitions)
    BY <1>1, SearchAssumption, FS_Subset
  <2>2. Workers(g) \in SUBSET Queried \/ Workers(g) \in SUBSET Partitions
    BY <1>2
  <2>3. IsFiniteSet(Workers(g))
    BY <2>1, <2>2, FS_Subset
  <2> QED
    BY <2>3, FS_CardinalityType
<1>4. ASSUME NEW h \in Gathers, h # g
      PROVE  Workers(h) \cap Workers(g) = {}
  BY <1>1, <1>4 DEF Gathers, Workers
<1> QED
  BY <1>2, <1>3, <1>4

LEMMA TopKSubset == \A S : TopK(S) \subseteq S
  BY DEF TopK

LEMMA ItemsIn ==
    ASSUME TypeOK, NEW w \in Queried \cup Partitions
    PROVE  WorkerItems(w) \subseteq AllItems
<1>1. CASE w \in Partitions
  BY <1>1, TopKSubset DEF WorkerItems, AllItems
<1>2. CASE w \notin Partitions
  BY <1>2 DEF WorkerItems, TypeOK, Gathers
<1> QED
  BY <1>1, <1>2

-----------------------------------------------------------------------------
(* The inductive invariant. *)

Done(g) == {w \in Workers(g) : worker[w] = "done"}

\* The workers whose items the loop of g has taken.
Taken(g) == Done(g) \ resultCh[g]

ItemsFrom(W) == UNION {WorkerItems(w) : w \in W}

\* What TypeOK leaves out: the channels and counters are functions.
Shapes ==
    /\ resultCh \in [Gathers -> SUBSET (Queried \cup Partitions)]
    /\ errorCh \in [Gathers -> SUBSET (Queried \cup Partitions)]
    /\ received \in [Gathers -> Nat]

\* Nothing happens in a gather before its request.
Idle(g) ==
    phase[g] = "waiting" =>
        /\ \A w \in Workers(g) : worker[w] = "unborn"
        /\ closed[g] = 0 /\ received[g] = 0
        /\ resultCh[g] = {} /\ answer[g] = {} /\ outcome[g] = "none"

\* The channels hold what the workers sent; the error channel keeps every error,
\* since the first error received ends the gather.
Channels(g) ==
    /\ resultCh[g] \subseteq Done(g)
    /\ errorCh[g] = Failures(g)
    /\ g # Driver => Failures(g) = {}
    /\ closed[g] > 0 => \A w \in Workers(g) : worker[w] \in {"done", "failed"}

\* While it collects, a gather has the items of the workers it received from, and
\* has counted more receives than that only if the result channel was closed and
\* empty.
Counted(g) ==
    phase[g] = "collecting" =>
        /\ outcome[g] = "none"
        /\ answer[g] = ItemsFrom(Taken(g))
        /\ Cardinality(Taken(g)) <= received[g]
        /\ Cardinality(Taken(g)) < received[g] => closed[g] > 0 /\ resultCh[g] = {}

\* What a gather that returned without an error returned.
Returned(g) ==
    /\ outcome[g] = "none" <=> phase[g] # "returned"
    /\ outcome[g] = "ok" =>
        /\ \A w \in Workers(g) : worker[w] \in {"done", "failed"}
        /\ Failures(g) # {} => closed[g] > 0
        /\ \/ answer[g] = TopK(ItemsFrom(Done(g)))
           \/ Failures(g) = {} /\ answer[g] = {}

\* A node's worker at the driver is done only when that node's gather is.
Answered(n) == worker[n] = "done" => phase[n] = "returned" /\ outcome[n] = "ok"

Local(g) == Idle(g) /\ Channels(g) /\ Counted(g) /\ Returned(g)

IInv ==
    /\ TypeOK /\ Shapes
    /\ \A g \in Gathers : Local(g)
    /\ \A n \in Queried : Answered(n)

-----------------------------------------------------------------------------
(* How a step acts on the gathers. *)

\* A gather that a step does not touch, and none of whose answered workers changes
\* its items, keeps the invariant.
LEMMA Untouched ==
    ASSUME IInv, NEW g \in Gathers,
           phase'[g] = phase[g], resultCh'[g] = resultCh[g], errorCh'[g] = errorCh[g],
           closed'[g] = closed[g], received'[g] = received[g], answer'[g] = answer[g],
           outcome'[g] = outcome[g],
           \A w \in Workers(g) : worker'[w] = worker[w],
           \A n \in Queried : worker[n] = "done" => answer'[n] = answer[n]
    PROVE  Local(g)'
<1>1. Local(g)
  BY DEF IInv
<1>2. Done(g)' = Done(g) /\ Failures(g)' = Failures(g) /\ Taken(g)' = Taken(g)
  BY DEF Done, Failures, Taken
<1>3. \A w \in Done(g) : WorkerItems(w)' = WorkerItems(w)
  BY WorkersOf DEF Done, WorkerItems
<1>4. ItemsFrom(Done(g))' = ItemsFrom(Done(g)) /\ ItemsFrom(Taken(g))' = ItemsFrom(Taken(g))
  <2>1. Taken(g) \subseteq Done(g)
    BY DEF Taken
  <2> QED
    BY <1>2, <1>3, <2>1 DEF ItemsFrom
<1>5. Idle(g)' /\ Channels(g)'
  BY <1>1, <1>2 DEF Local, Idle, Channels
<1>6. Counted(g)'
  BY <1>1, <1>2, <1>4 DEF Local, Counted
<1>7. Returned(g)'
  <2>1. TopK(ItemsFrom(Done(g)))' = TopK(ItemsFrom(Done(g)))
    BY <1>4 DEF TopK
  <2> QED
    BY <1>1, <1>2, <2>1 DEF Local, Returned
<1> QED
  BY <1>5, <1>6, <1>7 DEF Local

LEMMA InitInvariant == Init => IInv
<1> SUFFICES ASSUME Init PROVE IInv
  OBVIOUS
<1>1. TypeOK
  <2>1. \A g \in Gathers : received[g] \in 0..Cardinality(Workers(g))
    BY WorkersOf DEF Init
  <2> QED
    BY <2>1 DEF Init, TypeOK
<1>2. Shapes
  BY DEF Init, Shapes
<1>3. ASSUME NEW g \in Gathers PROVE Local(g)
  <2>1. \A w \in Workers(g) : worker[w] = "unborn"
    BY WorkersOf DEF Init
  <2>2. Failures(g) = {} /\ Done(g) = {}
    BY <2>1 DEF Failures, Done
  <2> QED
    BY <2>1, <2>2 DEF Init, Local, Idle, Channels, Counted, Returned
<1>4. \A n \in Queried : Answered(n)
  BY DEF Init, Answered
<1> QED
  BY <1>1, <1>2, <1>3, <1>4 DEF IInv

LEMMA StartStep ==
    ASSUME IInv, NEW g \in Gathers, Start(g)
    PROVE  IInv'
<1> USE DEF Start
<1>1. Workers(g) \subseteq Queried \cup Partitions /\ DOMAIN worker = Queried \cup Partitions
  BY WorkersOf DEF IInv, TypeOK
<1>2. /\ phase' \in [Gathers -> {"waiting", "collecting", "returned"}]
      /\ worker' \in [Queried \cup Partitions -> {"unborn", "running", "done", "failed"}]
      /\ phase'[g] = "collecting"
      /\ \A h \in Gathers : h # g => phase'[h] = phase[h]
      /\ \A w \in Workers(g) : worker'[w] = "running"
      /\ \A w \in Queried \cup Partitions : w \notin Workers(g) => worker'[w] = worker[w]
  BY <1>1 DEF IInv, TypeOK
<1>3. TypeOK' /\ Shapes'
  BY <1>2 DEF IInv, TypeOK, AllItems, Shapes
<1>4. Local(g)'
  <2>1. Local(g)
    BY DEF IInv
  <2>2. Failures(g)' = {} /\ Done(g)' = {} /\ Taken(g)' = {}
    BY <1>2 DEF Failures, Done, Taken
  <2>3. Failures(g) = {}
    BY <2>1 DEF Local, Idle, Failures
  <2>4. ItemsFrom(Taken(g))' = {} /\ Cardinality(Taken(g)') = 0
    BY <2>2, FS_EmptySet DEF ItemsFrom
  <2> QED
    BY <2>1, <2>2, <2>3, <2>4, <1>2 DEF Local, Idle, Channels, Counted, Returned
<1>5. ASSUME NEW h \in Gathers, h # g PROVE Local(h)'
  <2>1. \A w \in Workers(h) : worker'[w] = worker[w]
    BY <1>2, <1>5, WorkersOf
  <2> QED
    BY <2>1, <1>2, <1>5, Untouched
<1>6. \A n \in Queried : Answered(n)'
  BY <1>2 DEF IInv, Answered, Gathers
<1> QED
  BY <1>3, <1>4, <1>5, <1>6 DEF IInv

LEMMA SucceedStep ==
    ASSUME IInv, NEW g \in Gathers, NEW v \in Workers(g), Succeed(g, v)
    PROVE  IInv'
<1> USE DEF Succeed
<1>1. v \in Queried \cup Partitions
  BY WorkersOf
<1>2. /\ worker' \in [Queried \cup Partitions -> {"unborn", "running", "done", "failed"}]
      /\ worker'[v] = "done"
      /\ \A w \in Queried \cup Partitions : w # v => worker'[w] = worker[w]
      /\ resultCh' \in [Gathers -> SUBSET (Queried \cup Partitions)]
      /\ resultCh'[g] = resultCh[g] \cup {v}
      /\ \A h \in Gathers : h # g => resultCh'[h] = resultCh[h]
  BY <1>1 DEF IInv, TypeOK, Shapes
<1>3. TypeOK' /\ Shapes'
  <2>1. \A h \in Gathers : resultCh'[h] \subseteq Workers(h)
    BY <1>2 DEF IInv, TypeOK
  <2> QED
    BY <1>2, <2>1 DEF IInv, TypeOK, AllItems, Shapes
<1>4. Local(g)'
  <2>1. Local(g)
    BY DEF IInv
  <2>2. v \notin Done(g) /\ v \notin Failures(g) /\ closed[g] = 0 /\ phase[g] # "waiting"
    <3>1. ~(closed[g] > 0) /\ closed[g] \in 0..2
      BY <2>1 DEF Local, Channels, IInv, TypeOK
    <3> QED
      BY <2>1, <3>1 DEF Local, Idle, Done, Failures
  <2>3. Done(g)' = Done(g) \cup {v} /\ Failures(g)' = Failures(g)
    BY <1>1, <1>2, <2>2, WorkersOf DEF Done, Failures
  <2>4. Taken(g)' = Taken(g)
    BY <1>2, <2>1, <2>2, <2>3 DEF Taken, Local, Channels
  <2>5. ItemsFrom(Taken(g))' = ItemsFrom(Taken(g))
    BY <2>4 DEF ItemsFrom, WorkerItems
  <2>6. ~(Cardinality(Taken(g)) < received[g]) \/ phase[g] # "collecting"
    BY <2>1, <2>2 DEF Local, Counted
  <2>7. outcome[g] # "ok"
    BY <2>1 DEF Local, Returned
  <2>8. Idle(g)' /\ Returned(g)'
    BY <2>1, <2>2, <2>7 DEF Local, Idle, Returned
  <2>9. Channels(g)'
    BY <1>2, <2>1, <2>2, <2>3 DEF Local, Channels
  <2>10. Counted(g)'
    BY <2>1, <2>4, <2>5, <2>6 DEF Local, Counted
  <2> QED
    BY <2>8, <2>9, <2>10 DEF Local
<1>5. ASSUME NEW h \in Gathers, h # g PROVE Local(h)'
  <2>1. \A w \in Workers(h) : worker'[w] = worker[w]
    BY <1>2, <1>5, WorkersOf
  <2> QED
    BY <2>1, <1>2, <1>5, Untouched
<1>6. ASSUME NEW n \in Queried PROVE Answered(n)'
  <2>1. CASE n = v
    <3>1. g = Driver
      BY <2>1, WorkersOf, SearchAssumption DEF Queried
    <3> QED
      BY <2>1, <3>1 DEF Answered
  <2>2. CASE n # v
    BY <2>2, <1>2 DEF IInv, Answered
  <2> QED
    BY <2>1, <2>2
<1> QED
  BY <1>3, <1>4, <1>5, <1>6 DEF IInv

LEMMA BreakStep ==
    ASSUME IInv, NEW v \in Queried, Break(v)
    PROVE  IInv'
<1> USE DEF Break
<1>1. Driver \in Gathers /\ v \in Workers(Driver)
  BY DEF Gathers
<1>2. /\ worker' \in [Queried \cup Partitions -> {"unborn", "running", "done", "failed"}]
      /\ worker'[v] = "failed"
      /\ \A w \in Queried \cup Partitions : w # v => worker'[w] = worker[w]
      /\ errorCh' \in [Gathers -> SUBSET (Queried \cup Partitions)]
      /\ errorCh'[Driver] = errorCh[Driver] \cup {v}
      /\ \A h \in Gathers : h # Driver => errorCh'[h] = errorCh[h]
  BY <1>1 DEF IInv, TypeOK, Shapes
<1>3. TypeOK' /\ Shapes'
  <2>1. \A h \in Gathers : errorCh'[h] \subseteq Workers(h)
    BY <1>2 DEF IInv, TypeOK
  <2> QED
    BY <1>2, <2>1 DEF IInv, TypeOK, AllItems, Shapes
<1>4. Local(Driver)'
  <2>1. Local(Driver)
    BY <1>1 DEF IInv
  <2>2. v \notin Done(Driver) /\ closed[Driver] = 0 /\ phase[Driver] # "waiting"
    <3>1. ~(closed[Driver] > 0) /\ closed[Driver] \in 0..2
      BY <1>1, <2>1 DEF Local, Channels, IInv, TypeOK
    <3> QED
      BY <1>1, <2>1, <3>1 DEF Local, Idle, Done
  <2>3. Done(Driver)' = Done(Driver) /\ Failures(Driver)' = Failures(Driver) \cup {v}
    BY <1>1, <1>2, <2>2, WorkersOf DEF Done, Failures
  <2>4. Taken(Driver)' = Taken(Driver)
    BY <2>3 DEF Taken
  <2>5. ItemsFrom(Taken(Driver))' = ItemsFrom(Taken(Driver))
    BY <2>4 DEF ItemsFrom, WorkerItems
  <2>6. outcome[Driver] # "ok"
    BY <1>1, <2>1 DEF Local, Returned
  <2>7. Idle(Driver)' /\ Returned(Driver)'
    BY <2>1, <2>2, <2>6 DEF Local, Idle, Returned
  <2>8. Channels(Driver)'
    BY <1>2, <2>1, <2>2, <2>3 DEF Local, Channels
  <2>9. Counted(Driver)'
    BY <2>1, <2>4, <2>5 DEF Local, Counted
  <2> QED
    BY <2>7, <2>8, <2>9 DEF Local
<1>5. ASSUME NEW h \in Gathers, h # Driver PROVE Local(h)'
  <2>1. \A w \in Workers(h) : worker'[w] = worker[w]
    BY <1>1, <1>2, <1>5, WorkersOf
  <2> QED
    BY <2>1, <1>2, <1>5, Untouched
<1>6. \A n \in Queried : Answered(n)'
  BY <1>2 DEF IInv, Answered
<1> QED
  BY <1>3, <1>4, <1>5, <1>6 DEF IInv

LEMMA CloseStep ==
    ASSUME IInv, NEW g \in Gathers, Close(g)
    PROVE  IInv'
<1> USE DEF Close
<1>1. /\ closed' \in [Gathers -> 0..2]
      /\ closed'[g] = closed[g] + 1 /\ closed[g] \in 0..2
      /\ \A h \in Gathers : h # g => closed'[h] = closed[h]
  BY DEF IInv, TypeOK
<1>2. TypeOK' /\ Shapes'
  BY <1>1 DEF IInv, TypeOK, AllItems, Shapes
<1>3. Local(g)'
  <2>1. Local(g)
    BY DEF IInv
  <2>2. Failures(g)' = Failures(g) /\ Done(g)' = Done(g) /\ Taken(g)' = Taken(g)
    BY DEF Failures, Done, Taken
  <2>3. \A W : ItemsFrom(W)' = ItemsFrom(W)
    BY DEF ItemsFrom, WorkerItems
  <2>4. closed'[g] > 0
    BY <1>1
  <2>5. Idle(g)' /\ Channels(g)'
    BY <2>1, <2>2 DEF Local, Idle, Channels
  <2>6. Counted(g)'
    BY <2>1, <2>2, <2>3, <2>4 DEF Local, Counted, ItemsFrom, WorkerItems
  <2>7. Returned(g)'
    <3>1. TopK(ItemsFrom(Done(g)))' = TopK(ItemsFrom(Done(g)))
      BY <2>2 DEF TopK, ItemsFrom, WorkerItems
    <3> QED
      BY <2>1, <2>2, <2>4, <3>1 DEF Local, Returned
  <2> QED
    BY <2>5, <2>6, <2>7 DEF Local
<1>4. ASSUME NEW h \in Gathers, h # g PROVE Local(h)'
  BY <1>1, <1>4, Untouched
<1>5. \A n \in Queried : Answered(n)'
  BY DEF IInv, Answered
<1> QED
  BY <1>2, <1>3, <1>4, <1>5 DEF IInv

LEMMA ReceiveItemsStep ==
    ASSUME IInv, NEW g \in Gathers, ReceiveItems(g)
    PROVE  IInv'
<1> USE DEF ReceiveItems, Collecting
<1>1. PICK v \in resultCh[g] : /\ resultCh' = [resultCh EXCEPT ![g] = @ \ {v}]
                               /\ answer' = [answer EXCEPT ![g] = @ \cup WorkerItems(v)]
  OBVIOUS
<1>2. Local(g)
  BY DEF IInv
<1>3. v \in Done(g) /\ v \in Workers(g) /\ v \in Queried \cup Partitions
  BY <1>2, WorkersOf DEF Local, Channels, Done
<1>4. /\ resultCh' \in [Gathers -> SUBSET (Queried \cup Partitions)]
      /\ resultCh'[g] = resultCh[g] \ {v}
      /\ \A h \in Gathers : h # g => resultCh'[h] = resultCh[h]
      /\ answer' \in [Gathers -> SUBSET AllItems]
      /\ answer'[g] = answer[g] \cup WorkerItems(v)
      /\ \A h \in Gathers : h # g => answer'[h] = answer[h]
  BY <1>1, <1>3, ItemsIn DEF IInv, TypeOK, Shapes
<1>5. /\ received' \in [Gathers -> Nat] /\ received'[g] = received[g] + 1
      /\ \A h \in Gathers : h # g => received'[h] = received[h]
      /\ received[g] \in Nat
  BY DEF IInv, Shapes
<1>6. TypeOK' /\ Shapes'
  <2>1. \A h \in Gathers : received'[h] \in 0..Cardinality(Workers(h))
    BY <1>5, WorkersOf DEF IInv, TypeOK
  <2>2. \A h \in Gathers : resultCh'[h] \subseteq Workers(h)
    BY <1>4 DEF IInv, TypeOK
  <2> QED
    BY <1>4, <1>5, <2>1, <2>2 DEF IInv, TypeOK, AllItems, Shapes
<1>7. \A n \in Queried : worker[n] = "done" => n # g
  BY DEF IInv, Answered
<1>8. Local(g)'
  <2>1. Done(g)' = Done(g) /\ Failures(g)' = Failures(g)
    BY DEF Done, Failures
  <2>2. Taken(g)' = Taken(g) \cup {v} /\ v \notin Taken(g)
    BY <1>3, <1>4, <2>1 DEF Taken
  <2>3. \A w \in Done(g) : WorkerItems(w)' = WorkerItems(w)
    BY <1>4, <1>7, WorkersOf DEF Done, WorkerItems, Gathers
  <2>4. ItemsFrom(Taken(g))' = ItemsFrom(Taken(g)) \cup WorkerItems(v)
    BY <1>3, <2>2, <2>3 DEF ItemsFrom, Taken
  <2>5. Cardinality(Taken(g)') = Cardinality(Taken(g)) + 1 /\ Cardinality(Taken(g)) \in Nat
    <3>1. Taken(g) \in SUBSET Workers(g)
      BY DEF Taken, Done
    <3>2. IsFiniteSet(Taken(g))
      BY <3>1, WorkersOf, FS_Subset
    <3> QED
      BY <2>2, <3>2, FS_AddElement, FS_CardinalityType
  <2>6. ~(Cardinality(Taken(g)) < received[g])
    BY <1>2 DEF Local, Counted
  <2>7. Counted(g)'
    BY <1>2, <1>4, <1>5, <2>4, <2>5, <2>6 DEF Local, Counted
  <2>8. Idle(g)' /\ Channels(g)' /\ Returned(g)'
    BY <1>2, <1>4, <2>1 DEF Local, Counted, Idle, Channels, Returned
  <2> QED
    BY <2>7, <2>8 DEF Local
<1>9. ASSUME NEW h \in Gathers, h # g PROVE Local(h)'
  BY <1>4, <1>5, <1>7, <1>9, Untouched DEF Gathers
<1>10. \A n \in Queried : Answered(n)'
  BY DEF IInv, Answered
<1> QED
  BY <1>6, <1>8, <1>9, <1>10 DEF IInv

LEMMA ReceiveClosedResultStep ==
    ASSUME IInv, NEW g \in Gathers, ReceiveClosedResult(g)
    PROVE  IInv'
<1> USE DEF ReceiveClosedResult, Collecting
<1>1. Local(g)
  BY DEF IInv
<1>2. /\ received' \in [Gathers -> Nat] /\ received'[g] = received[g] + 1
      /\ \A h \in Gathers : h # g => received'[h] = received[h]
      /\ received[g] \in Nat /\ closed[g] > 0
  BY DEF IInv, Shapes, TypeOK
<1>3. TypeOK' /\ Shapes'
  <2>1. \A h \in Gathers : received'[h] \in 0..Cardinality(Workers(h))
    BY <1>2, WorkersOf DEF IInv, TypeOK
  <2> QED
    BY <1>2, <2>1 DEF IInv, TypeOK, AllItems, Shapes
<1>4. Local(g)'
  <2>1. Failures(g)' = Failures(g) /\ Done(g)' = Done(g) /\ Taken(g)' = Taken(g)
    BY DEF Failures, Done, Taken
  <2>2. ItemsFrom(Taken(g))' = ItemsFrom(Taken(g))
    BY <2>1 DEF ItemsFrom, WorkerItems
  <2>3. Cardinality(Taken(g)) \in Nat
    <3>1. Taken(g) \in SUBSET Workers(g)
      BY DEF Taken, Done
    <3> QED
      BY <3>1, WorkersOf, FS_Subset, FS_CardinalityType
  <2>4. Counted(g)'
    BY <1>1, <1>2, <2>1, <2>2, <2>3 DEF Local, Counted
  <2>5. Idle(g)' /\ Channels(g)' /\ Returned(g)'
    BY <1>1, <2>1 DEF Local, Counted, Idle, Channels, Returned
  <2> QED
    BY <2>4, <2>5 DEF Local
<1>5. ASSUME NEW h \in Gathers, h # g PROVE Local(h)'
  BY <1>2, <1>5, Untouched
<1>6. \A n \in Queried : Answered(n)'
  BY DEF IInv, Answered
<1> QED
  BY <1>3, <1>4, <1>5, <1>6 DEF IInv

\* When the loop is over, every worker has ended and its items are taken: either
\* there was one receive per worker, or the result channel was closed and empty.
LEMMA AtTheEnd ==
    ASSUME IInv, NEW g \in Gathers, phase[g] = "collecting",
           received[g] = Cardinality(Workers(g))
    PROVE  /\ \A w \in Workers(g) : worker[w] \in {"done", "failed"}
           /\ Taken(g) = Done(g)
           /\ Failures(g) # {} => closed[g] > 0
<1>1. Local(g) /\ Taken(g) \in SUBSET Workers(g)
  BY DEF IInv, Taken, Done
<1>2. CASE Cardinality(Taken(g)) < received[g]
  BY <1>1, <1>2 DEF Local, Counted, Channels, Taken
<1>3. CASE Cardinality(Taken(g)) = received[g]
  <2>1. Taken(g) = Workers(g)
    BY <1>1, <1>3, WorkersOf, FS_Subset
  <2> QED
    BY <2>1 DEF Taken, Done, Failures
<1>4. Cardinality(Taken(g)) \in Nat /\ received[g] \in Nat
  BY <1>1, WorkersOf, FS_Subset, FS_CardinalityType
<1> QED
  BY <1>1, <1>2, <1>3, <1>4 DEF Local, Counted

\* A gather returns: with an error, or with what Returned says.
LEMMA ReturnStep ==
    ASSUME IInv, NEW g \in Gathers, phase[g] = "collecting",
           NEW how \in {"ok", "error"}, NEW items \in SUBSET AllItems,
           Return(g, how, items), UNCHANGED <<worker, resultCh, errorCh, closed, received>>,
           how = "ok" =>
             /\ \A w \in Workers(g) : worker[w] \in {"done", "failed"}
             /\ Failures(g) # {} => closed[g] > 0
             /\ items = TopK(ItemsFrom(Done(g))) \/ (Failures(g) = {} /\ items = {})
    PROVE  IInv'
<1> USE DEF Return
<1>1. /\ phase' \in [Gathers -> {"waiting", "collecting", "returned"}]
      /\ outcome' \in [Gathers -> {"none", "ok", "error"}]
      /\ answer' \in [Gathers -> SUBSET AllItems]
      /\ cancelled' \in [Gathers -> BOOLEAN]
      /\ phase'[g] = "returned" /\ outcome'[g] = how /\ answer'[g] = items
      /\ \A h \in Gathers : h # g =>
            phase'[h] = phase[h] /\ outcome'[h] = outcome[h] /\ answer'[h] = answer[h]
  BY DEF IInv, TypeOK
<1>2. TypeOK' /\ Shapes'
  BY <1>1 DEF IInv, TypeOK, AllItems, Shapes
<1>3. \A n \in Queried : worker[n] = "done" => n # g
  BY DEF IInv, Answered
<1>4. Local(g)'
  <2>1. Local(g)
    BY DEF IInv
  <2>2. Failures(g)' = Failures(g) /\ Done(g)' = Done(g)
    BY DEF Failures, Done
  <2>3. \A w \in Done(g) : WorkerItems(w)' = WorkerItems(w)
    BY <1>1, <1>3, WorkersOf DEF Done, WorkerItems, Gathers
  <2>4. TopK(ItemsFrom(Done(g)))' = TopK(ItemsFrom(Done(g)))
    <3>1. ItemsFrom(Done(g))' = ItemsFrom(Done(g))
      BY <2>2, <2>3 DEF ItemsFrom
    <3> QED
      BY <3>1 DEF TopK
  <2>5. Idle(g)' /\ Channels(g)' /\ Counted(g)'
    BY <1>1, <2>1, <2>2 DEF Local, Idle, Channels, Counted
  <2>6. Returned(g)'
    BY <1>1, <2>2, <2>4 DEF Returned
  <2> QED
    BY <2>5, <2>6 DEF Local
<1>5. ASSUME NEW h \in Gathers, h # g PROVE Local(h)'
  BY <1>1, <1>3, <1>5, Untouched DEF Gathers
<1>6. \A n \in Queried : Answered(n)'
  BY <1>1, <1>3 DEF IInv, Answered, Gathers
<1> QED
  BY <1>2, <1>4, <1>5, <1>6 DEF IInv

LEMMA CancelStep ==
    ASSUME IInv, Cancel
    PROVE  IInv'
<1> USE DEF Cancel
<1>1. TypeOK' /\ Shapes'
  BY DEF IInv, TypeOK, AllItems, Shapes
<1>2. \A g \in Gathers : Local(g)'
  BY Untouched
<1>3. \A n \in Queried : Answered(n)'
  BY DEF IInv, Answered
<1> QED
  BY <1>1, <1>2, <1>3 DEF IInv

LEMMA NextInvariant == IInv /\ [Next]_vars => IInv'
<1> SUFFICES ASSUME IInv, [Next]_vars PROVE IInv'
  OBVIOUS
<1>1. CASE UNCHANGED vars
  <2> USE <1>1 DEF vars
  <2>1. TypeOK' /\ Shapes'
    BY DEF IInv, TypeOK, AllItems, Shapes
  <2>2. \A g \in Gathers : Local(g)'
    BY Untouched
  <2>3. \A n \in Queried : Answered(n)'
    BY DEF IInv, Answered
  <2> QED
    BY <2>1, <2>2, <2>3 DEF IInv
<1>2. ASSUME NEW g \in Gathers, ReceiveError(g) \/ ReceiveDone(g)
      PROVE  IInv'
  <2>1. Return(g, "error", {}) /\ phase[g] = "collecting"
        /\ UNCHANGED <<worker, resultCh, errorCh, closed, received>>
    BY <1>2 DEF ReceiveError, ReceiveDone, Collecting
  <2> QED
    BY <2>1, ReturnStep
<1>3. ASSUME NEW g \in Gathers, ReceiveClosedError(g)
      PROVE  IInv'
  <2>1. Return(g, "ok", {}) /\ phase[g] = "collecting" /\ closed[g] = 2 /\ errorCh[g] = {}
        /\ UNCHANGED <<worker, resultCh, errorCh, closed, received>>
    BY <1>3 DEF ReceiveClosedError, Collecting
  <2>2. Failures(g) = {} /\ \A w \in Workers(g) : worker[w] \in {"done", "failed"}
    BY <2>1 DEF IInv, Local, Channels
  <2> QED
    BY <2>1, <2>2, ReturnStep
<1>4. ASSUME NEW g \in Gathers, Finish(g)
      PROVE  IInv'
  <2>1. /\ Return(g, "ok", TopK(answer[g])) /\ phase[g] = "collecting"
        /\ received[g] = Cardinality(Workers(g))
        /\ UNCHANGED <<worker, resultCh, errorCh, closed, received>>
    BY <1>4 DEF Finish
  <2>2. TopK(answer[g]) \in SUBSET AllItems
    BY TopKSubset DEF IInv, TypeOK
  <2>3. answer[g] = ItemsFrom(Taken(g))
    BY <2>1 DEF IInv, Local, Counted
  <2> QED
    BY <2>1, <2>2, <2>3, AtTheEnd, ReturnStep
<1> QED
  BY <1>1, <1>2, <1>3, <1>4, StartStep, CloseStep, SucceedStep, BreakStep, CancelStep,
     ReceiveItemsStep, ReceiveClosedResultStep DEF Next

LEMMA InvariantSpec == Spec => []IInv
  BY InitInvariant, NextInvariant, PTL DEF Spec

\* A worker is done, failed, or still to end.
LEMMA EndedOk ==
    ASSUME IInv, NEW g \in Gathers, outcome[g] = "ok"
    PROVE  Done(g) = Workers(g) \ Failures(g)
  BY DEF IInv, Local, Returned, Done, Failures

-----------------------------------------------------------------------------
\* The state's types, and what a gather without failures answers: either the best
\* of all its workers' items, or nothing (Search, SearchPartitions).
THEOREM GatherCorrect == Spec => []GatherInvariant
<1>1. IInv => GatherInvariant
  <2> SUFFICES ASSUME IInv, NEW g \in Gathers, outcome[g] = "ok", Failures(g) = {}
               PROVE  \/ answer[g] = {}
                      \/ answer[g] = TopK(UNION {WorkerItems(w) : w \in Workers(g)})
    BY DEF IInv, GatherInvariant, AllOrNothing
  <2>1. Done(g) = Workers(g)
    BY EndedOk
  <2> QED
    BY <2>1 DEF IInv, Local, Returned, ItemsFrom
<1> QED
  BY <1>1, InvariantSpec, PTL

\* An error is lost only in the race with the closed result channel: every worker
\* has ended, and the items are those of the workers that succeeded (Search).
THEOREM ErrorLossCorrect == Spec => []ErrorLostOnlyAtClose
<1>1. IInv => ErrorLostOnlyAtClose
  <2> SUFFICES ASSUME IInv, NEW g \in Gathers, outcome[g] = "ok", Failures(g) # {}
               PROVE  /\ closed[g] >= 1
                      /\ answer[g] = TopK(UNION {WorkerItems(w) : w \in Workers(g) \ Failures(g)})
    BY DEF ErrorLostOnlyAtClose
  <2>1. Done(g) = Workers(g) \ Failures(g)
    BY EndedOk
  <2>2. closed[g] \in 0..2 /\ closed[g] > 0
    BY DEF IInv, TypeOK, Local, Returned
  <2> QED
    BY <2>1, <2>2 DEF IInv, Local, Returned, ItemsFrom
<1> QED
  BY <1>1, InvariantSpec, PTL

-----------------------------------------------------------------------------
(* Merging. *)

LessThan == {r \in Nat \X Nat : r[1] < r[2]}

\* A set of naturals has a least element.
LEMMA Least ==
    ASSUME NEW T \in SUBSET Nat, T # {}
    PROVE  \E x \in T : \A y \in T : x <= y
<1>1. LessThan = OpToRel(<, Nat)
  BY DEF LessThan, OpToRel
<1>2. PICK x \in T : \A y \in T : <<y, x>> \notin LessThan
  BY <1>1, NatLessThanWellFounded, WFMin
<1>3. ASSUME NEW y \in T PROVE x <= y
  <2>1. <<y, x>> \in Nat \X Nat /\ <<y, x>>[1] = y /\ <<y, x>>[2] = x
    OBVIOUS
  <2>2. ~(y < x)
    BY <1>2, <2>1 DEF LessThan
  <2> QED
    BY <2>2
<1> QED
  BY <1>3

Below(S, x) == {y \in S : y < x}

\* The items below one are finitely many, and no more in a smaller set.
LEMMA BelowBounds ==
    ASSUME NEW S, NEW T, S \subseteq Nat, T \subseteq Nat, NEW x \in Nat, NEW y \in Nat,
           Below(S, x) \subseteq Below(T, y)
    PROVE  /\ Cardinality(Below(S, x)) \in Nat /\ Cardinality(Below(T, y)) \in Nat
           /\ Cardinality(Below(S, x)) <= Cardinality(Below(T, y))
<1>1. Below(T, y) \in SUBSET Nat
  BY DEF Below
<1>2. \A z \in Below(T, y) : z <= y
  BY <1>1 DEF Below
<1>3. IsFiniteSet(Below(T, y))
  BY <1>1, <1>2, FS_BoundedSetOfNaturals
<1> QED
  BY <1>3, FS_Subset, FS_CardinalityType

\* The best of the best: cutting every part to K items loses none of the K best of
\* the whole, however the items are spread (the sort and cut of Search and SearchPartitions).
LEMMA MergeKeepsBest ==
    ASSUME NEW F, \A S \in F : S \subseteq Nat
    PROVE  TopK(UNION {TopK(S) : S \in F}) = TopK(UNION F)
<1> DEFINE All == UNION F
           Cut == UNION {TopK(S) : S \in F}
<1>1. \A S, x : x \in TopK(S) <=> x \in S /\ Cardinality(Below(S, x)) < K
  BY DEF TopK, Below
<1>2. Cut \subseteq All /\ All \subseteq Nat /\ K \in Nat
  BY TopKSubset, SearchAssumption
<1>3. ASSUME NEW x \in TopK(All)
      PROVE  x \in TopK(Cut)
  <2>1. x \in All /\ Cardinality(Below(All, x)) < K
    BY <1>1
  <2>2. PICK S \in F : x \in S
    BY <2>1
  <2>3. Below(S, x) \subseteq Below(All, x) /\ Below(Cut, x) \subseteq Below(All, x)
    BY <1>2, <2>2 DEF Below
  <2>4. Cardinality(Below(S, x)) < K /\ Cardinality(Below(Cut, x)) < K
    <3>1. S \subseteq Nat /\ Cut \subseteq Nat /\ x \in Nat
      BY <1>2, <2>1
    <3> HIDE DEF All, Cut
    <3>2. /\ Cardinality(Below(S, x)) \in Nat /\ Cardinality(Below(All, x)) \in Nat
          /\ Cardinality(Below(S, x)) <= Cardinality(Below(All, x))
      BY <1>2, <2>3, <3>1, BelowBounds
    <3>3. /\ Cardinality(Below(Cut, x)) \in Nat
          /\ Cardinality(Below(Cut, x)) <= Cardinality(Below(All, x))
      BY <1>2, <2>3, <3>1, BelowBounds
    <3> QED
      BY <1>2, <2>1, <3>2, <3>3
  <2>5. x \in Cut
    BY <1>1, <2>2, <2>4
  <2> HIDE DEF Cut
  <2> QED
    BY <1>1, <2>4, <2>5
<1>4. ASSUME NEW x \in TopK(Cut)
      PROVE  x \in TopK(All)
  <2> DEFINE Lost == {y \in All : y < x /\ y \notin Cut}
  <2>1. x \in Cut /\ Cardinality(Below(Cut, x)) < K
    <3> HIDE DEF Cut
    <3> QED BY <1>1, <1>4
  <2>2. x \in All /\ x \in Nat /\ Cut \subseteq Nat
    BY <1>2, <2>1
  <2>3. CASE Lost = {}
    <3>1. Below(All, x) = Below(Cut, x)
      BY <1>2, <2>3 DEF Below
    <3> HIDE DEF All, Cut
    <3> QED
      BY <1>1, <2>1, <2>2, <3>1
  <2>4. CASE Lost # {}
    <3>1. Lost \in SUBSET Nat
      BY <1>2
    <3>2. PICK y \in Lost : \A z \in Lost : y <= z
      <4> HIDE DEF Lost
      <4> QED BY <2>4, <3>1, Least
    <3>3. PICK S \in F : y \in S
      BY <3>2
    <3>4. y \in Nat /\ y < x /\ y \notin TopK(S)
      BY <1>2, <3>2, <3>3
    <3>5. Below(S, y) \subseteq Below(Cut, x)
      <4> SUFFICES ASSUME NEW z \in S, z < y PROVE z \in Cut /\ z < x
        BY DEF Below
      <4>1. z \in Nat /\ z \in All /\ z \notin Lost
        BY <1>2, <3>2, <3>3, <3>4
      <4> QED
        BY <2>2, <3>4, <4>1
    <3>6. S \subseteq Nat
      BY <3>3
    <3> HIDE DEF Cut, All, Lost
    <3>7. /\ Cardinality(Below(S, y)) \in Nat /\ Cardinality(Below(Cut, x)) \in Nat
          /\ Cardinality(Below(S, y)) <= Cardinality(Below(Cut, x))
      BY <2>2, <3>4, <3>5, <3>6, BelowBounds
    <3>8. ~(Cardinality(Below(S, y)) < K)
      BY <1>1, <3>3, <3>4
    <3> QED
      BY <1>2, <2>1, <3>7, <3>8
  <2> QED
    BY <2>3, <2>4
<1> QED
  BY <1>3, <1>4

PartItems(n) == UNION {ItemsOf[p] : p \in Workers(n)}

\* A search without failures, in which no node with items answered an empty list,
\* returns the K best items of the whole dataset, or none: no partition's items are
\* dropped on the way through the two gathers (Search, SearchPartitions).
BestOfDataset ==
    /\ outcome[Driver] = "ok" /\ Failures(Driver) = {}
    /\ \A n \in Queried : answer[n] = {} => PartItems(n) = {}
    => answer[Driver] \in {{}, TopK(AllItems)}

\* What a node answers, in terms of its partitions.
LEMMA NodeAnswer ==
    ASSUME IInv, NEW n \in Queried, outcome[n] = "ok", answer[n] = {} => PartItems(n) = {}
    PROVE  answer[n] = TopK(PartItems(n)) /\ PartItems(n) \subseteq Nat
<1>1. n \in Gathers /\ n # Driver
  BY SearchAssumption DEF Gathers, Queried
<1>2. Workers(n) \subseteq Partitions /\ Failures(n) = {}
  BY <1>1, WorkersOf DEF IInv, Local, Channels
<1>3. \A p \in Workers(n) : ItemsOf[p] \subseteq Nat
  BY <1>2, SearchAssumption
<1>4. answer[n] = {} \/ answer[n] = TopK(ItemsFrom(Workers(n)))
  <2>1. Done(n) = Workers(n)
    BY <1>1, <1>2, EndedOk
  <2> QED
    BY <1>1, <2>1 DEF IInv, Local, Returned
<1>5. TopK(ItemsFrom(Workers(n))) = TopK(PartItems(n))
  <2> DEFINE F == {ItemsOf[p] : p \in Workers(n)}
  <2>1. ItemsFrom(Workers(n)) = UNION {TopK(S) : S \in F}
    BY <1>2 DEF ItemsFrom, WorkerItems
  <2>2. PartItems(n) = UNION F
    BY DEF PartItems
  <2>3. \A S \in F : S \subseteq Nat
    BY <1>3
  <2> HIDE DEF F
  <2> QED
    BY <2>1, <2>2, <2>3, MergeKeepsBest
<1>6. PartItems(n) = {} => TopK(PartItems(n)) = {}
  BY TopKSubset
<1> QED
  BY <1>3, <1>4, <1>5, <1>6 DEF PartItems

\* A search that meets no failure and no empty answer of a node with items returns the K
\* best of the dataset, or none: merging what the nodes merged loses no item (Search).
THEOREM BestOfDatasetCorrect == Spec => []BestOfDataset
<1>1. IInv => BestOfDataset
  <2> SUFFICES ASSUME IInv, outcome[Driver] = "ok", Failures(Driver) = {},
                      \A n \in Queried : answer[n] = {} => PartItems(n) = {}
               PROVE  answer[Driver] \in {{}, TopK(AllItems)}
    BY DEF BestOfDataset
  <2>1. Driver \in Gathers /\ Workers(Driver) = Queried /\ Queried \cap Partitions = {}
    BY WorkersOf, SearchAssumption DEF Gathers, Queried
  <2>2. Done(Driver) = Queried
    BY <2>1, EndedOk
  <2>3. \A n \in Queried : answer[n] = TopK(PartItems(n)) /\ PartItems(n) \subseteq Nat
    BY <2>2, NodeAnswer DEF IInv, Answered, Done
  <2>4. answer[Driver] = {} \/ answer[Driver] = TopK(ItemsFrom(Queried))
    BY <2>1, <2>2 DEF IInv, Local, Returned
  <2>5. TopK(ItemsFrom(Queried)) = TopK(AllItems)
    <3> DEFINE F == {PartItems(n) : n \in Queried}
    <3>1. ItemsFrom(Queried) = UNION {TopK(S) : S \in F}
      BY <2>1, <2>3 DEF ItemsFrom, WorkerItems
    <3>2. AllItems = UNION F
      <4>1. \A p \in Partitions : Owner[p] \in Queried /\ p \in Workers(Owner[p])
        BY SearchAssumption DEF Workers, Queried
      <4>2. \A n \in Queried : Workers(n) \subseteq Partitions
        BY SearchAssumption DEF Workers, Queried
      <4> QED
        BY <4>1, <4>2 DEF AllItems, PartItems
    <3>3. \A S \in F : S \subseteq Nat
      BY <2>3
    <3> HIDE DEF F
    <3> QED
      BY <3>1, <3>2, <3>3, MergeKeepsBest
  <2> QED
    BY <2>4, <2>5
<1> QED
  BY <1>1, InvariantSpec, PTL
=============================================================================
