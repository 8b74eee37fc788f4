---------------------------- MODULE DatasetSearch ----------------------------
(***************************************************************************)
(* A search over a dataset: Search, SearchPartitions and the goroutines    *)
(* they start (storage/dataset.go), with the stream between them           *)
(* (services/search.go).  The driver node asks one node per partition;     *)
(* each of those nodes searches its partitions; both gather answers in the *)
(* same way, from two buffered channels that are closed when every worker  *)
(* is done.  A gather is the driver's or a node's; all state is per gather.*)
(*                                                                         *)
(* A partition answers with its own k best items (what the index finds is  *)
(* not part of this module); an item is its score, the lower the better.   *)
(***************************************************************************)
EXTENDS Naturals, FiniteSets

CONSTANTS
    Nodes, Driver, Partitions,
    Owner,      \* the node sampled for each partition (getSearchQueryNodes)
    ItemsOf,    \* the items of each partition
    K           \* how many items are asked for

ASSUME SearchAssumption ==
    /\ IsFiniteSet(Nodes) /\ IsFiniteSet(Partitions)
    /\ Driver \notin Nodes /\ Nodes \cap Partitions = {}
    /\ Owner \in [Partitions -> Nodes]
    /\ \A p \in Partitions : ItemsOf[p] \subseteq Nat /\ IsFiniteSet(ItemsOf[p])
    /\ K \in Nat

Queried == {Owner[p] : p \in Partitions}
Gathers == {Driver} \cup Queried

\* The workers of a gather: one goroutine per queried node, or per partition.
Workers(g) == IF g = Driver THEN Queried ELSE {p \in Partitions : Owner[p] = g}

VARIABLES
    phase,      \* per gather: "waiting" for its request, "collecting", "returned"
    worker,     \* per worker: "unborn", "running", "done" or "failed" (done, with an error)
    resultCh,   \* per gather: the workers whose items are in the channel
    errorCh,    \* per gather: the workers whose error is in the channel
    closed,     \* per gather: how many of the two channels are closed
    received,   \* per gather: how many receives the loop has counted
    answer,     \* per gather: the items collected, then those returned
    outcome,    \* per gather: "none", "ok" or "error"
    cancelled   \* per gather: its context is done

vars == <<phase, worker, resultCh, errorCh, closed, received, answer, outcome, cancelled>>

AllItems == UNION {ItemsOf[p] : p \in Partitions}

\* The K best of a set of items: sort.Sort, then the first K.
TopK(S) == {x \in S : Cardinality({y \in S : y < x}) < K}

\* What a worker answers with when it succeeds.
WorkerItems(w) == IF w \in Partitions THEN TopK(ItemsOf[w]) ELSE answer[w]

TypeOK ==
    /\ phase \in [Gathers -> {"waiting", "collecting", "returned"}]
    /\ worker \in [Queried \cup Partitions -> {"unborn", "running", "done", "failed"}]
    /\ \A g \in Gathers : resultCh[g] \subseteq Workers(g) /\ errorCh[g] \subseteq Workers(g)
    /\ closed \in [Gathers -> 0..2]
    /\ \A g \in Gathers : received[g] \in 0..Cardinality(Workers(g))
    /\ answer \in [Gathers -> SUBSET AllItems]
    /\ outcome \in [Gathers -> {"none", "ok", "error"}]
    /\ cancelled \in [Gathers -> BOOLEAN]

Init ==
    /\ phase = [g \in Gathers |-> "waiting"]
    /\ worker = [w \in Queried \cup Partitions |-> "unborn"]
    /\ resultCh = [g \in Gathers |-> {}]
    /\ errorCh = [g \in Gathers |-> {}]
    /\ closed = [g \in Gathers |-> 0]
    /\ received = [g \in Gathers |-> 0]
    /\ answer = [g \in Gathers |-> {}]
    /\ outcome = [g \in Gathers |-> "none"]
    /\ cancelled = [g \in Gathers |-> FALSE]

-----------------------------------------------------------------------------
\* The request arrives (at a node: its worker at the driver sent it) and the
\* workers are started.
Start(g) ==
    /\ phase[g] = "waiting"
    /\ g # Driver => worker[g] = "running"
    /\ phase' = [phase EXCEPT ![g] = "collecting"]
    /\ worker' = [w \in DOMAIN worker |-> IF w \in Workers(g) THEN "running" ELSE worker[w]]
    /\ UNCHANGED <<resultCh, errorCh, closed, received, answer, outcome, cancelled>>

\* A worker sends its items.  A worker of the driver has them when the node's
\* stream has ended well.
Succeed(g, w) ==
    /\ w \in Workers(g) /\ worker[w] = "running"
    /\ g = Driver => phase[w] = "returned" /\ outcome[w] = "ok"
    /\ worker' = [worker EXCEPT ![w] = "done"]
    /\ resultCh' = [resultCh EXCEPT ![g] = @ \cup {w}]
    /\ UNCHANGED <<phase, errorCh, closed, received, answer, outcome, cancelled>>

\* A worker of the driver sends an error: the node cannot be dialled, fails,
\* answers with an error, or the stream's context is done.
Break(w) ==
    /\ w \in Workers(Driver) /\ worker[w] = "running"
    /\ worker' = [worker EXCEPT ![w] = "failed"]
    /\ errorCh' = [errorCh EXCEPT ![Driver] = @ \cup {w}]
    /\ UNCHANGED <<phase, resultCh, closed, received, answer, outcome, cancelled>>

\* Mutants: the channels are closed as soon as some worker is done, and only when
\* no worker has failed.
CloseEarly(g) ==
    /\ phase[g] # "waiting" /\ closed[g] < 2
    /\ \E w \in Workers(g) : worker[w] \in {"done", "failed"}
    /\ closed' = [closed EXCEPT ![g] = @ + 1]
    /\ UNCHANGED <<phase, worker, resultCh, errorCh, received, answer, outcome, cancelled>>
CloseUnlessFailed(g) ==
    /\ phase[g] # "waiting" /\ closed[g] < 2
    /\ \A w \in Workers(g) : worker[w] = "done"
    /\ closed' = [closed EXCEPT ![g] = @ + 1]
    /\ UNCHANGED <<phase, worker, resultCh, errorCh, received, answer, outcome, cancelled>>

\* Every worker is done: the two channels are closed, one after the other.
Close(g) ==
    /\ phase[g] # "waiting"
    /\ \A w \in Workers(g) : worker[w] \in {"done", "failed"}
    /\ closed[g] < 2
    /\ closed' = [closed EXCEPT ![g] = @ + 1]
    /\ UNCHANGED <<phase, worker, resultCh, errorCh, received, answer, outcome, cancelled>>

-----------------------------------------------------------------------------
(* The collecting loop: one receive per worker, from whichever channel is  *)
(* ready.  A closed channel is always ready, and gives nil.                *)

Collecting(g) == phase[g] = "collecting" /\ received[g] < Cardinality(Workers(g))

Return(g, how, items) ==
    /\ phase' = [phase EXCEPT ![g] = "returned"]
    /\ outcome' = [outcome EXCEPT ![g] = how]
    /\ answer' = [answer EXCEPT ![g] = items]
    \* defer cancelCtx(): the streams to the queried nodes end
    /\ cancelled' = [h \in Gathers |-> cancelled[h] \/ h = g \/ (g = Driver /\ h \in Queried)]

ReceiveItems(g) ==
    /\ Collecting(g)
    /\ \E w \in resultCh[g] :
         /\ resultCh' = [resultCh EXCEPT ![g] = @ \ {w}]
         /\ answer' = [answer EXCEPT ![g] = @ \cup WorkerItems(w)]
    /\ received' = [received EXCEPT ![g] = @ + 1]
    /\ UNCHANGED <<phase, worker, errorCh, closed, outcome, cancelled>>

ReceiveClosedResult(g) ==
    /\ Collecting(g) /\ resultCh[g] = {} /\ closed[g] >= 1
    /\ received' = [received EXCEPT ![g] = @ + 1]
    /\ UNCHANGED <<phase, worker, resultCh, errorCh, closed, answer, outcome, cancelled>>

\* Mutant: an error counts as an answer.
ReceiveErrorAndGoOn(g) ==
    /\ Collecting(g)
    /\ \E w \in errorCh[g] : errorCh' = [errorCh EXCEPT ![g] = @ \ {w}]
    /\ received' = [received EXCEPT ![g] = @ + 1]
    /\ UNCHANGED <<phase, worker, resultCh, closed, answer, outcome, cancelled>>

ReceiveError(g) ==
    /\ Collecting(g) /\ errorCh[g] # {}
    /\ Return(g, "error", {})
    /\ UNCHANGED <<worker, resultCh, errorCh, closed, received>>

\* The nil of the closed error channel is returned like an error: the caller
\* sees no error, and no items.
ReceiveClosedError(g) ==
    /\ Collecting(g) /\ errorCh[g] = {} /\ closed[g] = 2
    /\ Return(g, "ok", {})
    /\ UNCHANGED <<worker, resultCh, errorCh, closed, received>>

ReceiveDone(g) ==
    /\ Collecting(g) /\ cancelled[g]
    /\ Return(g, "error", {})
    /\ UNCHANGED <<worker, resultCh, errorCh, closed, received>>

\* Mutant: an empty answer is not returned.
FinishNonEmpty(g) ==
    /\ phase[g] = "collecting" /\ received[g] = Cardinality(Workers(g))
    /\ answer[g] # {}
    /\ Return(g, "ok", TopK(answer[g]))
    /\ UNCHANGED <<worker, resultCh, errorCh, closed, received>>

\* The loop is over: the items are sorted and cut to K.
Finish(g) ==
    /\ phase[g] = "collecting" /\ received[g] = Cardinality(Workers(g))
    /\ Return(g, "ok", TopK(answer[g]))
    /\ UNCHANGED <<worker, resultCh, errorCh, closed, received>>

\* The client gives up.
Cancel ==
    /\ ~cancelled[Driver]
    /\ cancelled' = [cancelled EXCEPT ![Driver] = TRUE]
    /\ UNCHANGED <<phase, worker, resultCh, errorCh, closed, received, answer, outcome>>

Next ==
    \/ \E g \in Gathers :
         \/ Start(g) \/ Close(g)
         \/ \E w \in Workers(g) : Succeed(g, w)
         \/ ReceiveItems(g) \/ ReceiveClosedResult(g)
         \/ ReceiveError(g) \/ ReceiveClosedError(g) \/ ReceiveDone(g)
         \/ Finish(g)
    \/ \E n \in Queried : Break(n)
    \/ Cancel

Spec == Init /\ [][Next]_vars

\* Goroutines run on; an RPC that got no answer ends with an error.
Fairness ==
    /\ \A g \in Gathers :
         /\ WF_vars(Start(g)) /\ WF_vars(Close(g))
         /\ \A w \in Workers(g) : WF_vars(Succeed(g, w))
         /\ WF_vars(ReceiveItems(g) \/ ReceiveClosedResult(g) \/ ReceiveError(g)
                    \/ ReceiveClosedError(g) \/ ReceiveDone(g) \/ Finish(g))
    /\ \A n \in Queried : WF_vars(outcome[n] = "error" /\ Break(n))

FairSpec == Spec /\ Fairness

-----------------------------------------------------------------------------
(* Properties. *)

Failures(g) == {w \in Workers(g) : worker[w] = "failed"}

\* A search that returns without an error returns the best items of the whole
\* dataset: the driver "re-aggregates responses from all partitions" (README).
SearchComplete == outcome[Driver] = "ok" => answer[Driver] = TopK(AllItems)

\* As long as no worker fails, a gather that returns without an error has the
\* best of what all its workers found, or nothing at all: it never returns
\* before a worker it is still waiting for, whatever the order in which results
\* arrive and channels are closed (Search, SearchPartitions).
AllOrNothing ==
    \A g \in Gathers :
        outcome[g] = "ok" /\ Failures(g) = {} =>
            \/ answer[g] = {}
            \/ answer[g] = TopK(UNION {WorkerItems(w) : w \in Workers(g)})

\* The state's types, and what a search without failures answers (Search).
GatherInvariant == TypeOK /\ AllOrNothing

\* A gather that returns without an error although a worker failed has lost
\* that error in the race with the closed result channel: every worker has
\* ended, and its items are those of the workers that succeeded.
ErrorLostOnlyAtClose ==
    \A g \in Gathers :
        outcome[g] = "ok" /\ Failures(g) # {} =>
            /\ closed[g] >= 1
            /\ answer[g] = TopK(UNION {WorkerItems(w) : w \in Workers(g) \ Failures(g)})

\* A search that started returns: the collecting loop of Search always finds
\* something to receive, although an error or a closed channel may use up a round.
SearchReturns == phase[Driver] = "collecting" ~> phase[Driver] = "returned"

\* All the goroutines of a gather end and its channels are closed, although Search
\* and SearchPartitions return at the first error: no worker is ever blocked on a
\* channel nobody reads (the channels have room for every worker).
NoGoroutineLeft ==
    \A g \in Gathers : phase[g] = "collecting" ~> closed[g] = 2
=============================================================================
