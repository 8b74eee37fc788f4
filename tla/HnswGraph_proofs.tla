--------------------------- MODULE HnswGraph_proofs ---------------------------
(***************************************************************************)
(* Proof, for every set of vertices, that the graph of the index is well   *)
(* formed at every step of a change (GraphOK of HnswGraph), that a search  *)
(* sees of what had been removed its entrypoint at most                    *)
(* (OnlyEntrypointStale) and, undisturbed and with a beam for all, finds   *)
(* the nearest (SearchExact), and what a snapshot keeps                    *)
(* (ReloadKeepsReach).                                                     *)
(***************************************************************************)
EXTENDS HnswGraph, FiniteSetTheorems, WellFoundedInduction, TLAPS

-----------------------------------------------------------------------------
(* The inductive invariant. *)

\* The vertices that were stored since the process started.
Known == stored \cup deleted

\* A vertex that was never stored has no edges.
NewHaveNone == \A v \in Vertices \ Known : edges[v] = NoEdges

\* No edge at level l, from v or to it.
NotLinked(v, l) == edges[v][l] = {} /\ \A x \in Vertices : v \notin edges[x][l]

ScanOK(sc) == sc.res # {} /\ sc.res \subseteq sc.seen /\ sc.todo \subseteq sc.seen

\* The vertex that is inserted is not linked below the level that is linked, is not found
\* by the scan for its neighbours, and gets at most M of them.
ChangeInv ==
    /\ w # Idle => w.v \in Known
    /\ w.op = "greedy" => w.at \in Known \ {w.v} /\ \A l \in Levels : NotLinked(w.v, l)
    /\ w.op = "scan" => /\ ScanOK(w.sc) /\ w.sc.seen \subseteq Known \ {w.v}
                        /\ \A l \in Levels : l <= w.l => NotLinked(w.v, l)
    /\ w.op = "out" => w.left # {}
    /\ w.op \in {"out", "back", "prune"} =>
          /\ w.left \subseteq Known \ {w.v}
          /\ Cardinality(w.left) + Cardinality(edges[w.v][w.l]) <= M
          /\ \A l \in Levels : l < w.l => NotLinked(w.v, l)
    /\ w.op \in {"back", "prune"} => w.n \in Known \ {w.v}

\* Of what had been deleted before a search began, it sees its entrypoint only.
SearchInv(r) ==
    /\ r.pc \in {"greedy", "scan"} => r.gone \subseteq deleted
    /\ r.pc = "greedy" => r.at \in Known /\ (r.at \in r.gone => r.at = r.first)
    /\ r.pc = "scan" => /\ ScanOK(r.sc) /\ r.sc.seen \subseteq Known
                        /\ r.sc.seen \cap r.gone \subseteq {r.first}
    /\ r.pc = "done" => r.result \cap r.gone \subseteq {r.first}

IInv ==
    /\ GraphOK /\ NewHaveNone /\ ChangeInv
    /\ search = [s \in Searches |-> search[s]]
    /\ \A s \in Searches : SearchInv(search[s])

\* The same by what it is about: the graph, the change under way, and a search.
EdgesHeld == \A v \in Vertices, l \in Levels : \A n \in edges[v][l] : l <= level[v] /\ l <= level[n]

GraphInv ==
    /\ stored \subseteq Vertices /\ deleted \subseteq Vertices
    /\ level \in [Vertices -> Levels]
    /\ edges \in [Vertices -> [Levels -> SUBSET Vertices]]
    /\ entry \in Vertices \cup {None} /\ ops \in 0..MaxOps
    /\ EdgesHeld /\ NoSelfEdge /\ NoDangling /\ NewHaveNone

ChangeHeld ==
    /\ w.op = "greedy" => w.l <= level[w.at]
    /\ w.op = "scan" => \A x \in w.sc.seen \cup {w.v} : w.l <= level[x]
    /\ w.op \in {"out", "back", "prune"} => \A x \in w.left \cup {w.v} : w.l <= level[x]
    /\ w.op \in {"back", "prune"} => w.l <= level[w.n]

ChangeAll == ChangeOK /\ ChangeHeld /\ ChangeInv /\ DegreesBounded

SearchAll(r) == SearchOK(r) /\ SearchInv(r) /\ (r.pc = "greedy" => r.l <= level[r.at])

SearchesInv ==
    /\ search = [s \in Searches |-> search[s]]
    /\ \A s \in Searches : SearchAll(search[s])

-----------------------------------------------------------------------------
(* Distances, and the vertices that are closest to a point. *)

Points == {Query} \cup {Position[v] : v \in Vertices}

LEMMA PositionIsPoint == \A v \in Vertices : Position[v] \in Points
  BY DEF Points

\* From a point, the vertices are in a strict total order.
LEMMA CloserOrder ==
    ASSUME NEW q \in Points
    PROVE  /\ \A u, v \in Vertices : u # v => Closer(q, u, v) \/ Closer(q, v, u)
           /\ \A u, v \in Vertices : Closer(q, u, v) => ~Closer(q, v, u)
           /\ \A u, v, x \in Vertices : Closer(q, u, v) /\ Closer(q, v, x) => Closer(q, u, x)
           /\ \A u \in Vertices : ~Closer(q, u, u)
<1>1. q \in Int /\ \A v \in Vertices : Position[v] \in Int
  BY HnswAssumption DEF Points
<1>2. \A v \in Vertices : Dist(q, Position[v]) \in Int
  BY <1>1 DEF Dist
<1>3. \A u, v \in Vertices : u # v => Dist(q, Position[u]) # Dist(q, Position[v])
  BY NoTies DEF Points
<1> HIDE DEF Dist
<1> QED
  BY <1>2, <1>3 DEF Closer

LessThan == {r \in Nat \X Nat : r[1] < r[2]}

\* A set of naturals has a least element.
LEMMA Least ==
    ASSUME NEW T \in SUBSET Nat, T # {}
    PROVE  \E x \in T : \A y \in T : x <= y
<1>1. LessThan = OpToRel(<, Nat)
  BY DEF LessThan, OpToRel
<1>2. PICK x \in T : \A y \in T : <<y, x>> \notin LessThan
  BY <1>1, NatLessThanWellFounded, WFMin
<1>3. ASSUME NEW y \in T PROVE x <= y
  <2>1. <<y, x>> \in Nat \X Nat /\ <<y, x>>[1] = y /\ <<y, x>>[2] = x
    OBVIOUS
  <2>2. ~(y < x)
    BY <1>2, <2>1 DEF LessThan
  <2> QED
    BY <2>2
<1> QED
  BY <1>3

LEMMA FiniteVertices ==
    ASSUME NEW S \in SUBSET Vertices
    PROVE  IsFiniteSet(S) /\ Cardinality(S) \in Nat /\ (S # {} => Cardinality(S) > 0)
  BY HnswAssumption, FS_Subset, FS_CardinalityType, FS_EmptySet

\* A proper subset is smaller.
LEMMA Smaller ==
    ASSUME NEW S \in SUBSET Vertices, NEW T \in SUBSET S, T # S
    PROVE  Cardinality(T) < Cardinality(S)
  BY FiniteVertices, FS_Subset

\* The closest of some vertices is one of them, and no other is as close.
LEMMA ClosestOf ==
    ASSUME NEW q \in Points, NEW S \in SUBSET Vertices, S # {}
    PROVE  Closest(S, q) \in S /\ \A u \in S \ {Closest(S, q)} : Closer(q, Closest(S, q), u)
<1> DEFINE C(v) == {u \in S : Closer(q, u, v)}
           T == {Cardinality(C(v)) : v \in S}
<1>1. T \in SUBSET Nat /\ T # {}
  BY FiniteVertices
<1>2. PICK x \in T : \A y \in T : x <= y
  BY <1>1, Least
<1>3. PICK v \in S : x = Cardinality(C(v))
  BY <1>2
<1>4. ASSUME NEW u \in S \ {v} PROVE Closer(q, v, u)
  <2> SUFFICES ASSUME Closer(q, u, v) PROVE FALSE
    BY <1>4, CloserOrder
  <2>1. C(u) \in SUBSET C(v) /\ u \in C(v) /\ u \notin C(u) /\ C(v) \in SUBSET Vertices
    BY <1>4, CloserOrder
  <2>2. Cardinality(C(u)) < Cardinality(C(v))
    BY <2>1, Smaller
  <2>3. Cardinality(C(v)) <= Cardinality(C(u))
    BY <1>2, <1>3, <1>4
  <2>4. Cardinality(C(u)) \in Nat /\ Cardinality(C(v)) \in Nat
    BY FiniteVertices
  <2> HIDE DEF C
  <2> QED
    BY <2>2, <2>3, <2>4
<1> HIDE DEF C, T
<1> QED
  BY <1>4 DEF Closest

\* The farthest likewise.
LEMMA FarthestOf ==
    ASSUME NEW q \in Points, NEW S \in SUBSET Vertices, S # {}
    PROVE  Farthest(S, q) \in S /\ \A u \in S \ {Farthest(S, q)} : Closer(q, u, Farthest(S, q))
<1> DEFINE C(v) == {u \in S : Closer(q, v, u)}
           T == {Cardinality(C(v)) : v \in S}
<1>1. T \in SUBSET Nat /\ T # {}
  BY FiniteVertices
<1>2. PICK x \in T : \A y \in T : x <= y
  BY <1>1, Least
<1>3. PICK v \in S : x = Cardinality(C(v))
  BY <1>2
<1>4. ASSUME NEW u \in S \ {v} PROVE Closer(q, u, v)
  <2> SUFFICES ASSUME Closer(q, v, u) PROVE FALSE
    BY <1>4, CloserOrder
  <2>1. C(u) \in SUBSET C(v) /\ u \in C(v) /\ u \notin C(u) /\ C(v) \in SUBSET Vertices
    BY <1>4, CloserOrder
  <2>2. Cardinality(C(u)) < Cardinality(C(v))
    BY <2>1, Smaller
  <2>3. Cardinality(C(v)) <= Cardinality(C(u))
    BY <1>2, <1>3, <1>4
  <2>4. Cardinality(C(u)) \in Nat /\ Cardinality(C(v)) \in Nat
    BY FiniteVertices
  <2> HIDE DEF C
  <2> QED
    BY <2>2, <2>3, <2>4
<1> HIDE DEF C, T
<1> QED
  BY <1>4 DEF Farthest

\* The k closest of some vertices: k of them at most, and one at least.
LEMMA NearestOf ==
    ASSUME NEW q \in Points, NEW S \in SUBSET Vertices, NEW k \in Nat \ {0}
    PROVE  /\ Nearest(k, S, q) \subseteq S
           /\ Cardinality(Nearest(k, S, q)) \in Nat /\ Cardinality(Nearest(k, S, q)) <= k
           /\ S # {} => Nearest(k, S, q) # {}
<1> DEFINE N == Nearest(k, S, q)
<1>1. N \in SUBSET S /\ N \in SUBSET Vertices /\ Cardinality(N) \in Nat
  <2>1. N \subseteq S
    BY DEF Nearest
  <2> QED
    BY <2>1, FiniteVertices
<1>2. N # {} => Cardinality(N) <= k
  <2> SUFFICES ASSUME N # {} PROVE Cardinality(N) <= k
    OBVIOUS
  <2> DEFINE v == Farthest(N, q)
             C == {u \in S : Closer(q, u, v)}
  <2>1. v \in N /\ \A u \in N \ {v} : Closer(q, u, v)
    BY <1>1, FarthestOf
  <2>2. Cardinality(C) < k
    BY <2>1 DEF Nearest
  <2>3. N \ {v} \in SUBSET C /\ C \in SUBSET Vertices
    <3> HIDE DEF v
    <3> QED
      BY <1>1, <2>1
  <2>4. Cardinality(N \ {v}) <= Cardinality(C) /\ Cardinality(C) \in Nat
    BY <2>3, FiniteVertices, FS_Subset
  <2>5. Cardinality(N \ {v}) = Cardinality(N) - 1
    BY <1>1, <2>1, FiniteVertices, FS_RemoveElement
  <2> HIDE DEF N, v, C
  <2> QED
    BY <1>1, <2>2, <2>4, <2>5
<1>3. N = {} => Cardinality(N) <= k
  BY FS_EmptySet
<1>4. S # {} => N # {}
  <2> SUFFICES ASSUME S # {} PROVE Closest(S, q) \in N
    OBVIOUS
  <2>1. /\ Closest(S, q) \in S
        /\ \A u \in S : ~Closer(q, u, Closest(S, q))
    BY ClosestOf, CloserOrder
  <2>2. {u \in S : Closer(q, u, Closest(S, q))} = {}
    BY <2>1
  <2>3. Cardinality({u \in S : Closer(q, u, Closest(S, q))}) = 0
    BY <2>2, FS_EmptySet
  <2> QED
    BY <2>1, <2>3 DEF Nearest
<1> QED
  BY <1>1, <1>2, <1>3, <1>4

-----------------------------------------------------------------------------
(* Parts of the invariant, and what leaves them as they are. *)

LEMMA Parts == IInv <=> GraphInv /\ ChangeAll /\ SearchesInv
  BY DEF IInv, GraphOK, TypeOK, LevelsHeld, GraphInv, EdgesHeld, ChangeAll, ChangeHeld,
         SearchesInv, SearchAll

\* The levels, as numbers.
LEMMA LevelFacts ==
    /\ Levels \subseteq Nat /\ 0 \in Levels /\ \A l \in Levels : 0..l \subseteq Levels
    /\ M \in Nat \ {0} /\ \A l \in Levels : MMaxAt(l) \in Nat \ {0} /\ M <= MMaxAt(l)
  BY HnswAssumption DEF MMaxAt

LEMMA SameGraph ==
    ASSUME GraphInv, UNCHANGED <<stored, deleted, level, edges>>,
           entry' \in Known \cup {None}, ops' \in 0..MaxOps, UNCHANGED NoEdges
    PROVE  GraphInv'
<1>1. Known' = Known
  BY DEF Known
<1>2. entry' \in Vertices \cup {None}
  BY DEF Known, GraphInv
<1>3. EdgesHeld' /\ NoSelfEdge' /\ NewHaveNone'
  BY <1>1 DEF GraphInv, EdgesHeld, NoSelfEdge, NewHaveNone
<1>4. NoDangling'
  BY <1>2, HnswAssumption DEF GraphInv, NoDangling, Known
<1> QED
  BY <1>2, <1>3, <1>4 DEF GraphInv

\* Searches that take no step: more is deleted, and levels of known vertices stay.
LEMMA SameSearches ==
    ASSUME SearchesInv, search' = search, deleted \subseteq deleted', Known \subseteq Known',
           \A v \in Known : level'[v] = level[v]
    PROVE  SearchesInv'
<1>1. ASSUME NEW s \in Searches PROVE SearchAll(search[s])'
  BY <1>1 DEF SearchesInv, SearchAll, SearchOK, SearchInv
<1> QED
  BY <1>1 DEF SearchesInv

\* The change under way, when no step of it is taken.
LEMMA SameChange ==
    ASSUME ChangeAll, w' = w, UNCHANGED graph
    PROVE  ChangeAll'
<1>1. Known' = Known /\ \A v, l : NotLinked(v, l)' = NotLinked(v, l)
  BY DEF Known, NotLinked, graph
<1> QED
  BY <1>1 DEF graph, ChangeAll, ChangeOK, ChangeHeld, ChangeInv, DegreesBounded

\* A change that has come to an end, or links nothing.
LEMMA NoLinks ==
    ASSUME w' = Idle \/ w' \in [op : {"finish", "entry", "unlink"}, v : Vertices],
           w' # Idle => w'.v \in Known',
           \A v \in Vertices, l \in Levels : Cardinality(edges'[v][l]) <= MMaxAt(l)
    PROVE  ChangeAll'
<1>1. w'.op \in {"idle", "finish", "entry", "unlink"}
  BY DEF Idle
<1> QED
  BY <1>1 DEF ChangeAll, ChangeOK, ChangeHeld, ChangeInv, DegreesBounded

-----------------------------------------------------------------------------
(* The scan. *)

\* A round of a scan finds neighbours that are not deleted.
LEMMA RoundFinds ==
    ASSUME GraphInv, NEW q \in Points, NEW l \in Levels, NEW ef \in Nat \ {0},
           NEW sc \in Scans, ScanOK(sc), ~Scanned(sc, q),
           NEW r \in ScanRound(sc, q, l, ef)
    PROVE  /\ r \in Scans /\ ScanOK(r)
           /\ \E c \in sc.seen : r.seen \subseteq sc.seen \cup LiveNeighbours(c, l)
<1> DEFINE c == Closest(sc.todo, q)
           fresh == LiveNeighbours(c, l) \ sc.seen
<1>0. sc.res \subseteq Vertices /\ sc.todo \subseteq Vertices /\ sc.seen \subseteq Vertices
  BY DEF Scans
<1>1. c \in sc.todo /\ c \in sc.seen /\ c \in Vertices
  <2>1. sc.todo \in SUBSET Vertices /\ sc.todo # {}
    BY <1>0 DEF Scanned
  <2>2. c \in sc.todo
    BY <2>1, ClosestOf
  <2> QED
    BY <1>0, <2>2 DEF ScanOK
<1>2. fresh \subseteq Vertices
  BY <1>1 DEF GraphInv, LiveNeighbours
<1>3. PICK T \in SUBSET fresh :
          r = [res |-> Nearest(ef, sc.res \cup T, q), todo |-> (sc.todo \ {c}) \cup T,
               seen |-> sc.seen \cup fresh]
  <2>1. PICK F \in SUBSET fresh :
           LET Taken == F \cup {n \in fresh : Closer(q, n, Farthest(sc.res, q))}
           IN  r = [res |-> Nearest(ef, sc.res \cup Taken, q),
                    todo |-> (sc.todo \ {c}) \cup Taken, seen |-> sc.seen \cup fresh]
    BY DEF ScanRound
  <2> HIDE DEF c, fresh
  <2> QED
    BY <2>1
<1>4. sc.res \cup T \in SUBSET Vertices /\ sc.res \cup T # {}
  BY <1>0, <1>2 DEF ScanOK
<1>5. /\ Nearest(ef, sc.res \cup T, q) \subseteq sc.res \cup T
      /\ Nearest(ef, sc.res \cup T, q) # {}
  BY <1>4, NearestOf
<1>6. fresh \subseteq LiveNeighbours(c, l)
  OBVIOUS
<1> HIDE DEF c, fresh
<1>7. r \in Scans /\ ScanOK(r)
  BY <1>0, <1>2, <1>3, <1>4, <1>5 DEF Scans, ScanOK
<1>8. r.seen \subseteq sc.seen \cup LiveNeighbours(c, l)
  BY <1>3, <1>6
<1> QED
  BY <1>1, <1>7, <1>8

-----------------------------------------------------------------------------
(* Steps of a search. *)

LEMMA GoesKept ==
    ASSUME IInv, NEW s \in Searches, NEW r, Goes(s, r), SearchAll(r)
    PROVE  IInv'
<1>0. GraphInv /\ ChangeAll /\ SearchesInv
  BY Parts
<1>1. /\ UNCHANGED <<stored, deleted, level, edges, entry, w, ops>>
      /\ search' = [search EXCEPT ![s] = r]
  BY DEF Goes, graph
<1>2. GraphInv'
  <2>1. entry' \in Known \cup {None} /\ ops' \in 0..MaxOps
    BY <1>0, <1>1 DEF GraphInv, NoDangling, Known
  <2> QED
    BY <1>0, <1>1, <2>1, SameGraph
<1>3. ChangeAll'
  BY <1>0, <1>1, SameChange DEF graph
<1>4. SearchesInv'
  <2>1. \A x \in Searches : SearchAll(IF x = s THEN r ELSE search[x])
    BY <1>0 DEF SearchesInv
  <2>2. \A x \in Searches : search'[x] = IF x = s THEN r ELSE search[x]
    BY <1>0, <1>1 DEF SearchesInv
  <2>3. search' = [x \in Searches |-> search'[x]]
    BY <1>0, <1>1 DEF SearchesInv
  <2>4. ASSUME NEW x \in Searches PROVE SearchAll(search[x])'
    <3>1. SearchAll(search'[x])
      BY <2>1, <2>2
    <3> QED
      BY <1>1, <3>1 DEF SearchAll, SearchOK, SearchInv, Known
  <2> QED
    BY <2>3, <2>4 DEF SearchesInv
<1> QED
  BY <1>2, <1>3, <1>4, Parts, PTL

LEMMA QueryIsPoint == Query \in Points
  BY DEF Points

LEMMA SearchStepKept ==
    ASSUME IInv, NEW s \in Searches, SearchStep(s)
    PROVE  IInv'
<1>0. GraphInv /\ ChangeAll /\ SearchesInv /\ SearchAll(search[s])
  BY Parts DEF SearchesInv
<1> DEFINE r == search[s]
<1>1. CASE StartSearch(s)
  <2> DEFINE calm == IF w = Idle THEN ops ELSE 0 - 1
             none == [pc |-> "done", gone |-> deleted, first |-> None, from |-> None,
                      calm |-> calm, result |-> {}]
             some == [pc |-> "greedy", gone |-> deleted, first |-> entry, at |-> entry,
                      l |-> level[entry], calm |-> calm]
  <2>1. calm \in Int
    BY <1>0, HnswAssumption DEF GraphInv
  <2> HIDE DEF calm
  <2>2. SearchAll(none)
    BY <1>0, <2>1 DEF SearchAll, SearchOK, SearchInv, GraphInv
  <2>3. entry # None => SearchAll(some)
    <3> SUFFICES ASSUME entry # None PROVE SearchAll(some)
      OBVIOUS
    <3>1. entry \in Vertices /\ entry \in Known /\ level[entry] \in Levels /\ deleted \subseteq Vertices
      BY <1>0 DEF GraphInv, NoDangling, Known
    <3>2. level[entry] \in Nat
      BY <3>1, LevelFacts
    <3> QED
      BY <2>1, <3>1, <3>2 DEF SearchAll, SearchOK, SearchInv
  <2>4. entry = None => Goes(s, none)
    BY <1>1 DEF StartSearch, calm
  <2>5. entry # None => Goes(s, some)
    BY <1>1 DEF StartSearch, calm
  <2> HIDE DEF none, some
  <2> QED
    BY <2>2, <2>3, <2>4, <2>5, GoesKept
<1>2. CASE SearchGreedy(s)
  <2> DEFINE next == CloserNeighbours(Query, r.at, r.l)
  <2>1. /\ r.pc = "greedy"
        /\ r \in [pc : {"greedy"}, gone : SUBSET Vertices, first : Vertices, at : Vertices,
                  l : Levels, calm : Int]
        /\ r.at \in Known /\ (r.at \in r.gone => r.at = r.first) /\ r.gone \subseteq deleted
        /\ r.l <= level[r.at]
    BY <1>0, <1>2 DEF SearchGreedy, SearchAll, SearchOK, SearchInv, NotStarted
  <2>2. CASE r.l = 0
    <3> DEFINE t == [pc |-> "scan", gone |-> r.gone, first |-> r.first,
                     from |-> r.at, calm |-> r.calm, sc |-> ScanFrom(r.at)]
    <3>1. Goes(s, t)
      BY <1>2, <2>2 DEF SearchGreedy
    <3>2. ScanFrom(r.at) \in Scans /\ ScanOK(ScanFrom(r.at)) /\ ScanFrom(r.at).seen = {r.at}
      BY <2>1 DEF ScanFrom, Scans, ScanOK
    <3>3. SearchAll(t)
      BY <2>1, <3>2 DEF SearchAll, SearchOK, SearchInv
    <3> HIDE DEF t
    <3> QED
      BY <3>1, <3>3, GoesKept
  <2>3. CASE r.l > 0 /\ next # {}
    <3> DEFINE t == [r EXCEPT !.at = Closest(next, Query)]
    <3>1. Goes(s, t)
      BY <1>2, <2>1, <2>3, LevelFacts DEF SearchGreedy
    <3>2. next \in SUBSET (edges[r.at][r.l] \ deleted) /\ edges[r.at][r.l] \in SUBSET Vertices
      BY <1>0, <2>1 DEF CloserNeighbours, LiveNeighbours, GraphInv
    <3>3. Closest(next, Query) \in next
      BY <2>3, <3>2, QueryIsPoint, ClosestOf
    <3>4. /\ Closest(next, Query) \in edges[r.at][r.l] /\ Closest(next, Query) \notin deleted
          /\ Closest(next, Query) \in Vertices /\ Closest(next, Query) \in Known
          /\ r.l <= level[Closest(next, Query)]
      BY <1>0, <2>1, <3>2, <3>3 DEF GraphInv, EdgesHeld, NoDangling, Known
    <3> HIDE DEF next
    <3>5. SearchAll(t)
      BY <2>1, <3>4 DEF SearchAll, SearchOK, SearchInv
    <3> HIDE DEF t
    <3> QED
      BY <3>1, <3>5, GoesKept
  <2>4. CASE r.l > 0 /\ next = {}
    <3> DEFINE t == [r EXCEPT !.l = r.l - 1]
    <3>1. Goes(s, t)
      BY <1>2, <2>1, <2>4, LevelFacts DEF SearchGreedy
    <3>2. r.l - 1 \in Levels /\ r.l \in Nat /\ level[r.at] \in Nat
      <4>1. r.l \in Levels /\ r.l \in Nat /\ level[r.at] \in Levels
        BY <1>0, <2>1, LevelFacts DEF GraphInv
      <4>2. r.l - 1 \in 0..r.l
        BY <2>4, <4>1
      <4> QED
        BY <4>1, <4>2, LevelFacts
    <3>3. SearchAll(t)
      BY <2>1, <3>2 DEF SearchAll, SearchOK, SearchInv
    <3> HIDE DEF t
    <3> QED
      BY <3>1, <3>3, GoesKept
  <2>5. r.l \in Nat
    BY <2>1, LevelFacts
  <2> QED
    BY <2>2, <2>3, <2>4, <2>5
<1>3. CASE SearchScan(s)
  <2>1. /\ r.pc = "scan"
        /\ r \in [pc : {"scan"}, gone : SUBSET Vertices, first : Vertices, from : Vertices,
                  calm : Int, sc : Scans]
        /\ ScanOK(r.sc) /\ r.sc.seen \subseteq Known /\ r.sc.seen \cap r.gone \subseteq {r.first}
        /\ r.gone \subseteq deleted
    BY <1>0, <1>3 DEF SearchScan, SearchAll, SearchOK, SearchInv, NotStarted
  <2>2. CASE Scanned(r.sc, Query)
    <3> DEFINE t == [pc |-> "done", gone |-> r.gone, first |-> r.first, from |-> r.from,
                     calm |-> r.calm, result |-> Nearest(K, r.sc.res, Query)]
    <3>1. Goes(s, t)
      BY <1>3, <2>2 DEF SearchScan
    <3>2. Nearest(K, r.sc.res, Query) \subseteq r.sc.res
      BY DEF Nearest
    <3>3. /\ Nearest(K, r.sc.res, Query) \subseteq Vertices
          /\ Nearest(K, r.sc.res, Query) \cap r.gone \subseteq {r.first}
      BY <2>1, <3>2 DEF ScanOK, Scans
    <3>4. SearchAll(t)
      BY <2>1, <3>3 DEF SearchAll, SearchOK, SearchInv
    <3> HIDE DEF t
    <3> QED
      BY <3>1, <3>4, GoesKept
  <2>3. CASE ~Scanned(r.sc, Query)
    <3>1. PICK sc \in ScanRound(r.sc, Query, 0, Beam) : Goes(s, [r EXCEPT !.sc = sc])
      BY <1>3, <2>3 DEF SearchScan
    <3>2. Beam \in Nat \ {0} /\ 0 \in Levels /\ r.sc \in Scans
      BY <2>1, HnswAssumption DEF Beam
    <3>3. /\ sc \in Scans /\ ScanOK(sc)
          /\ \E c \in r.sc.seen : sc.seen \subseteq r.sc.seen \cup LiveNeighbours(c, 0)
      BY <1>0, <2>1, <2>3, <3>2, QueryIsPoint, RoundFinds
    <3>4. \A c \in r.sc.seen : LiveNeighbours(c, 0) \subseteq Known \ deleted
      BY <1>0, <2>1, <3>2 DEF GraphInv, NoDangling, Known, LiveNeighbours, Scans
    <3>5. sc.seen \subseteq Known /\ sc.seen \cap r.gone \subseteq {r.first}
      BY <2>1, <3>3, <3>4
    <3>6. SearchAll([r EXCEPT !.sc = sc])
      BY <2>1, <3>3, <3>5 DEF SearchAll, SearchOK, SearchInv
    <3> QED
      BY <3>1, <3>6, GoesKept
  <2> QED
    BY <2>2, <2>3
<1> QED
  BY <1>1, <1>2, <1>3 DEF SearchStep

-----------------------------------------------------------------------------
(* Steps of an insert that link nothing. *)

\* The change under way at a scan, or at the start of one.
LEMMA ChangeKept ==
    ASSUME IInv, UNCHANGED <<graph, entry, search, ops>>, ChangeAll'
    PROVE  IInv'
<1>0. GraphInv /\ SearchesInv
  BY Parts
<1>1. GraphInv'
  <2>1. entry' \in Known \cup {None} /\ ops' \in 0..MaxOps
    BY <1>0 DEF GraphInv, NoDangling, Known
  <2> QED
    BY <1>0, <2>1, SameGraph DEF graph
<1>2. SearchesInv'
  BY <1>0, SameSearches DEF graph, Known
<1> QED
  BY <1>1, <1>2, Parts, PTL

LEMMA NoneToPrune ==
    ASSUME DegreesBounded, w.op # "prune", edges' = edges
    PROVE  /\ DegreesBounded'
           /\ \A v \in Vertices, l \in Levels : Cardinality(edges[v][l]) <= MMaxAt(l)
  BY DEF DegreesBounded

LEMMA InsertGreedyKept ==
    ASSUME IInv, InsertGreedy
    PROVE  IInv'
<1> DEFINE q == Position[w.v]
           next == CloserNeighbours(q, w.at, w.l)
<1>0. GraphInv /\ ChangeAll /\ UNCHANGED <<graph, entry, search, ops>>
  BY Parts DEF InsertGreedy
<1>1. /\ w.op = "greedy"
      /\ w \in [op : {"greedy"}, v : Vertices, at : Vertices, l : Levels]
      /\ w.v \in Known /\ w.at \in Known \ {w.v} /\ w.l <= level[w.at]
      /\ \A l \in Levels : NotLinked(w.v, l)
  BY <1>0 DEF InsertGreedy, ChangeAll, ChangeOK, ChangeHeld, ChangeInv, Idle
<1>2. /\ w.l \in Levels /\ w.l \in Nat /\ level[w.v] \in Nat /\ level[w.at] \in Nat
  BY <1>0, <1>1, LevelFacts DEF GraphInv
<1>3. Known' = Known /\ level' = level /\ edges' = edges /\ \A v, l : NotLinked(v, l)' = NotLinked(v, l)
  BY <1>0 DEF graph, Known, NotLinked
<1>4. DegreesBounded'
  BY <1>0, <1>1, <1>3, NoneToPrune DEF ChangeAll
<1>5. CASE w.l <= level[w.v]
  <2>1. w' = [op |-> "scan", v |-> w.v, l |-> w.l, sc |-> ScanFrom(w.at)]
    BY <1>2, <1>5 DEF InsertGreedy
  <2>2. ScanFrom(w.at) \in Scans /\ ScanOK(ScanFrom(w.at)) /\ ScanFrom(w.at).seen = {w.at}
    BY <1>1 DEF ScanFrom, Scans, ScanOK
  <2>3. ChangeOK'
    BY <1>1, <2>1, <2>2 DEF ChangeOK
  <2>4. ChangeHeld'
    BY <1>1, <1>3, <1>5, <2>1, <2>2 DEF ChangeHeld
  <2>5. ChangeInv'
    BY <1>1, <1>3, <2>1, <2>2 DEF ChangeInv
  <2> QED
    BY <1>0, <1>4, <2>3, <2>4, <2>5, ChangeKept DEF ChangeAll
<1>6. CASE w.l > level[w.v] /\ next # {}
  <2>1. w' = [w EXCEPT !.at = Closest(next, q)]
    BY <1>2, <1>6 DEF InsertGreedy
  <2>2. next \in SUBSET (edges[w.at][w.l] \ deleted) /\ edges[w.at][w.l] \in SUBSET Vertices
    BY <1>0, <1>1 DEF CloserNeighbours, LiveNeighbours, GraphInv
  <2>3. Closest(next, q) \in next
    BY <1>1, <1>6, <2>2, PositionIsPoint, ClosestOf
  <2>4. /\ Closest(next, q) \in Vertices /\ Closest(next, q) \in Known
        /\ w.l <= level[Closest(next, q)] /\ Closest(next, q) # w.v
    BY <1>0, <1>1, <2>2, <2>3 DEF GraphInv, EdgesHeld, NoDangling, Known, NotLinked
  <2> HIDE DEF next, q
  <2>5. ChangeOK'
    BY <1>1, <2>1, <2>4 DEF ChangeOK
  <2>6. ChangeHeld'
    BY <1>1, <1>3, <2>1, <2>4 DEF ChangeHeld
  <2>7. ChangeInv'
    BY <1>1, <1>3, <2>1, <2>4 DEF ChangeInv
  <2> QED
    BY <1>0, <1>4, <2>5, <2>6, <2>7, ChangeKept DEF ChangeAll
<1>7. CASE w.l > level[w.v] /\ next = {}
  <2>1. w' = [w EXCEPT !.l = w.l - 1]
    BY <1>2, <1>7 DEF InsertGreedy
  <2>2. w.l - 1 \in 0..w.l
    BY <1>2, <1>7
  <2>3. w.l - 1 \in Levels /\ w.l - 1 <= level[w.at]
    BY <1>1, <1>2, <2>2, LevelFacts
  <2>4. ChangeOK'
    BY <1>1, <2>1, <2>3 DEF ChangeOK
  <2>5. ChangeHeld'
    BY <1>1, <1>3, <2>1, <2>3 DEF ChangeHeld
  <2>6. ChangeInv'
    BY <1>1, <1>3, <2>1, <2>3 DEF ChangeInv
  <2> QED
    BY <1>0, <1>4, <2>4, <2>5, <2>6, ChangeKept DEF ChangeAll
<1> QED
  BY <1>2, <1>5, <1>6, <1>7

LEMMA InsertScanKept ==
    ASSUME IInv, InsertScan
    PROVE  IInv'
<1> DEFINE q == Position[w.v]
<1>0. GraphInv /\ ChangeAll /\ UNCHANGED <<graph, entry, search, ops>>
  BY Parts DEF InsertScan
<1>1. /\ w.op = "scan"
      /\ w \in [op : {"scan"}, v : Vertices, l : Levels, sc : Scans]
      /\ w.v \in Known /\ ScanOK(w.sc) /\ w.sc.seen \subseteq Known \ {w.v}
      /\ (\A x \in w.sc.seen \cup {w.v} : w.l <= level[x])
      /\ \A l \in Levels : l <= w.l => NotLinked(w.v, l)
  BY <1>0 DEF InsertScan, ChangeAll, ChangeOK, ChangeHeld, ChangeInv, Idle
<1>2. w.l \in Levels /\ w.l \in Nat /\ q \in Points
  BY <1>1, LevelFacts, PositionIsPoint
<1>3. Known' = Known /\ level' = level /\ edges' = edges /\ \A v, l : NotLinked(v, l)' = NotLinked(v, l)
  BY <1>0 DEF graph, Known, NotLinked
<1>4. DegreesBounded'
  BY <1>0, <1>1, <1>3, NoneToPrune DEF ChangeAll
<1>5. CASE Scanned(w.sc, q)
  <2> DEFINE N == Nearest(M, w.sc.res, q)
  <2>1. w' = [op |-> "out", v |-> w.v, l |-> w.l, left |-> N]
    BY <1>5 DEF InsertScan
  <2>2. w.sc.res \in SUBSET Vertices /\ w.sc.res # {} /\ w.sc.res \subseteq w.sc.seen
    BY <1>1 DEF Scans, ScanOK
  <2>3. N \subseteq w.sc.seen /\ N \subseteq Vertices /\ N # {} /\ Cardinality(N) \in Nat /\ Cardinality(N) <= M
    BY <1>2, <2>2, LevelFacts, NearestOf
  <2>4. NotLinked(w.v, w.l)
    BY <1>1, <1>2
  <2>5. Cardinality(edges[w.v][w.l]) = 0
    BY <2>4, FS_EmptySet DEF NotLinked
  <2>6. Cardinality(N) + Cardinality(edges[w.v][w.l]) <= M
    BY <2>3, <2>5
  <2>7. ASSUME NEW l \in Levels, l < w.l PROVE NotLinked(w.v, l)
    <3>1. l <= w.l
      BY <1>2, <2>7, LevelFacts
    <3> QED
      BY <1>1, <3>1
  <2> HIDE DEF N
  <2>8. ChangeOK'
    BY <1>1, <2>1, <2>3 DEF ChangeOK
  <2>9. ChangeHeld'
    BY <1>1, <1>3, <2>1, <2>3 DEF ChangeHeld
  <2>10. ChangeInv'
    BY <1>1, <1>3, <2>1, <2>3, <2>6, <2>7 DEF ChangeInv
  <2> QED
    BY <1>0, <1>4, <2>8, <2>9, <2>10, ChangeKept DEF ChangeAll
<1>6. CASE ~Scanned(w.sc, q)
  <2>1. PICK sc \in ScanRound(w.sc, q, w.l, EfConstruction) : w' = [w EXCEPT !.sc = sc]
    BY <1>6 DEF InsertScan
  <2>2. EfConstruction \in Nat \ {0} /\ w.sc \in Scans
    BY <1>1, HnswAssumption
  <2>3. sc \in Scans /\ ScanOK(sc)
    BY <1>0, <1>1, <1>2, <1>6, <2>2, RoundFinds
  <2>4. \E c \in w.sc.seen : sc.seen \subseteq w.sc.seen \cup LiveNeighbours(c, w.l)
    BY <1>0, <1>1, <1>2, <1>6, <2>2, RoundFinds
  <2>5. ASSUME NEW c \in w.sc.seen, NEW n \in LiveNeighbours(c, w.l)
        PROVE  n \in Known \ {w.v} /\ w.l <= level[n]
    <3>1. c \in Vertices /\ n \in edges[c][w.l] /\ NotLinked(w.v, w.l)
      BY <1>1, <1>2, <2>5 DEF Scans, LiveNeighbours
    <3> QED
      BY <1>0, <1>1, <1>2, <3>1 DEF GraphInv, EdgesHeld, NoDangling, Known, NotLinked
  <2>6. sc.seen \subseteq Known \ {w.v} /\ \A x \in sc.seen : w.l <= level[x]
    BY <1>1, <2>4, <2>5
  <2>7. ChangeOK'
    BY <1>1, <2>1, <2>3 DEF ChangeOK
  <2>8. ChangeHeld'
    BY <1>1, <1>3, <2>1, <2>6 DEF ChangeHeld
  <2>9. ChangeInv'
    BY <1>1, <1>3, <2>1, <2>3, <2>6 DEF ChangeInv
  <2> QED
    BY <1>0, <1>4, <2>7, <2>8, <2>9, ChangeKept DEF ChangeAll
<1> QED
  BY <1>5, <1>6

-----------------------------------------------------------------------------
(* Steps that change edges. *)

LEMMA EdgesKept ==
    ASSUME GraphInv, UNCHANGED <<stored, deleted, level, entry, ops>>,
           edges' \in [Vertices -> [Levels -> SUBSET Vertices]],
           \A v \in Vertices, l \in Levels : \A n \in edges'[v][l] :
               \/ n \in edges[v][l]
               \/ v \in Known /\ n \in Known /\ n # v /\ l <= level[v] /\ l <= level[n]
    PROVE  GraphInv'
<1>1. Known' = Known /\ entry' = entry
  BY DEF Known
<1>2. EdgesHeld' /\ NoSelfEdge'
  BY DEF GraphInv, EdgesHeld, NoSelfEdge
<1>3. NoDangling'
  BY <1>1 DEF GraphInv, NoDangling, Known
<1>4. NewHaveNone'
  <2>1. ASSUME NEW v \in Vertices \ Known PROVE edges'[v] = NoEdges
    <3>1. \A l \in Levels : edges[v][l] = {}
      BY <2>1 DEF GraphInv, NewHaveNone, NoEdges
    <3>2. \A l \in Levels : edges'[v][l] = {}
      BY <2>1, <3>1
    <3> QED
      BY <2>1, <3>2 DEF NoEdges
  <2> QED
    BY <1>1, <2>1 DEF NewHaveNone, NoEdges
<1> QED
  BY <1>2, <1>3, <1>4 DEF GraphInv

LEMMA LinkKept ==
    ASSUME IInv, UNCHANGED <<stored, deleted, level, entry, search, ops>>, GraphInv', ChangeAll'
    PROVE  IInv'
<1>1. SearchesInv
  BY Parts
<1>2. SearchesInv'
  BY <1>1, SameSearches DEF Known
<1> QED
  BY <1>2, Parts, PTL

LEMMA FiniteEdges ==
    ASSUME GraphInv, NEW v \in Vertices, NEW l \in Levels
    PROVE  /\ edges[v][l] \in SUBSET Vertices /\ IsFiniteSet(edges[v][l])
           /\ Cardinality(edges[v][l]) \in Nat
           /\ \A n : Cardinality(edges[v][l] \cup {n}) <= Cardinality(edges[v][l]) + 1
<1>1. edges[v][l] \in SUBSET Vertices
  BY DEF GraphInv
<1>2. IsFiniteSet(edges[v][l]) /\ Cardinality(edges[v][l]) \in Nat
  BY <1>1, FiniteVertices
<1>3. ASSUME NEW n PROVE Cardinality(edges[v][l] \cup {n}) <= Cardinality(edges[v][l]) + 1
  <2>1. n \in edges[v][l] => edges[v][l] \cup {n} = edges[v][l]
    OBVIOUS
  <2>2. n \notin edges[v][l] => Cardinality(edges[v][l] \cup {n}) = Cardinality(edges[v][l]) + 1
    BY <1>2, FS_AddElement
  <2>3. CASE n \in edges[v][l]
    <3>1. Cardinality(edges[v][l] \cup {n}) = Cardinality(edges[v][l])
      BY <2>1, <2>3, Zenon
    <3> QED
      BY <1>2, <3>1
  <2>4. CASE n \notin edges[v][l]
    BY <1>2, <2>2, <2>4
  <2> QED
    BY <2>3, <2>4
<1> QED
  BY <1>1, <1>2, <1>3

\* The state of an insert while it links.
LEMMA LinkFacts ==
    ASSUME IInv, w.op \in {"out", "back", "prune"}
    PROVE  /\ w.v \in Known /\ w.v \in Vertices /\ w.l \in Levels /\ w.l \in Nat
           /\ w.left \in SUBSET Vertices /\ w.left \subseteq Known \ {w.v}
           /\ Cardinality(w.left) \in Nat
           /\ Cardinality(w.left) + Cardinality(edges[w.v][w.l]) <= M
           /\ \A x \in w.left \cup {w.v} : w.l <= level[x]
           /\ \A l \in Levels : l < w.l => NotLinked(w.v, l)
           /\ w.op = "out" => w.left # {}
           /\ w.op \in {"back", "prune"} =>
                w.n \in Vertices /\ w.n \in Known \ {w.v} /\ w.l <= level[w.n]
<1>0. ChangeAll
  BY Parts
<1>1. /\ w.v \in Vertices /\ w.l \in Levels /\ w.left \in SUBSET Vertices
      /\ w.op \in {"back", "prune"} => w.n \in Vertices
  BY <1>0 DEF ChangeAll, ChangeOK, Idle
<1>2. w # Idle
  BY DEF Idle
<1> QED
  BY <1>0, <1>1, <1>2, LevelFacts, FiniteVertices DEF ChangeAll, ChangeHeld, ChangeInv

LEMMA LinkOutKept ==
    ASSUME IInv, LinkOut
    PROVE  IInv'
<1> DEFINE n == Farthest(w.left, Position[w.v])
<1>0. /\ GraphInv /\ ChangeAll /\ UNCHANGED <<stored, deleted, level, entry, search, ops>>
      /\ w.op = "out"
  BY Parts DEF LinkOut
<1>1. /\ edges' = [edges EXCEPT ![w.v][w.l] = @ \cup {n}]
      /\ w' = [op |-> "back", v |-> w.v, l |-> w.l, left |-> w.left \ {n}, n |-> n]
  BY DEF LinkOut
<1>2. n \in w.left
  BY <1>0, LinkFacts, PositionIsPoint, FarthestOf
<1> HIDE DEF n
<1>3. /\ n \in Vertices /\ n \in Known \ {w.v} /\ w.l <= level[n]
      /\ w.v \in Vertices /\ w.v \in Known /\ w.l \in Levels /\ w.l <= level[w.v]
  BY <1>0, <1>2, LinkFacts
<1>4. /\ edges' \in [Vertices -> [Levels -> SUBSET Vertices]]
      /\ edges'[w.v][w.l] = edges[w.v][w.l] \cup {n}
      /\ \A x \in Vertices, l \in Levels : x # w.v \/ l # w.l => edges'[x][l] = edges[x][l]
  BY <1>0, <1>1, <1>3 DEF GraphInv
<1>5. GraphInv'
  BY <1>0, <1>3, <1>4, EdgesKept
<1>6. ChangeOK'
  BY <1>0, <1>1, <1>3, LinkFacts DEF ChangeOK
<1>7. ChangeHeld'
  BY <1>0, <1>1, <1>3, LinkFacts DEF ChangeHeld
<1>8. Cardinality(w.left \ {n}) = Cardinality(w.left) - 1
  BY <1>0, <1>2, LinkFacts, FiniteVertices, FS_RemoveElement
<1>9. /\ Cardinality(edges'[w.v][w.l]) <= Cardinality(edges[w.v][w.l]) + 1
      /\ Cardinality(edges[w.v][w.l]) \in Nat /\ Cardinality(edges'[w.v][w.l]) \in Nat
  <2>1. Cardinality(edges'[w.v][w.l]) \in Nat
    BY <1>3, <1>4, FiniteVertices
  <2> QED
    BY <1>0, <1>3, <1>4, <2>1, FiniteEdges
<1>10. Cardinality(w.left \ {n}) + Cardinality(edges'[w.v][w.l]) <= M
  BY <1>0, <1>8, <1>9, LinkFacts, LevelFacts
<1>11. ASSUME NEW l \in Levels, l < w.l PROVE NotLinked(w.v, l)'
  <2>1. NotLinked(w.v, l) /\ l # w.l
    BY <1>0, <1>11, LinkFacts, LevelFacts
  <2> QED
    BY <1>1, <1>3, <1>4, <2>1 DEF NotLinked
<1>12. ChangeInv'
  <2>1. Known' = Known
    BY <1>0 DEF Known
  <2>2. \A l \in Levels : l < w.l => (NotLinked(w.v, l))'
    BY <1>11
  <2>3. (\A l \in Levels : l < w.l => NotLinked(w.v, l))'
    BY <1>1, <2>2 DEF NotLinked
  <2>4. w' # Idle /\ w'.op = "back"
    BY <1>1 DEF Idle
  <2>5. w'.v = w.v /\ w'.l = w.l /\ w'.n = n /\ w'.left = w.left \ {n}
    BY <1>1
  <2>6. w.left \ {n} \subseteq Known \ {w.v}
    BY <1>0, LinkFacts
  <2> QED
    BY <1>3, <1>10, <2>1, <2>3, <2>4, <2>5, <2>6 DEF ChangeInv
<1>13. DegreesBounded'
  <2>1. \A x \in Vertices, l \in Levels : Cardinality(edges[x][l]) <= MMaxAt(l)
    BY <1>0 DEF ChangeAll, DegreesBounded
  <2>2. Cardinality(edges'[w.v][w.l]) <= MMaxAt(w.l)
    <3>1. Cardinality(w.left \ {n}) \in Nat
      BY <1>0, LinkFacts, FiniteVertices
    <3>2. M \in Nat /\ MMaxAt(w.l) \in Nat /\ M <= MMaxAt(w.l)
      BY <1>3, LevelFacts
    <3> QED
      BY <1>9, <1>10, <3>1, <3>2
  <2>3. \A x \in Vertices, l \in Levels : Cardinality(edges'[x][l]) <= MMaxAt(l)
    BY <1>4, <2>1, <2>2
  <2> QED
    BY <2>3 DEF DegreesBounded, MMaxAt
<1> QED
  BY <1>0, <1>5, <1>6, <1>7, <1>12, <1>13, LinkKept DEF ChangeAll

LEMMA LinkBackKept ==
    ASSUME IInv, LinkBack
    PROVE  IInv'
<1>0. /\ GraphInv /\ ChangeAll /\ UNCHANGED <<stored, deleted, level, entry, search, ops>>
      /\ w.op = "back"
  BY Parts DEF LinkBack
<1>1. /\ edges' = [edges EXCEPT ![w.n][w.l] = @ \cup {w.v}]
      /\ w' = [w EXCEPT !.op = "prune"]
  BY DEF LinkBack
<1>2. w \in [op : {"back", "prune"}, v : Vertices, l : Levels, left : SUBSET Vertices, n : Vertices]
  BY <1>0 DEF ChangeAll, ChangeOK, Idle
<1>3. /\ w.n \in Vertices /\ w.n \in Known \ {w.v} /\ w.l <= level[w.n]
      /\ w.v \in Vertices /\ w.v \in Known /\ w.l \in Levels /\ w.l <= level[w.v]
  BY <1>0, LinkFacts
<1>4. /\ edges' \in [Vertices -> [Levels -> SUBSET Vertices]]
      /\ edges'[w.n][w.l] = edges[w.n][w.l] \cup {w.v}
      /\ \A x \in Vertices, l \in Levels : x # w.n \/ l # w.l => edges'[x][l] = edges[x][l]
  BY <1>0, <1>1, <1>3 DEF GraphInv
<1>5. GraphInv'
  BY <1>0, <1>3, <1>4, EdgesKept
<1>6. /\ w'.op = "prune" /\ w'.v = w.v /\ w'.l = w.l /\ w'.left = w.left /\ w'.n = w.n
      /\ w' \in [op : {"back", "prune"}, v : Vertices, l : Levels, left : SUBSET Vertices, n : Vertices]
  BY <1>1, <1>2
<1>7. ChangeOK'
  BY <1>6 DEF ChangeOK
<1>8. ChangeHeld'
  BY <1>0, <1>3, <1>6, LinkFacts DEF ChangeHeld
<1>9. ASSUME NEW l \in Levels, l < w.l PROVE NotLinked(w.v, l)'
  <2>1. NotLinked(w.v, l) /\ l # w.l
    BY <1>0, <1>9, LinkFacts, LevelFacts
  <2> QED
    BY <1>3, <1>4, <1>6, <2>1 DEF NotLinked
<1>10. ChangeInv'
  <2>1. Known' = Known /\ edges'[w.v][w.l] = edges[w.v][w.l]
    BY <1>0, <1>3, <1>4 DEF Known
  <2>2. (\A l \in Levels : l < w.l => NotLinked(w.v, l))'
    BY <1>6, <1>9 DEF NotLinked
  <2>3. w' # Idle
    BY <1>6 DEF Idle
  <2>4. w.left \subseteq Known \ {w.v} /\ Cardinality(w.left) + Cardinality(edges[w.v][w.l]) <= M
    BY <1>0, LinkFacts
  <2> QED
    BY <1>3, <1>6, <2>1, <2>2, <2>3, <2>4 DEF ChangeInv
<1>11. DegreesBounded'
  <2>1. \A x \in Vertices, l \in Levels : Cardinality(edges[x][l]) <= MMaxAt(l)
    BY <1>0 DEF ChangeAll, DegreesBounded
  <2>2. Cardinality(edges'[w.n][w.l]) <= Cardinality(edges[w.n][w.l]) + 1
    BY <1>0, <1>3, <1>4, FiniteEdges
  <2>3. Cardinality(edges'[w.n][w.l]) \in Nat /\ Cardinality(edges[w.n][w.l]) \in Nat
    BY <1>0, <1>3, <1>4, FiniteEdges, FiniteVertices
  <2>4. MMaxAt(w.l) \in Nat
    BY <1>3, LevelFacts
  <2>5. \/ Cardinality(edges'[w.n][w.l]) <= MMaxAt(w.l)
        \/ Cardinality(edges'[w.n][w.l]) = MMaxAt(w.l) + 1
    <3>1. Cardinality(edges[w.n][w.l]) <= MMaxAt(w.l)
      BY <1>3, <2>1
    <3> QED
      BY <2>2, <2>3, <2>4, <3>1
  <2>6. ASSUME NEW x \in Vertices, NEW l \in Levels
        PROVE  \/ Cardinality(edges'[x][l]) <= MMaxAt(l)
               \/ x = w.n /\ l = w.l /\ Cardinality(edges'[x][l]) = MMaxAt(l) + 1
    BY <1>4, <2>1, <2>5
  <2> QED
    BY <1>6, <2>6 DEF DegreesBounded, MMaxAt
<1> QED
  BY <1>0, <1>5, <1>7, <1>8, <1>10, <1>11, LinkKept DEF ChangeAll

LEMMA PruneKept ==
    ASSUME IInv, Prune
    PROVE  IInv'
<1>0. /\ GraphInv /\ ChangeAll /\ UNCHANGED <<stored, deleted, level, entry, search, ops>>
      /\ w.op = "prune" /\ w' = AfterPrune
  BY Parts DEF Prune
<1>1. /\ w.n \in Vertices /\ w.n \in Known \ {w.v} /\ w.l <= level[w.n] /\ w.l \in Nat
      /\ w.v \in Vertices /\ w.v \in Known /\ w.l \in Levels /\ w.l <= level[w.v]
  BY <1>0, LinkFacts
<1>2. /\ Pruned(w.n, w.l) \subseteq edges[w.n][w.l]
      /\ Cardinality(Pruned(w.n, w.l)) <= MMaxAt(w.l)
  <2>1. LiveNeighbours(w.n, w.l) \in SUBSET Vertices /\ LiveNeighbours(w.n, w.l) \subseteq edges[w.n][w.l]
    BY <1>0, <1>1 DEF GraphInv, LiveNeighbours
  <2>2. Position[w.n] \in Points /\ MMaxAt(w.l) \in Nat \ {0}
    BY <1>1, PositionIsPoint, LevelFacts
  <2> QED
    BY <2>1, <2>2, NearestOf DEF Pruned
<1>3. /\ edges' \in [Vertices -> [Levels -> SUBSET Vertices]]
      /\ edges'[w.n][w.l] = IF Cardinality(edges[w.n][w.l]) > MMaxAt(w.l)
                            THEN Pruned(w.n, w.l) ELSE edges[w.n][w.l]
      /\ \A x \in Vertices, l \in Levels : x # w.n \/ l # w.l => edges'[x][l] = edges[x][l]
  <2>1. Pruned(w.n, w.l) \in SUBSET Vertices
    BY <1>0, <1>1, <1>2 DEF GraphInv
  <2> QED
    BY <1>0, <1>1, <2>1 DEF GraphInv, Prune
<1>4. \A x \in Vertices, l \in Levels : edges'[x][l] \subseteq edges[x][l]
  BY <1>2, <1>3
<1>5. GraphInv'
  BY <1>0, <1>3, <1>4, EdgesKept
<1>6. \A x \in Vertices, l \in Levels : Cardinality(edges'[x][l]) <= MMaxAt(l)
  <2>1. \A x \in Vertices, l \in Levels :
            x # w.n \/ l # w.l => Cardinality(edges[x][l]) <= MMaxAt(l)
    BY <1>0 DEF ChangeAll, DegreesBounded
  <2>2. Cardinality(edges'[w.n][w.l]) <= MMaxAt(w.l)
    <3>1. Cardinality(edges[w.n][w.l]) \in Nat /\ MMaxAt(w.l) \in Nat
      BY <1>0, <1>1, FiniteEdges, LevelFacts
    <3> QED
      BY <1>2, <1>3, <3>1
  <2> QED
    BY <1>3, <2>1, <2>2
<1>7. DegreesBounded'
  BY <1>6 DEF DegreesBounded, MMaxAt
<1>8. Known' = Known
  BY <1>0 DEF Known
<1>9. ASSUME NEW l \in Levels, l < w.l PROVE edges'[w.v][l] = {} /\ \A x \in Vertices : w.v \notin edges'[x][l]
  <2>1. NotLinked(w.v, l)
    BY <1>0, <1>9, LinkFacts
  <2> QED
    BY <1>1, <1>4, <2>1 DEF NotLinked
<1>10. CASE w.left # {}
  <2>1. w' = [op |-> "out", v |-> w.v, l |-> w.l, left |-> w.left]
    BY <1>0, <1>10 DEF AfterPrune
  <2>2. ChangeOK'
    BY <1>0, <1>1, <2>1, LinkFacts DEF ChangeOK
  <2>3. ChangeHeld'
    BY <1>0, <1>1, <2>1, LinkFacts DEF ChangeHeld
  <2>4. edges'[w.v][w.l] = edges[w.v][w.l]
    BY <1>1, <1>3
  <2>5. /\ w.left \subseteq Known \ {w.v}
        /\ Cardinality(w.left) + Cardinality(edges'[w.v][w.l]) <= M
    BY <1>0, <2>4, LinkFacts
  <2>6. (\A l \in Levels : l < w.l => NotLinked(w.v, l))'
    BY <1>9, <2>1 DEF NotLinked
  <2>7. w'.op = "out" /\ w'.v = w.v /\ w'.l = w.l /\ w'.left = w.left /\ w' # Idle
    BY <2>1 DEF Idle
  <2>8. ChangeInv'
    BY <1>1, <1>8, <1>10, <2>5, <2>6, <2>7 DEF ChangeInv
  <2> QED
    BY <1>0, <1>5, <1>7, <2>2, <2>3, <2>8, LinkKept DEF ChangeAll
<1>11. CASE w.left = {} /\ w.l > 0
  <2>1. w' = [op |-> "scan", v |-> w.v, l |-> w.l - 1, sc |-> ScanFrom(w.n)]
    BY <1>0, <1>11 DEF AfterPrune
  <2>2. ScanFrom(w.n) \in Scans /\ ScanOK(ScanFrom(w.n)) /\ ScanFrom(w.n).seen = {w.n}
    BY <1>1 DEF ScanFrom, Scans, ScanOK
  <2>3. w.l - 1 \in Levels
    <3>1. w.l - 1 \in 0..w.l
      BY <1>1, <1>11
    <3> QED
      BY <1>1, <3>1, LevelFacts
  <2>4. w.l - 1 <= level[w.n] /\ w.l - 1 <= level[w.v]
    <3>1. level[w.n] \in Nat /\ level[w.v] \in Nat
      BY <1>0, <1>1, LevelFacts DEF GraphInv
    <3> QED
      BY <1>1, <3>1
  <2>5. ASSUME NEW l \in Levels, l <= w.l - 1 PROVE l < w.l
    BY <1>1, <2>5, LevelFacts
  <2>6. ChangeOK'
    BY <1>1, <2>1, <2>2, <2>3 DEF ChangeOK
  <2>7. ChangeHeld'
    BY <1>0, <2>1, <2>2, <2>4 DEF ChangeHeld
  <2>8. (\A l \in Levels : l <= w.l => NotLinked(w.v, l))'
    BY <1>9, <2>1, <2>5 DEF NotLinked
  <2>9. w'.op = "scan" /\ w'.v = w.v /\ w'.l = w.l - 1 /\ w'.sc = ScanFrom(w.n) /\ w' # Idle
    BY <2>1 DEF Idle
  <2>10. ChangeInv'
    BY <1>1, <1>8, <2>2, <2>8, <2>9 DEF ChangeInv
  <2> QED
    BY <1>0, <1>5, <1>7, <2>6, <2>7, <2>10, LinkKept DEF ChangeAll
<1>12. CASE w.left = {} /\ w.l = 0
  <2>1. w' = [op |-> "finish", v |-> w.v]
    BY <1>0, <1>12 DEF AfterPrune
  <2>2. ChangeAll'
    BY <1>1, <1>6, <1>8, <2>1, NoLinks
  <2> QED
    BY <1>0, <1>5, <2>2, LinkKept
<1> QED
  BY <1>1, <1>10, <1>11, <1>12

-----------------------------------------------------------------------------
(* The other steps of a change. *)

LEMMA FinishInsertKept ==
    ASSUME IInv, FinishInsert
    PROVE  IInv'
<1>0. /\ GraphInv /\ ChangeAll /\ SearchesInv /\ UNCHANGED <<graph, search, ops>>
      /\ w.op = "finish" /\ w' = Idle /\ entry' \in {w.v, entry}
  BY Parts DEF FinishInsert
<1>1. w.v \in Known
  BY <1>0 DEF ChangeAll, ChangeInv, Idle
<1>2. GraphInv'
  <2>1. entry' \in Known \cup {None} /\ ops' \in 0..MaxOps
    BY <1>0, <1>1 DEF GraphInv, NoDangling, Known
  <2> QED
    BY <1>0, <2>1, SameGraph DEF graph
<1>3. ChangeAll'
  <2>1. \A x \in Vertices, l \in Levels : Cardinality(edges'[x][l]) <= MMaxAt(l)
    BY <1>0, NoneToPrune DEF ChangeAll, graph
  <2> QED
    BY <1>0, <2>1, NoLinks
<1>4. SearchesInv'
  BY <1>0, SameSearches DEF graph, Known
<1> QED
  BY <1>2, <1>3, <1>4, Parts, PTL

\* The entrypoint that replaces a removed one is a neighbour of it.
LEMMA NextEntryIs ==
    ASSUME GraphInv, NEW v \in Vertices
    PROVE  NextEntry(v) \in Known \cup {None}
<1> DEFINE linked == {l \in 0..level[v] : edges[v][l] # {}}
           top == CHOOSE l \in linked : \A k \in linked : k <= l
<1>1. level[v] \in Levels /\ level[v] \in Nat /\ 0..level[v] \subseteq Levels
  BY LevelFacts DEF GraphInv
<1>2. CASE linked = {}
  BY <1>2 DEF NextEntry
<1>3. CASE linked # {}
  <2> DEFINE T == {level[v] - l : l \in linked}
  <2>1. T \in SUBSET Nat /\ T # {}
    <3>1. ASSUME NEW l \in linked PROVE level[v] - l \in Nat
      <4>1. l \in 0..level[v]
        BY <3>1
      <4> QED
        BY <1>1, <4>1
    <3> HIDE DEF linked
    <3>2. T # {}
      BY <1>3
    <3>3. T \subseteq Nat
      BY <3>1
    <3> QED
      BY <3>2, <3>3
  <2>2. PICK x \in T : \A y \in T : x <= y
    BY <2>1, Least
  <2>3. PICK t \in linked : x = level[v] - t
    BY <2>2
  <2>4. ASSUME NEW k \in linked PROVE k <= t
    <3>1. x <= level[v] - k
      BY <2>2, <2>4
    <3> QED
      BY <1>1, <2>3, <3>1
  <2>5. top \in linked
    <3> HIDE DEF linked
    <3> QED
      BY <2>4
  <2>6. edges[v][top] # {} /\ edges[v][top] \in SUBSET Vertices /\ edges[v][top] \subseteq Known
    <3>1. edges[v][top] # {} /\ top \in Levels
      BY <1>1, <2>5
    <3> HIDE DEF top
    <3> QED
      BY <3>1 DEF GraphInv, NoDangling, Known
  <2>7. Closest(edges[v][top], Position[v]) \in edges[v][top]
    BY <2>6, PositionIsPoint, ClosestOf
  <2>8. NextEntry(v) = Closest(edges[v][top], Position[v])
    BY <1>3 DEF NextEntry
  <2> HIDE DEF top
  <2> QED
    BY <2>6, <2>7, <2>8
<1> QED
  BY <1>2, <1>3

LEMMA ReplaceEntryKept ==
    ASSUME IInv, ReplaceEntry
    PROVE  IInv'
<1>0. /\ GraphInv /\ ChangeAll /\ SearchesInv /\ UNCHANGED <<graph, search, ops>>
      /\ w.op = "entry" /\ w' = [w EXCEPT !.op = "unlink"] /\ entry' = NextEntry(w.v)
  BY Parts DEF ReplaceEntry
<1>1. w.v \in Known /\ w \in [op : {"finish", "entry", "unlink"}, v : Vertices]
  BY <1>0 DEF ChangeAll, ChangeInv, ChangeOK, Idle
<1>2. GraphInv'
  <2>1. entry' \in Known \cup {None} /\ ops' \in 0..MaxOps
    BY <1>0, <1>1, NextEntryIs DEF GraphInv
  <2> QED
    BY <1>0, <2>1, SameGraph DEF graph
<1>3. ChangeAll'
  <2>1. \A x \in Vertices, l \in Levels : Cardinality(edges'[x][l]) <= MMaxAt(l)
    BY <1>0, NoneToPrune DEF ChangeAll, graph
  <2>2. w' \in [op : {"finish", "entry", "unlink"}, v : Vertices] /\ w'.v \in Known'
    BY <1>0, <1>1 DEF graph, Known
  <2> QED
    BY <2>1, <2>2, NoLinks
<1>4. SearchesInv'
  BY <1>0, SameSearches DEF graph, Known
<1> QED
  BY <1>2, <1>3, <1>4, Parts, PTL

LEMMA UnlinkKept ==
    ASSUME IInv, Unlink
    PROVE  IInv'
<1>0. /\ GraphInv /\ ChangeAll /\ UNCHANGED <<stored, deleted, level, entry, search, ops>>
      /\ w.op = "unlink" /\ w' = Idle
  BY Parts DEF Unlink
<1>1. w.v \in Vertices
  BY <1>0 DEF ChangeAll, ChangeOK, Idle
<1> DEFINE Left(x, l) == Nearest(MMaxAt(l), LiveNeighbours(x, l) \ {w.v}, Position[x])
<1>2. ASSUME NEW x \in Vertices, NEW l \in Levels
      PROVE  Left(x, l) \subseteq edges[x][l] /\ Cardinality(Left(x, l)) <= MMaxAt(l)
  <2>1. /\ LiveNeighbours(x, l) \ {w.v} \in SUBSET Vertices
        /\ LiveNeighbours(x, l) \ {w.v} \subseteq edges[x][l]
    BY <1>0, <1>2 DEF GraphInv, LiveNeighbours
  <2>2. Position[x] \in Points /\ MMaxAt(l) \in Nat \ {0}
    BY <1>2, PositionIsPoint, LevelFacts
  <2>3. /\ Nearest(MMaxAt(l), LiveNeighbours(x, l) \ {w.v}, Position[x])
             \subseteq LiveNeighbours(x, l) \ {w.v}
        /\ Cardinality(Left(x, l)) <= MMaxAt(l)
    BY <2>1, <2>2, NearestOf
  <2> QED
    BY <2>1, <2>3
<1>3. edges' = [x \in Vertices |-> [l \in Levels |->
                   IF x \in edges[w.v][l] THEN Left(x, l) ELSE edges[x][l]]]
  BY DEF Unlink
<1> HIDE DEF Left
<1>4. /\ edges' \in [Vertices -> [Levels -> SUBSET Vertices]]
      /\ \A x \in Vertices, l \in Levels : edges'[x][l] = Left(x, l) \/ edges'[x][l] = edges[x][l]
  <2>1. \A x \in Vertices, l \in Levels : edges[x][l] \subseteq Vertices /\ Left(x, l) \subseteq Vertices
    BY <1>0, <1>2 DEF GraphInv
  <2> QED
    BY <1>3, <2>1
<1>5. GraphInv'
  BY <1>0, <1>2, <1>4, EdgesKept
<1>6. \A x \in Vertices, l \in Levels : Cardinality(edges'[x][l]) <= MMaxAt(l)
  <2>1. \A x \in Vertices, l \in Levels : Cardinality(edges[x][l]) <= MMaxAt(l)
    BY <1>0 DEF ChangeAll, DegreesBounded
  <2>2. ASSUME NEW x \in Vertices, NEW l \in Levels PROVE Cardinality(edges'[x][l]) <= MMaxAt(l)
    BY <1>2, <1>4, <2>1, <2>2
  <2> QED
    BY <2>2
<1>7. ChangeAll'
  BY <1>0, <1>6, NoLinks
<1> QED
  BY <1>0, <1>5, <1>7, LinkKept

-----------------------------------------------------------------------------
(* A change begins. *)

LEMMA BeginFacts ==
    ASSUME IInv, Begin
    PROVE  /\ w = Idle /\ ops' \in 0..MaxOps
           /\ \A x \in Vertices, l \in Levels : Cardinality(edges[x][l]) <= MMaxAt(l)
<1>0. GraphInv /\ ChangeAll
  BY Parts
<1>1. w = Idle /\ ops' \in 0..MaxOps
  BY <1>0, HnswAssumption DEF Begin, GraphInv
<1> QED
  BY <1>0, <1>1 DEF ChangeAll, DegreesBounded, Idle

LEMMA RemoveKept ==
    ASSUME IInv, NEW v \in Vertices, Remove(v)
    PROVE  IInv'
<1>0. /\ GraphInv /\ SearchesInv /\ UNCHANGED <<level, edges, entry, search>> /\ v \in stored
      /\ stored' = stored \ {v} /\ deleted' = deleted \cup {v} /\ ops' \in 0..MaxOps
      /\ w' = [op |-> IF entry = v THEN "entry" ELSE "unlink", v |-> v]
  BY Parts, BeginFacts DEF Remove
<1>1. Known' = Known
  BY <1>0 DEF Known
<1>2. GraphInv'
  <2>1. EdgesHeld' /\ NoSelfEdge' /\ NewHaveNone'
    BY <1>0, <1>1 DEF GraphInv, EdgesHeld, NoSelfEdge, NewHaveNone, NoEdges
  <2>2. NoDangling'
    BY <1>0, <1>1 DEF GraphInv, NoDangling, Known
  <2> QED
    BY <1>0, <2>1, <2>2 DEF GraphInv
<1>3. ChangeAll'
  <2>1. \A x \in Vertices, l \in Levels : Cardinality(edges'[x][l]) <= MMaxAt(l)
    BY <1>0, BeginFacts DEF Remove
  <2>2. w' \in [op : {"finish", "entry", "unlink"}, v : Vertices] /\ w'.v \in Known'
    BY <1>0, <1>1 DEF Known
  <2> QED
    BY <2>1, <2>2, NoLinks
<1>4. SearchesInv'
  BY <1>0, <1>1, SameSearches
<1> QED
  BY <1>2, <1>3, <1>4, Parts, PTL

\* A vertex is stored: no edge leads to it or from it yet.
LEMMA StoreKept ==
    ASSUME GraphInv, SearchesInv, NEW v \in Vertices, Fresh(v), NEW lv \in Levels,
           stored' = stored \cup {v}, level' = [level EXCEPT ![v] = lv],
           UNCHANGED <<deleted, edges, search>>, entry' \in {entry, v}, ops' \in 0..MaxOps
    PROVE  /\ GraphInv' /\ SearchesInv' /\ v \notin Known /\ Known' = Known \cup {v}
           /\ \A x \in Vertices : x # v => level'[x] = level[x]
           /\ level'[v] = lv
           /\ \A l \in Levels : edges[v][l] = {} /\ \A x \in Vertices : v \notin edges[x][l]
<1>1. v \notin Known /\ Known' = Known \cup {v} /\ Known \subseteq Vertices
  BY DEF Fresh, Known, GraphInv
<1>2. /\ level' \in [Vertices -> Levels] /\ level'[v] = lv
      /\ \A x \in Vertices : x # v => level'[x] = level[x]
  BY DEF GraphInv
<1>3. \A l \in Levels : edges[v][l] = {} /\ \A x \in Vertices : v \notin edges[x][l]
  BY <1>1 DEF GraphInv, NewHaveNone, NoEdges, NoDangling, Known
<1>4. EdgesHeld'
  <2>1. ASSUME NEW x \in Vertices, NEW l \in Levels, NEW n \in edges[x][l]
        PROVE  l <= level'[x] /\ l <= level'[n]
    <3>1. x # v /\ n # v /\ n \in Vertices
      BY <1>3, <2>1 DEF GraphInv
    <3> QED
      BY <1>2, <2>1, <3>1 DEF GraphInv, EdgesHeld
  <2> QED
    BY <2>1 DEF EdgesHeld
<1>5. NoDangling'
  BY <1>1 DEF GraphInv, NoDangling, Known
<1>6. NewHaveNone'
  BY <1>1 DEF GraphInv, NewHaveNone, NoEdges
<1>7. NoSelfEdge'
  BY DEF GraphInv, NoSelfEdge
<1>8. GraphInv'
  BY <1>2, <1>4, <1>5, <1>6, <1>7 DEF GraphInv
<1>9. SearchesInv'
  BY <1>1, <1>2, SameSearches
<1> QED
  BY <1>1, <1>2, <1>3, <1>8, <1>9

LEMMA InsertKept ==
    ASSUME IInv, NEW v \in Vertices, InsertFirst(v) \/ \E lv \in Levels : Insert(v, lv)
    PROVE  IInv'
<1>0. GraphInv /\ SearchesInv
  BY Parts
<1>1. CASE InsertFirst(v)
  <2>1. /\ Fresh(v) /\ stored' = stored \cup {v} /\ level' = [level EXCEPT ![v] = 0]
        /\ UNCHANGED <<deleted, edges, search, w>> /\ entry' = v /\ ops' \in 0..MaxOps /\ w = Idle
        /\ \A x \in Vertices, l \in Levels : Cardinality(edges'[x][l]) <= MMaxAt(l)
    BY <1>1, BeginFacts DEF InsertFirst
  <2>2. GraphInv' /\ SearchesInv'
    BY <1>0, <2>1, LevelFacts, StoreKept
  <2>3. ChangeAll'
    BY <2>1, NoLinks
  <2> QED
    BY <2>2, <2>3, Parts, PTL
<1>2. ASSUME NEW lv \in Levels, Insert(v, lv) PROVE IInv'
  <2>1. /\ Fresh(v) /\ stored' = stored \cup {v} /\ level' = [level EXCEPT ![v] = lv]
        /\ UNCHANGED <<deleted, edges, search, entry>> /\ ops' \in 0..MaxOps
        /\ \A x \in Vertices, l \in Levels : Cardinality(edges'[x][l]) <= MMaxAt(l)
        /\ w' = [op |-> "greedy", v |-> v, at |-> entry, l |-> level[entry]]
        /\ entry # None
    BY <1>2, BeginFacts DEF Insert
  <2>2. /\ GraphInv' /\ SearchesInv' /\ v \notin Known /\ Known' = Known \cup {v}
        /\ \A x \in Vertices : x # v => level'[x] = level[x]
        /\ \A l \in Levels : edges[v][l] = {} /\ \A x \in Vertices : v \notin edges[x][l]
    BY <1>0, <2>1, StoreKept
  <2>3. entry \in Known /\ entry \in Vertices /\ entry # v /\ level[entry] \in Levels
    BY <1>0, <2>1, <2>2 DEF GraphInv, NoDangling, Known
  <2>4. level'[entry] = level[entry] /\ level[entry] \in Nat
    BY <2>2, <2>3, LevelFacts
  <2>5. ChangeOK'
    BY <2>1, <2>3 DEF ChangeOK
  <2>6. ChangeHeld'
    BY <2>1, <2>4 DEF ChangeHeld
  <2>7. w'.op = "greedy" /\ w'.v = v /\ w'.at = entry /\ w' # Idle
    BY <2>1 DEF Idle
  <2>8. (\A l \in Levels : NotLinked(w.v, l))'
    BY <2>1, <2>2, <2>7 DEF NotLinked
  <2>9. ChangeInv'
    BY <2>2, <2>3, <2>7, <2>8 DEF ChangeInv
  <2>10. DegreesBounded'
    BY <2>1 DEF DegreesBounded, MMaxAt
  <2> QED
    BY <2>2, <2>5, <2>6, <2>9, <2>10, Parts, PTL DEF ChangeAll
<1> QED
  BY <1>1, <1>2

LEMMA ReloadKept ==
    ASSUME IInv, Reload
    PROVE  IInv'
<1>0. /\ GraphInv /\ deleted' = {} /\ stored' = stored /\ w' = w /\ w = Idle
      /\ level' = [v \in Vertices |-> IF v \in stored THEN level[v] ELSE 0]
      /\ edges' = LoadedEdges /\ entry' = LoadedEntry
      /\ search' = [s \in Searches |-> NotStarted] /\ ops' \in 0..MaxOps
  BY Parts, BeginFacts DEF Reload
<1>1. Known' = stored /\ stored \subseteq Vertices
  BY <1>0 DEF Known, GraphInv
<1>2. level' \in [Vertices -> Levels] /\ \A v \in stored : level'[v] = level[v]
  BY <1>0, <1>1, LevelFacts DEF GraphInv
<1>3. /\ edges' \in [Vertices -> [Levels -> SUBSET Vertices]]
      /\ \A v \in Vertices, l \in Levels :
            /\ edges'[v][l] \subseteq edges[v][l] /\ edges'[v][l] \subseteq stored
            /\ v \notin stored => edges'[v][l] = {}
  BY <1>0 DEF LoadedEdges, LiveNeighbours, GraphInv, NoDangling
<1>4. entry' \in stored \cup {None}
  BY <1>0 DEF LoadedEntry
<1>5. EdgesHeld'
  <2>1. ASSUME NEW x \in Vertices, NEW l \in Levels, NEW n \in edges'[x][l]
        PROVE  l <= level'[x] /\ l <= level'[n]
    <3>1. x \in stored /\ n \in stored /\ n \in edges[x][l]
      BY <1>3, <2>1
    <3> QED
      BY <1>0, <1>2, <3>1, <2>1 DEF GraphInv, EdgesHeld
  <2> QED
    BY <2>1 DEF EdgesHeld
<1>6. NoSelfEdge'
  BY <1>0, <1>3 DEF GraphInv, NoSelfEdge
<1>7. NoDangling'
  BY <1>0, <1>3, <1>4 DEF NoDangling
<1>8. NewHaveNone'
  <2>1. ASSUME NEW v \in Vertices \ stored PROVE edges'[v] = NoEdges
    BY <1>3, <2>1 DEF NoEdges
  <2> QED
    BY <1>1, <2>1 DEF NewHaveNone, NoEdges
<1>9. GraphInv'
  BY <1>0, <1>1, <1>2, <1>3, <1>4, <1>5, <1>6, <1>7, <1>8 DEF GraphInv
<1>10. ChangeAll'
  <2>1. ASSUME NEW x \in Vertices, NEW l \in Levels PROVE Cardinality(edges'[x][l]) <= MMaxAt(l)
    <3>1. Cardinality(edges[x][l]) <= MMaxAt(l)
      BY <2>1, BeginFacts DEF Reload
    <3>2. edges'[x][l] \in SUBSET edges[x][l] /\ edges[x][l] \in SUBSET Vertices
      BY <1>0, <1>3, <2>1 DEF GraphInv
    <3>3. IsFiniteSet(edges[x][l]) /\ Cardinality(edges[x][l]) \in Nat
      BY <3>2, FiniteVertices
    <3>4. Cardinality(edges'[x][l]) <= Cardinality(edges[x][l]) /\ Cardinality(edges'[x][l]) \in Nat
      BY <3>2, <3>3, FS_Subset, FS_CardinalityType
    <3>5. MMaxAt(l) \in Nat
      BY <2>1, LevelFacts
    <3> QED
      BY <3>1, <3>3, <3>4, <3>5
  <2> QED
    BY <1>0, <2>1, NoLinks
<1>11. SearchesInv'
  <2>1. \A s \in Searches : search'[s] = NotStarted
    BY <1>0
  <2>2. SearchAll(NotStarted)'
    BY DEF SearchAll, SearchOK, SearchInv, NotStarted
  <2>3. ASSUME NEW s \in Searches PROVE SearchAll(search[s])'
    BY <2>1, <2>3 DEF SearchAll, SearchOK, SearchInv, NotStarted
  <2> QED
    BY <1>0, <2>1, <2>3 DEF SearchesInv
<1> QED
  BY <1>9, <1>10, <1>11, Parts, PTL

-----------------------------------------------------------------------------
(* The theorems. *)

\* The invariant, from one step to the next.
LEMMA InitInvariant == Init => IInv
<1> SUFFICES ASSUME Init PROVE IInv
  OBVIOUS
<1>1. GraphInv
  <2>1. 0 \in Levels /\ 0 \in 0..MaxOps
    BY LevelFacts, HnswAssumption
  <2> QED
    BY <2>1 DEF Init, GraphInv, EdgesHeld, NoSelfEdge, NoDangling, NewHaveNone, NoEdges
<1>2. ChangeAll
  <2>1. \A v \in Vertices, l \in Levels : edges[v][l] = {}
    BY DEF Init, NoEdges
  <2>2. ASSUME NEW v \in Vertices, NEW l \in Levels PROVE Cardinality(edges[v][l]) <= MMaxAt(l)
    <3>1. Cardinality({}) = 0
      BY FS_EmptySet
    <3>2. Cardinality(edges[v][l]) = 0
      BY <2>1, <2>2, <3>1, Zenon
    <3>3. MMaxAt(l) \in Nat
      BY <2>2, LevelFacts
    <3> QED
      BY <3>2, <3>3
  <2> QED
    BY <2>2 DEF Init, ChangeAll, ChangeOK, ChangeHeld, ChangeInv, DegreesBounded, Idle
<1>3. SearchesInv
  BY DEF Init, SearchesInv, SearchAll, SearchOK, SearchInv, NotStarted
<1> QED
  BY <1>1, <1>2, <1>3, Parts

LEMMA NextInvariant == IInv /\ [Next]_vars => IInv'
<1> SUFFICES ASSUME IInv, [Next]_vars PROVE IInv'
  OBVIOUS
<1>1. ASSUME NEW v \in Vertices, InsertFirst(v) \/ (\E lv \in Levels : Insert(v, lv)) PROVE IInv'
  BY <1>1, InsertKept
<1>2. ASSUME NEW v \in Vertices, Remove(v) PROVE IInv'
  BY <1>2, RemoveKept
<1>3. CASE InsertGreedy \/ InsertScan
  BY <1>3, InsertGreedyKept, InsertScanKept
<1>4. CASE LinkOut \/ LinkBack \/ Prune
  BY <1>4, LinkOutKept, LinkBackKept, PruneKept
<1>5. CASE FinishInsert \/ ReplaceEntry \/ Unlink \/ Reload
  BY <1>5, FinishInsertKept, ReplaceEntryKept, UnlinkKept, ReloadKept
<1>6. ASSUME NEW s \in Searches, SearchStep(s) PROVE IInv'
  BY <1>6, SearchStepKept
<1>7. CASE UNCHANGED vars
  <2>1. GraphInv /\ ChangeAll /\ SearchesInv
    BY Parts
  <2>2. entry' \in Known \cup {None} /\ ops' \in 0..MaxOps
    BY <1>7, <2>1 DEF vars, GraphInv, NoDangling, Known
  <2>3. GraphInv'
    BY <1>7, <2>1, <2>2, SameGraph DEF vars
  <2>4. ChangeAll'
    BY <1>7, <2>1, SameChange DEF vars, graph
  <2>5. SearchesInv'
    BY <1>7, <2>1, SameSearches DEF vars, Known
  <2> QED
    BY <2>3, <2>4, <2>5, Parts, PTL
<1> QED
  BY <1>1, <1>2, <1>3, <1>4, <1>5, <1>6, <1>7 DEF Next

LEMMA InvariantSearch == IInv => OnlyEntrypointStale
  BY DEF IInv, SearchInv, OnlyEntrypointStale

\* The graph is well formed at every step of an insert, a removal or a restart: no access
\* out of range, no edge of a vertex to itself, no more neighbours than allowed, no
\* edge to a vertex that is not there (hnsw.go, Insert, Remove, pruneNeighbors).
THEOREM GraphCorrect == Spec => []GraphOK
<1>1. IInv => GraphOK
  BY DEF IInv
<1> QED
  BY <1>1, InitInvariant, NextInvariant, PTL DEF Spec

\* What was removed before a search began is not found, but for the entrypoint it
\* began at (hnsw.go, searchLevel).
THEOREM SearchSkipsRemoved == Spec => []OnlyEntrypointStale
  BY InitInvariant, NextInvariant, InvariantSearch, PTL DEF Spec

-----------------------------------------------------------------------------
(* What can be reached from a vertex: the least set that holds it and is   *)
(* closed under neighbours that are not deleted.                           *)

\* Induction, for a set of naturals.
LEMMA NatInduct ==
    ASSUME NEW S, 0 \in S, \A n \in Nat : n \in S => n + 1 \in S
    PROVE  Nat \subseteq S
<1> DEFINE T == Nat \ S
<1> SUFFICES ASSUME T # {} PROVE FALSE
  OBVIOUS
<1>1. T \in SUBSET Nat
  OBVIOUS
<1>2. PICK x \in T : \A y \in T : x <= y
  <2> HIDE DEF T
  <2> QED
    BY <1>1, Least
<1>3. x # 0 /\ x - 1 \in Nat /\ x - 1 \in T /\ ~(x <= x - 1)
  BY <1>2
<1> QED
  BY <1>2, <1>3

Size == Cardinality(Vertices)

LEMMA SizeIs == Size \in Nat
  BY FiniteVertices DEF Size

LiveIn(e, d, v) == e[v][0] \ d
Grown(e, d, R) == R \cup UNION {LiveIn(e, d, v) : v \in R}

Reaches(e, d, x) ==
    LET reach[n \in 0..Cardinality(Vertices)] ==
            IF n = 0 THEN {x}
            ELSE reach[n - 1] \cup UNION {e[v][0] \ d : v \in reach[n - 1]}
    IN  reach

LEMMA ReachesAre ==
    ASSUME NEW e, NEW d, NEW x
    PROVE  /\ Reaches(e, d, x)[0] = {x}
           /\ \A n \in Nat : n + 1 <= Size =>
                 Reaches(e, d, x)[n + 1] = Grown(e, d, Reaches(e, d, x)[n])
<1> DEFINE Def(f, m) == f = [i \in 0..m |-> IF i = 0 THEN {x} ELSE Grown(e, d, f[i - 1])]
           S == {m \in Nat : \E f : Def(f, m)}
<1>1. 0 \in S
  <2>1. Def([i \in 0..0 |-> {x}], 0)
    OBVIOUS
  <2> QED
    BY <2>1
<1>2. ASSUME NEW m \in Nat, m \in S PROVE m + 1 \in S
  <2>1. PICK f : Def(f, m)
    BY <1>2
  <2> DEFINE h == [i \in 0..m + 1 |-> IF i = m + 1 THEN Grown(e, d, f[m]) ELSE f[i]]
  <2>2. ASSUME NEW i \in 0..m + 1
        PROVE  h[i] = IF i = 0 THEN {x} ELSE Grown(e, d, h[i - 1])
    <3>1. CASE i = m + 1
      <4>1. h[i] = Grown(e, d, f[m]) /\ i - 1 = m /\ h[m] = f[m] /\ i # 0
        BY <3>1
      <4> QED
        BY <4>1
    <3>2. CASE i # m + 1
      <4>1. i \in 0..m /\ h[i] = f[i]
        BY <3>2
      <4>2. i # 0 => h[i - 1] = f[i - 1]
        BY <3>2
      <4>3. f[i] = IF i = 0 THEN {x} ELSE Grown(e, d, f[i - 1])
        BY <2>1, <4>1
      <4> HIDE DEF h
      <4> QED
        BY <4>1, <4>2, <4>3
    <3> QED
      BY <3>1, <3>2
  <2>3. Def(h, m + 1)
    <3>1. h = [i \in 0..m + 1 |-> h[i]]
      OBVIOUS
    <3> HIDE DEF h
    <3> QED
      BY <2>2, <3>1
  <2>4. \E f2 : Def(f2, m + 1)
    <3> HIDE DEF h, Def
    <3> QED
      BY <2>3
  <2> HIDE DEF Def
  <2> QED
    BY <2>4
<1>3. Nat \subseteq S
  <2> HIDE DEF S
  <2> QED
    BY <1>1, <1>2, NatInduct
<1>4. \E f : Def(f, Size)
  BY <1>3, SizeIs
<1> DEFINE chosen == CHOOSE f : Def(f, Size)
<1>5. Def(chosen, Size)
  <2> HIDE DEF Def
  <2> QED
    BY <1>4
<1>6. Reaches(e, d, x) = chosen
  BY DEF Reaches, Grown, LiveIn, Size
<1> HIDE DEF chosen
<1>7. chosen[0] = {x}
  BY <1>5, SizeIs
<1>8. ASSUME NEW n \in Nat, n + 1 <= Size PROVE chosen[n + 1] = Grown(e, d, chosen[n])
  <2>1. PICK k \in 0..Size : k = n + 1
    BY <1>8, SizeIs
  <2>2. k # 0 /\ k - 1 = n
    BY <2>1
  <2>3. chosen[k] = IF k = 0 THEN {x} ELSE Grown(e, d, chosen[k - 1])
    BY <1>5
  <2> QED
    BY <2>1, <2>2, <2>3
<1> QED
  BY <1>6, <1>7, <1>8

\* It takes no more rounds than there are vertices: a round that adds none is the last
\* that could.
LEMMA ReachIs ==
    ASSUME NEW e \in [Vertices -> [Levels -> SUBSET Vertices]], NEW d, NEW x \in Vertices
    PROVE  LET R == Reaches(e, d, x)[Size]
           IN  /\ x \in R /\ R \subseteq Vertices
               /\ \A v \in R : LiveIn(e, d, v) \subseteq R
               /\ \A C : x \in C /\ (\A v \in C : LiveIn(e, d, v) \subseteq C) => R \subseteq C
<1> DEFINE R(n) == Reaches(e, d, x)[n]
           Steady(n) == \A v \in R(n) : LiveIn(e, d, v) \subseteq R(n)
<1>1. Size \in Nat /\ 0 \in 0..Size
  BY SizeIs
<1>2. R(0) = {x}
  BY <1>1, ReachesAre
<1>3. \A n \in Nat : n + 1 <= Size => R(n + 1) = Grown(e, d, R(n))
  BY ReachesAre
<1>4. \A v \in Vertices : LiveIn(e, d, v) \subseteq Vertices
  BY LevelFacts DEF LiveIn
<1> HIDE DEF R
<1> DEFINE In == {n \in Nat : n <= Size => x \in R(n) /\ R(n) \subseteq Vertices}
<1>5. Nat \subseteq In
  <2>1. 0 \in In
    BY <1>2
  <2>2. ASSUME NEW n \in Nat, n \in In PROVE n + 1 \in In
    <3> SUFFICES ASSUME n + 1 <= Size PROVE x \in R(n + 1) /\ R(n + 1) \subseteq Vertices
      OBVIOUS
    <3>1. x \in R(n) /\ R(n) \subseteq Vertices
      BY <1>1, <2>2
    <3>2. R(n + 1) = Grown(e, d, R(n))
      BY <1>3
    <3> QED
      BY <1>4, <3>1, <3>2 DEF Grown
  <2> HIDE DEF In
  <2> QED
    BY <2>1, <2>2, NatInduct
<1> DEFINE Grows == {n \in Nat : n <= Size => Steady(n) \/ Cardinality(R(n)) > n}
<1>6. Nat \subseteq Grows
  <2>1. 0 \in Grows
    <3>1. R(0) # {} /\ R(0) \in SUBSET Vertices
      BY <1>2
    <3>2. Cardinality(R(0)) > 0
      BY <3>1, FiniteVertices
    <3> QED
      BY <3>2
  <2>2. ASSUME NEW n \in Nat, n \in Grows PROVE n + 1 \in Grows
    <3> SUFFICES ASSUME n + 1 <= Size PROVE Steady(n + 1) \/ Cardinality(R(n + 1)) > n + 1
      OBVIOUS
    <3>0. n <= Size
      BY <1>1
    <3>1. R(n + 1) = Grown(e, d, R(n))
      BY <1>3
    <3>2. CASE Steady(n)
      <4>1. R(n + 1) = R(n)
        BY <3>1, <3>2 DEF Grown
      <4> QED
        BY <3>2, <4>1
    <3>3. CASE ~Steady(n)
      <4>1. Cardinality(R(n)) > n
        BY <2>2, <3>0, <3>3
      <4>2. R(n) \in SUBSET R(n + 1) /\ R(n) # R(n + 1)
        BY <3>1, <3>3 DEF Grown
      <4>3. R(n + 1) \in SUBSET Vertices /\ R(n) \in SUBSET Vertices
        BY <1>5, <3>0
      <4>4. Cardinality(R(n)) < Cardinality(R(n + 1))
        BY <4>2, <4>3, Smaller
      <4>5. Cardinality(R(n)) \in Nat /\ Cardinality(R(n + 1)) \in Nat
        BY <4>3, FiniteVertices
      <4> HIDE DEF Steady
      <4> QED
        BY <4>1, <4>4, <4>5
    <3> QED
      BY <3>2, <3>3
  <2> HIDE DEF Grows
  <2> QED
    BY <2>1, <2>2, NatInduct
<1>7. x \in R(Size) /\ R(Size) \subseteq Vertices
  BY <1>1, <1>5
<1>8. Steady(Size)
  <2>1. Cardinality(R(Size)) <= Size /\ Cardinality(R(Size)) \in Nat
    BY <1>7, HnswAssumption, FS_Subset, FiniteVertices DEF Size
  <2>2. Steady(Size) \/ Cardinality(R(Size)) > Size
    BY <1>1, <1>6
  <2> HIDE DEF Steady
  <2> QED
    BY <1>1, <2>1, <2>2
<1>9. ASSUME NEW C, x \in C, \A v \in C : LiveIn(e, d, v) \subseteq C PROVE R(Size) \subseteq C
  <2> DEFINE S == {n \in Nat : n <= Size => R(n) \subseteq C}
  <2>1. 0 \in S
    BY <1>2, <1>9
  <2>2. ASSUME NEW n \in Nat, n \in S PROVE n + 1 \in S
    <3> SUFFICES ASSUME n + 1 <= Size PROVE R(n + 1) \subseteq C
      OBVIOUS
    <3>1. R(n) \subseteq C
      BY <1>1, <2>2
    <3>2. R(n + 1) = Grown(e, d, R(n))
      BY <1>3
    <3> QED
      BY <1>9, <3>1, <3>2 DEF Grown
  <2>3. Nat \subseteq S
    <3> HIDE DEF S
    <3> QED
      BY <2>1, <2>2, NatInduct
  <2> QED
    BY <1>1, <2>3
<1> QED
  BY <1>7, <1>8, <1>9 DEF R

LEMMA ReachableIs ==
    /\ \A x : Reachable(x) = Reaches(edges, deleted, x)[Size]
    /\ \A x : Reachable(x)' = Reaches(edges', deleted', x)[Size]
  BY DEF Reachable, Reaches, LiveNeighbours, Size

\* What a vertex reaches, by the operators of the model.
LEMMA ReachableClosed ==
    ASSUME GraphInv, NEW x \in Vertices
    PROVE  /\ x \in Reachable(x) /\ Reachable(x) \subseteq Vertices
           /\ \A v \in Reachable(x) : LiveNeighbours(v, 0) \subseteq Reachable(x)
           /\ \A C : x \in C /\ (\A v \in C : LiveNeighbours(v, 0) \subseteq C)
                       => Reachable(x) \subseteq C
<1>1. edges \in [Vertices -> [Levels -> SUBSET Vertices]]
  BY DEF GraphInv
<1>2. \A v : LiveNeighbours(v, 0) = LiveIn(edges, deleted, v)
  BY DEF LiveNeighbours, LiveIn
<1>3. PICK R : R = Reaches(edges, deleted, x)[Size]
  OBVIOUS
<1>4. /\ x \in R /\ R \subseteq Vertices
      /\ \A v \in R : LiveIn(edges, deleted, v) \subseteq R
      /\ \A C : x \in C /\ (\A v \in C : LiveIn(edges, deleted, v) \subseteq C) => R \subseteq C
  BY <1>1, <1>3, ReachIs
<1>5. Reachable(x) = R
  BY <1>3, ReachableIs
<1> QED
  BY <1>2, <1>4, <1>5

-----------------------------------------------------------------------------
(* A snapshot: ids are unique in the map, so that the entrypoint is found  *)
(* by its id; the edges that are not saved are those no search follows.    *)

IdsDistinct == \A u, v \in stored : IdOf[u] = IdOf[v] => u = v

LEMMA IdsStayDistinct == IdsDistinct /\ [Next]_vars => IdsDistinct'
<1> SUFFICES ASSUME IdsDistinct, [Next]_vars PROVE IdsDistinct'
  OBVIOUS
<1>1. ASSUME NEW v, IdFree(v), stored' = stored \cup {v} PROVE IdsDistinct'
  BY <1>1 DEF IdsDistinct, IdFree
<1>2. ASSUME NEW v, stored' = stored \ {v} PROVE IdsDistinct'
  BY <1>2 DEF IdsDistinct
<1>3. CASE stored' = stored
  BY <1>3 DEF IdsDistinct
<1>4. ASSUME NEW v \in Vertices, InsertFirst(v) \/ \E lv \in Levels : Insert(v, lv) PROVE IdsDistinct'
  BY <1>1, <1>4 DEF InsertFirst, Insert
<1>5. ASSUME NEW v \in Vertices, Remove(v) PROVE IdsDistinct'
  BY <1>2, <1>5 DEF Remove
<1>6. CASE \/ InsertGreedy \/ InsertScan \/ LinkOut \/ LinkBack \/ Prune \/ FinishInsert
           \/ ReplaceEntry \/ Unlink \/ Reload
  <2>1. stored' = stored
    BY <1>6 DEF InsertGreedy, InsertScan, LinkOut, LinkBack, Prune, FinishInsert, ReplaceEntry,
       Unlink, Reload, graph
  <2> QED
    BY <1>3, <2>1
<1>7. ASSUME NEW s \in Searches, SearchStep(s) PROVE IdsDistinct'
  <2>1. stored' = stored
    BY <1>7 DEF SearchStep, StartSearch, SearchGreedy, SearchScan, Goes, graph
  <2> QED
    BY <1>3, <2>1
<1>8. CASE UNCHANGED vars
  BY <1>3, <1>8 DEF vars
<1> QED
  BY <1>4, <1>5, <1>6, <1>7, <1>8 DEF Next

LEMMA ReloadReaches ==
    ASSUME IInv, IdsDistinct, Reload, entry \in stored
    PROVE  entry' = entry /\ Reachable(entry)' = Reachable(entry)
<1>0. GraphInv
  BY Parts
<1>1. entry' = entry
  BY DEF Reload, LoadedEntry, IdsDistinct
<1>2. /\ stored \subseteq Vertices /\ entry \in Vertices
      /\ edges \in [Vertices -> [Levels -> SUBSET Vertices]]
      /\ \A v \in Vertices : edges[v][0] \subseteq stored \cup deleted
  BY <1>0, LevelFacts DEF GraphInv, NoDangling
<1>3. deleted' = {} /\ edges' = LoadedEdges
  BY DEF Reload
<1>4. edges' \in [Vertices -> [Levels -> SUBSET Vertices]]
  BY <1>2, <1>3 DEF LoadedEdges, LiveNeighbours
<1>5. \A v \in Vertices :
        LiveIn(edges', deleted', v) = IF v \in stored THEN LiveIn(edges, deleted, v) ELSE {}
  BY <1>3, LevelFacts DEF LoadedEdges, LiveNeighbours, LiveIn
<1>6. PICK R : R = Reaches(edges, deleted, entry)[Size]
  OBVIOUS
<1>7. PICK T : T = Reaches(edges', deleted', entry)[Size]
  OBVIOUS
<1>8. /\ entry \in R /\ R \subseteq Vertices
      /\ \A v \in R : LiveIn(edges, deleted, v) \subseteq R
      /\ \A C : entry \in C /\ (\A v \in C : LiveIn(edges, deleted, v) \subseteq C) => R \subseteq C
  BY <1>2, <1>6, ReachIs
<1>9. /\ entry \in T /\ T \subseteq Vertices
      /\ \A v \in T : LiveIn(edges', deleted', v) \subseteq T
      /\ \A C : entry \in C /\ (\A v \in C : LiveIn(edges', deleted', v) \subseteq C) => T \subseteq C
  BY <1>2, <1>4, <1>7, ReachIs
<1>10. T \subseteq R
  <2>1. \A v \in R : LiveIn(edges', deleted', v) \subseteq R
    BY <1>5, <1>8
  <2> QED
    BY <1>8, <1>9, <2>1
<1>11. T \subseteq stored
  <2>1. \A v \in stored : LiveIn(edges', deleted', v) \subseteq stored
    <3>1. \A v \in stored : LiveIn(edges, deleted, v) \subseteq stored
      BY <1>2 DEF LiveIn
    <3> QED
      BY <1>2, <1>5, <3>1
  <2> QED
    BY <1>9, <2>1
<1>12. R \subseteq T
  <2>1. \A v \in T : LiveIn(edges, deleted, v) \subseteq T
    BY <1>5, <1>9, <1>11
  <2> QED
    BY <1>8, <1>9, <2>1
<1>13. Reachable(entry)' = Reaches(edges', deleted', entry')[Size]
  BY ReachableIs, Zenon
<1> QED
  BY <1>1, <1>6, <1>7, <1>10, <1>12, <1>13, ReachableIs

-----------------------------------------------------------------------------
(* A search in whose course nothing changes.                               *)

\* With a beam for all vertices a scan keeps all it has seen, and it has seen the
\* neighbours of what it is done with.
ExactScan(sc, x) ==
    /\ sc.res = sc.seen /\ x \in sc.seen /\ sc.seen \subseteq Reachable(x)
    /\ \A v \in sc.seen \ sc.todo : LiveNeighbours(v, 0) \subseteq sc.seen

Exact(r) ==
    /\ r.pc \in {"greedy", "scan", "done"} => r.calm \in Int /\ r.calm <= ops
                                              /\ (r.calm = ops => w = Idle)
    /\ r.pc = "scan" /\ r.calm = ops /\ Beam >= Cardinality(Vertices) => ExactScan(r.sc, r.from)
    /\ r.pc = "done" /\ r.calm = ops /\ Beam >= Cardinality(Vertices) /\ r.from # None
         => r.result = Nearest(K, Reachable(r.from), Query)

ExactAll == \A s \in Searches : Exact(search[s])

\* A set that fits is kept whole.
LEMMA NearestAll ==
    ASSUME NEW q \in Points, NEW S \in SUBSET Vertices, NEW k \in Nat, Cardinality(S) <= k
    PROVE  Nearest(k, S, q) = S
<1> SUFFICES ASSUME NEW v \in S PROVE Cardinality({u \in S : Closer(q, u, v)}) < k
  BY DEF Nearest
<1> DEFINE C == {u \in S : Closer(q, u, v)}
<1>1. C \in SUBSET S /\ v \notin C /\ C # S
  BY CloserOrder
<1>2. Cardinality(C) < Cardinality(S)
  BY <1>1, Smaller
<1>3. Cardinality(C) \in Nat /\ Cardinality(S) \in Nat
  BY <1>1, FiniteVertices
<1> HIDE DEF C
<1>4. Cardinality(C) < k
  BY <1>2, <1>3
<1> QED
  BY <1>4 DEF C

LEMMA BeamIs == Beam \in Nat \ {0} /\ 0 \in Levels
  BY HnswAssumption DEF Beam

\* There is room for all neighbours, whatever the order in which they come.
LEMMA RoundExact ==
    ASSUME GraphInv, NEW x \in Vertices, Beam >= Cardinality(Vertices),
           NEW sc \in Scans, ScanOK(sc), ExactScan(sc, x), ~Scanned(sc, Query),
           NEW r \in ScanRound(sc, Query, 0, Beam)
    PROVE  ExactScan(r, x)
<1> DEFINE c == Closest(sc.todo, Query)
           fresh == LiveNeighbours(c, 0) \ sc.seen
<1>0. sc.res \subseteq Vertices /\ sc.todo \subseteq Vertices /\ sc.seen \subseteq Vertices
  BY DEF Scans
<1>1. c \in sc.todo /\ c \in sc.seen /\ c \in Vertices
  <2>1. sc.todo \in SUBSET Vertices /\ sc.todo # {}
    BY <1>0 DEF Scanned
  <2>2. c \in sc.todo
    BY <2>1, QueryIsPoint, ClosestOf
  <2> QED
    BY <1>0, <2>2 DEF ScanOK
<1>2. fresh \subseteq Vertices
  BY <1>1, BeamIs DEF GraphInv, LiveNeighbours
<1>3. fresh \subseteq Reachable(x)
  BY <1>1, ReachableClosed DEF ExactScan
<1>4. PICK F \in SUBSET fresh :
         /\ LET room == Beam - Cardinality(sc.res)
            IN  \/ Cardinality(F) = room
                \/ Cardinality(F) < room /\ F = fresh
         /\ LET Taken == F \cup {n \in fresh : Closer(Query, n, Farthest(sc.res, Query))}
            IN  r = [res |-> Nearest(Beam, sc.res \cup Taken, Query),
                     todo |-> (sc.todo \ {c}) \cup Taken, seen |-> sc.seen \cup fresh]
  BY DEF ScanRound
<1> HIDE DEF c, fresh
<1>5. F = fresh
  <2> SUFFICES ASSUME Cardinality(F) = Beam - Cardinality(sc.res), F # fresh PROVE FALSE
    BY <1>4
  <2>1. Cardinality(F) < Cardinality(fresh)
    BY <1>2, Smaller
  <2>2. sc.res \cap fresh = {}
    BY DEF ExactScan, fresh
  <2>3. Cardinality(sc.res \cup fresh) = Cardinality(sc.res) + Cardinality(fresh)
    <3>1. IsFiniteSet(sc.res) /\ IsFiniteSet(fresh)
      BY <1>0, <1>2, FiniteVertices
    <3>2. Cardinality(sc.res \cup fresh)
            = Cardinality(sc.res) + Cardinality(fresh) - Cardinality(sc.res \cap fresh)
      BY <3>1, FS_Union
    <3>3. Cardinality(sc.res \cap fresh) = 0
      BY <2>2, FS_EmptySet
    <3>4. Cardinality(sc.res) \in Nat /\ Cardinality(fresh) \in Nat
      BY <1>0, <1>2, FiniteVertices
    <3> QED
      BY <3>2, <3>3, <3>4
  <2>4. sc.res \cup fresh \in SUBSET Vertices /\ F \in SUBSET Vertices
    BY <1>0, <1>2
  <2>5. Cardinality(sc.res \cup fresh) <= Cardinality(Vertices)
    BY <2>4, HnswAssumption, FS_Subset
  <2>6. /\ Cardinality(F) \in Nat /\ Cardinality(sc.res) \in Nat /\ Cardinality(fresh) \in Nat
        /\ Cardinality(sc.res \cup fresh) \in Nat /\ Cardinality(Vertices) \in Nat
    BY <1>0, <1>2, <2>4, FiniteVertices
  <2> QED
    BY <2>1, <2>3, <2>5, <2>6, BeamIs
<1>6. r = [res |-> Nearest(Beam, sc.res \cup fresh, Query),
           todo |-> (sc.todo \ {c}) \cup fresh, seen |-> sc.seen \cup fresh]
  <2>1. F \cup {n \in fresh : Closer(Query, n, Farthest(sc.res, Query))} = fresh
    BY <1>5
  <2> QED
    BY <1>4, <2>1
<1>7. Nearest(Beam, sc.res \cup fresh, Query) = sc.res \cup fresh
  <2>1. sc.res \cup fresh \in SUBSET Vertices
    BY <1>0, <1>2
  <2>2. Cardinality(sc.res \cup fresh) <= Cardinality(Vertices) /\ Cardinality(Vertices) \in Nat
        /\ Cardinality(sc.res \cup fresh) \in Nat
    BY <2>1, HnswAssumption, FS_Subset, FiniteVertices
  <2>3. Cardinality(sc.res \cup fresh) <= Beam
    BY <2>2, BeamIs
  <2> QED
    BY <2>1, <2>3, QueryIsPoint, BeamIs, NearestAll
<1>8. r.res = r.seen /\ x \in r.seen /\ r.seen \subseteq Reachable(x)
  BY <1>3, <1>6, <1>7 DEF ExactScan
<1>9. ASSUME NEW v \in r.seen \ r.todo PROVE LiveNeighbours(v, 0) \subseteq r.seen
  <2>1. v = c \/ v \in sc.seen \ sc.todo
    BY <1>6, <1>9
  <2>2. LiveNeighbours(c, 0) \subseteq r.seen
    BY <1>6 DEF fresh
  <2> QED
    BY <1>6, <2>1, <2>2 DEF ExactScan
<1> QED
  BY <1>8, <1>9 DEF ExactScan

\* The bound at which a scan stops is no bound then: it stops with nothing left to do.
LEMMA ScannedAll ==
    ASSUME GraphInv, NEW x \in Vertices, NEW sc \in Scans, ScanOK(sc), ExactScan(sc, x),
           Scanned(sc, Query)
    PROVE  sc.res = Reachable(x)
<1>1. sc.todo = {}
  <2> SUFFICES ASSUME sc.todo # {}, Closer(Query, Farthest(sc.res, Query), Closest(sc.todo, Query))
               PROVE  FALSE
    BY DEF Scanned
  <2>1. sc.res \in SUBSET Vertices /\ sc.todo \in SUBSET sc.res /\ sc.res # {} /\ sc.todo \in SUBSET Vertices
    BY DEF Scans, ScanOK, ExactScan
  <2>2. Closest(sc.todo, Query) \in sc.res
    BY <2>1, QueryIsPoint, ClosestOf
  <2>3. /\ Farthest(sc.res, Query) \in sc.res
        /\ \A u \in sc.res \ {Farthest(sc.res, Query)} : Closer(Query, u, Farthest(sc.res, Query))
    BY <2>1, QueryIsPoint, FarthestOf
  <2> DEFINE near == Closest(sc.todo, Query)
             far == Farthest(sc.res, Query)
  <2>4. near \in Vertices /\ far \in Vertices /\ Closer(Query, far, near)
        /\ (near # far => Closer(Query, near, far))
    BY <2>1, <2>2, <2>3
  <2> HIDE DEF near, far
  <2> QED
    BY <2>4, QueryIsPoint, CloserOrder
<1>2. Reachable(x) \subseteq sc.seen
  BY <1>1, ReachableClosed DEF ExactScan
<1> QED
  BY <1>2 DEF ExactScan

LEMMA SameReach == UNCHANGED graph => \A x : Reachable(x)' = Reachable(x)
<1> SUFFICES ASSUME UNCHANGED graph, NEW x PROVE Reaches(edges', deleted', x)[Size] = Reaches(edges, deleted, x)[Size]
  BY ReachableIs
<1> QED
  BY DEF graph

LEMMA SameLive == UNCHANGED graph => \A v, l : LiveNeighbours(v, l)' = LiveNeighbours(v, l)
  BY DEF graph, LiveNeighbours

\* The steps of a search change nothing that it looks at.
LEMMA GoesExact ==
    ASSUME IInv, ExactAll, NEW s \in Searches, NEW r, Goes(s, r), Exact(r)
    PROVE  ExactAll'
<1>1. UNCHANGED <<graph, entry, w, ops>> /\ search' = [search EXCEPT ![s] = r]
  BY DEF Goes
<1>2. \A y \in Searches : search'[y] = IF y = s THEN r ELSE search[y]
  BY <1>1, Parts DEF SearchesInv
<1>3. (\A x : Reachable(x)' = Reachable(x)) /\ (\A v, l : LiveNeighbours(v, l)' = LiveNeighbours(v, l))
  BY <1>1, SameReach, SameLive
<1>4. ASSUME NEW y \in Searches PROVE Exact(search[y])'
  <2>1. Exact(search'[y])
    BY <1>2 DEF ExactAll
  <2>2. Exact(search[y])' <=> Exact(search'[y])
    BY <1>1, <1>3 DEF Exact, ExactScan
  <2> QED
    BY <2>1, <2>2
<1> QED
  BY <1>4 DEF ExactAll

LEMMA SearchStepExact ==
    ASSUME IInv, ExactAll, NEW s \in Searches, SearchStep(s)
    PROVE  ExactAll'
<1> DEFINE r == search[s]
<1>0. GraphInv /\ SearchAll(r) /\ Exact(r) /\ ops \in Nat
  BY Parts, HnswAssumption DEF SearchesInv, ExactAll, GraphInv
<1>1. CASE StartSearch(s)
  <2> DEFINE calm == IF w = Idle THEN ops ELSE 0 - 1
             none == [pc |-> "done", gone |-> deleted, first |-> None, from |-> None,
                      calm |-> calm, result |-> {}]
             some == [pc |-> "greedy", gone |-> deleted, first |-> entry, at |-> entry,
                      l |-> level[entry], calm |-> calm]
  <2>1. calm \in Int /\ calm <= ops /\ (calm = ops => w = Idle)
    BY <1>0
  <2>2. entry = None => Goes(s, none)
    BY <1>1 DEF StartSearch
  <2>3. entry # None => Goes(s, some)
    BY <1>1 DEF StartSearch
  <2> HIDE DEF calm
  <2>4. Exact(none) /\ Exact(some)
    BY <2>1 DEF Exact
  <2> HIDE DEF none, some
  <2> QED
    BY <2>2, <2>3, <2>4, GoesExact
<1>2. CASE SearchGreedy(s)
  <2> DEFINE next == CloserNeighbours(Query, r.at, r.l)
             t1 == [pc |-> "scan", gone |-> r.gone, first |-> r.first,
                    from |-> r.at, calm |-> r.calm, sc |-> ScanFrom(r.at)]
             t2 == [r EXCEPT !.at = Closest(next, Query)]
             t3 == [r EXCEPT !.l = r.l - 1]
  <2>1. /\ r.pc = "greedy"
        /\ r \in [pc : {"greedy"}, gone : SUBSET Vertices, first : Vertices, at : Vertices,
                  l : Levels, calm : Int]
        /\ r.calm \in Int /\ r.calm <= ops /\ (r.calm = ops => w = Idle) /\ r.l \in Nat
    BY <1>0, <1>2, LevelFacts DEF SearchGreedy, SearchAll, SearchOK, NotStarted, Exact
  <2>2. Goes(s, t1) \/ Goes(s, t2) \/ Goes(s, t3)
    BY <1>2, <2>1 DEF SearchGreedy
  <2>3. ExactScan(ScanFrom(r.at), r.at)
    <3>1. r.at \in Vertices
      BY <2>1
    <3>2. r.at \in Reachable(r.at)
      BY <1>0, <3>1, ReachableClosed
    <3> QED
      BY <3>2 DEF ExactScan, ScanFrom
  <2>4. Exact(t1)
    BY <2>1, <2>3 DEF Exact
  <2>5. Exact(t2) /\ Exact(t3)
    <3>1. t2.pc = "greedy" /\ t3.pc = "greedy" /\ t2.calm = r.calm /\ t3.calm = r.calm
      BY <2>1
    <3> HIDE DEF t2, t3
    <3> QED
      BY <2>1, <3>1 DEF Exact
  <2> HIDE DEF t1, t2, t3
  <2> QED
    BY <2>2, <2>4, <2>5, GoesExact
<1>3. CASE SearchScan(s)
  <2>1. /\ r.pc = "scan"
        /\ r \in [pc : {"scan"}, gone : SUBSET Vertices, first : Vertices, from : Vertices,
                  calm : Int, sc : Scans]
        /\ ScanOK(r.sc) /\ r.from \in Vertices /\ r.sc \in Scans
        /\ r.calm \in Int /\ r.calm <= ops /\ (r.calm = ops => w = Idle)
        /\ r.calm = ops /\ Beam >= Cardinality(Vertices) => ExactScan(r.sc, r.from)
    BY <1>0, <1>3 DEF SearchScan, SearchAll, SearchOK, SearchInv, NotStarted, Exact
  <2>2. CASE Scanned(r.sc, Query)
    <3> DEFINE t == [pc |-> "done", gone |-> r.gone, first |-> r.first, from |-> r.from,
                     calm |-> r.calm, result |-> Nearest(K, r.sc.res, Query)]
    <3>1. Goes(s, t)
      BY <1>3, <2>2 DEF SearchScan
    <3>2. r.calm = ops /\ Beam >= Cardinality(Vertices) => r.sc.res = Reachable(r.from)
      BY <1>0, <2>1, <2>2, ScannedAll
    <3>3. Exact(t)
      BY <2>1, <3>2 DEF Exact
    <3> HIDE DEF t
    <3> QED
      BY <3>1, <3>3, GoesExact
  <2>3. CASE ~Scanned(r.sc, Query)
    <3>1. PICK sc \in ScanRound(r.sc, Query, 0, Beam) : Goes(s, [r EXCEPT !.sc = sc])
      BY <1>3, <2>3 DEF SearchScan
    <3> DEFINE t == [r EXCEPT !.sc = sc]
    <3>2. r.calm = ops /\ Beam >= Cardinality(Vertices) => ExactScan(sc, r.from)
      BY <1>0, <2>1, <2>3, RoundExact
    <3>3. t.pc = "scan" /\ t.calm = r.calm /\ t.from = r.from /\ t.sc = sc
      BY <2>1
    <3>4. Goes(s, t)
      BY <3>1
    <3> HIDE DEF t
    <3>5. Exact(t)
      BY <2>1, <3>2, <3>3 DEF Exact
    <3> QED
      BY <3>4, <3>5, GoesExact
  <2> QED
    BY <2>2, <2>3
<1> QED
  BY <1>1, <1>2, <1>3 DEF SearchStep

\* A change that begins ends the calm of the searches under way; while one is under way,
\* no search is calm.
LEMMA DisturbedExact ==
    ASSUME ExactAll, search' = search, ops \in Nat,
           \/ ops' = ops + 1
           \/ ops' = ops /\ w # Idle
    PROVE  ExactAll'
<1> SUFFICES ASSUME NEW s \in Searches PROVE Exact(search[s])'
  BY DEF ExactAll
<1>1. Exact(search[s]) /\ search'[s] = search[s]
  BY DEF ExactAll
<1>2. search[s].pc \in {"greedy", "scan", "done"} =>
        search[s].calm \in Int /\ search[s].calm <= ops' /\ search[s].calm # ops'
  BY <1>1 DEF Exact
<1> QED
  BY <1>1, <1>2 DEF Exact

LEMMA NextExact == IInv /\ ExactAll /\ [Next]_vars => ExactAll'
<1> SUFFICES ASSUME IInv, ExactAll, [Next]_vars PROVE ExactAll'
  OBVIOUS
<1>0. ops \in Nat /\ GraphInv
  BY Parts, HnswAssumption DEF GraphInv
<1>1. ASSUME NEW v \in Vertices, InsertFirst(v) \/ Remove(v) \/ \E lv \in Levels : Insert(v, lv)
      PROVE  ExactAll'
  <2>1. search' = search /\ ops' = ops + 1
    BY <1>1 DEF InsertFirst, Remove, Insert, Begin
  <2> QED
    BY <1>0, <2>1, DisturbedExact
<1>2. CASE \/ InsertGreedy \/ InsertScan \/ LinkOut \/ LinkBack \/ Prune \/ FinishInsert
           \/ ReplaceEntry \/ Unlink
  <2>1. search' = search /\ ops' = ops
    BY <1>2 DEF InsertGreedy, InsertScan, LinkOut, LinkBack, Prune, FinishInsert, ReplaceEntry, Unlink
  <2>2. w.op # "idle"
    BY <1>2 DEF InsertGreedy, InsertScan, LinkOut, LinkBack, Prune, FinishInsert, ReplaceEntry, Unlink
  <2>3. w # Idle
    BY <2>2 DEF Idle
  <2> QED
    BY <1>0, <2>1, <2>3, DisturbedExact
<1>3. CASE Reload
  <2>1. \A s \in Searches : search'[s] = NotStarted
    BY <1>3 DEF Reload
  <2> QED
    BY <2>1 DEF ExactAll, Exact, NotStarted
<1>4. ASSUME NEW s \in Searches, SearchStep(s) PROVE ExactAll'
  BY <1>4, SearchStepExact
<1>5. CASE UNCHANGED vars
  <2>1. (\A x : Reachable(x)' = Reachable(x)) /\ (\A v, l : LiveNeighbours(v, l)' = LiveNeighbours(v, l))
    BY <1>5, SameReach, SameLive DEF vars, graph
  <2>2. search' = search /\ w' = w /\ ops' = ops
    BY <1>5 DEF vars
  <2>3. ASSUME NEW s \in Searches PROVE Exact(search[s])'
    <3>1. Exact(search[s])
      BY DEF ExactAll
    <3>2. Exact(search[s])' <=> Exact(search[s])
      BY <2>1, <2>2 DEF Exact, ExactScan
    <3> QED
      BY <3>1, <3>2
  <2> QED
    BY <2>3 DEF ExactAll
<1> QED
  BY <1>1, <1>2, <1>3, <1>4, <1>5 DEF Next

LEMMA ExactIsExact == ExactAll => SearchExact
  BY DEF ExactAll, Exact, SearchExact

\* A search with a beam for all vertices, in whose course nothing changes, returns the K
\* closest of all that can be reached from where its greedy descent ends: the bound at which
\* searchLevel stops loses none, in whatever order it visits the neighbours.
THEOREM SearchFindsNearest == Spec => []SearchExact
<1>1. Init => ExactAll
  BY DEF Init, ExactAll, Exact, NotStarted
<1> QED
  BY <1>1, InitInvariant, NextInvariant, NextExact, ExactIsExact, PTL DEF Spec

\* A snapshot that is taken while the entrypoint is an item of the index is loaded as an
\* index in which a search reaches the same items (hnsw_persistence.go, Save and Load).
THEOREM ReloadedReaches == Spec => ReloadKeepsReach
<1>1. Init => IdsDistinct
  BY DEF Init, IdsDistinct
<1>2. IInv /\ IdsDistinct /\ [Next]_vars =>
        [Reload /\ entry \in stored => entry' = entry /\ Reachable(entry)' = Reachable(entry)]_vars
  BY ReloadReaches
<1> QED
  BY <1>1, <1>2, InitInvariant, NextInvariant, IdsStayDistinct, PTL DEF Spec, ReloadKeepsReach
=============================================================================
