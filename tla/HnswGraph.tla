------------------------------ MODULE HnswGraph ------------------------------
(***************************************************************************)
(* The graph of the HNSW index (index/hnsw.go, hnsw_vertex.go) and what    *)
(* becomes of it in a snapshot (hnsw_persistence.go).                      *)
(*                                                                         *)
(* Changes are made by one writer, the run loop of the partition's raft    *)
(* group; searches run beside it.  A step is what happens under one lock   *)
(* of a vertex's edges, or one atomic operation.  Vectors are points of a  *)
(* line, so that a distance is a difference; no two distances from a point *)
(* are equal.  The search algorithm is the default one, Simple.            *)
(*                                                                         *)
(* A vertex is an object of the heap: an update removes the vertex of an   *)
(* item and inserts another with the same id.                              *)
(***************************************************************************)
EXTENDS Integers, FiniteSets

CONSTANTS
    Vertices,           \* the vertex objects
    IdOf, Position,     \* the id and the vector of each
    Levels,             \* the levels a vertex may be given
    M, MMax, MMax0,     \* neighbours linked by an insert, kept at a level above 0, at level 0
    EfConstruction, Ef, \* the beam of an insert's and of a search's scan
    Searches,           \* the concurrent searches
    Query, K,           \* what they look for, and how many items they want
    MaxOps,             \* bound: the number of changes
    None

ASSUME HnswAssumption ==
    /\ IsFiniteSet(Vertices) /\ None \notin Vertices
    /\ Position \in [Vertices -> Int] /\ Query \in Int
    /\ {M, MMax, MMax0, EfConstruction, Ef, K} \subseteq Nat \ {0}
    /\ M <= MMax /\ M <= MMax0
    /\ Levels \subseteq Nat /\ 0 \in Levels
    /\ \A l \in Levels : 0..l \subseteq Levels
    /\ MaxOps \in Nat

VARIABLES
    stored,     \* the vertices in the map from ids to vertices
    deleted,    \* those marked as deleted
    level,      \* [Vertices -> Levels]
    edges,      \* [Vertices -> [Levels -> SUBSET Vertices]]
    entry,      \* the entrypoint, or None
    w,          \* the change under way
    search,     \* [Searches -> the search under way]
    ops         \* the number of changes begun

graph == <<stored, deleted, level, edges>>
vars == <<stored, deleted, level, edges, entry, w, search, ops>>

Dist(x, y) == IF x < y THEN y - x ELSE x - y
Closer(q, u, v) == Dist(q, Position[u]) < Dist(q, Position[v])

ASSUME NoTies ==
    \A q \in {Query} \cup {Position[v] : v \in Vertices} :
        \A u, v \in Vertices : u # v => Dist(q, Position[u]) # Dist(q, Position[v])

NoEdges == [l \in Levels |-> {}]
MMaxAt(l) == IF l = 0 THEN MMax0 ELSE MMax

\* The k vertices of S that are closest to q.
Nearest(k, S, q) == {v \in S : Cardinality({u \in S : Closer(q, u, v)}) < k}

\* The vertex of S, which is not empty, that is closest to q; the one farthest from it.
Closest(S, q) == CHOOSE v \in S : \A u \in S \ {v} : Closer(q, v, u)
Farthest(S, q) == CHOOSE v \in S : \A u \in S \ {v} : Closer(q, u, v)

LiveNeighbours(v, l) == edges[v][l] \ deleted

-----------------------------------------------------------------------------
(***************************************************************************)
(* The two loops that inserts and searches share.                          *)
(***************************************************************************)
\* greedyClosestNeighbor: where to go from x.
CloserNeighboursAny(q, x, l) == LiveNeighbours(x, l)                           \* mutant
CloserNeighbours(q, x, l) == {n \in LiveNeighbours(x, l) : Closer(q, n, x)}

\* searchLevel begins with the vertex it is given, whatever has become of it.
ScanFrom(x) == [res |-> {x}, todo |-> {x}, seen |-> {x}]

Scanned(sc, q) ==
    sc.todo = {} \/ Closer(q, Farthest(sc.res, q), Closest(sc.todo, q))

(***************************************************************************)
(* One round of searchLevel takes the closest candidate.  Its neighbours   *)
(* come in the order of a Go map, any order: the first of them fill the    *)
(* room that is left in the results, of the others only those are taken    *)
(* that are closer than the farthest result was before the round.          *)
(***************************************************************************)
ScanRoundNotMarked(sc, q, l, ef) ==    \* mutant
    LET c == Closest(sc.todo, q)
        fresh == edges[c][l] \ sc.seen
    IN  {[res |-> Nearest(ef, sc.res \cup fresh, q),
          todo |-> (sc.todo \ {c}) \cup fresh,
          seen |-> sc.seen \cup fresh]}
ScanRoundClosestOnly(sc, q, l, ef) ==    \* mutant
    LET c == Closest(sc.todo, q)
        fresh == {n \in LiveNeighbours(c, l) \ sc.seen : Closer(q, n, Farthest(sc.res, q))}
    IN  {[res |-> Nearest(ef, sc.res \cup fresh, q),
          todo |-> (sc.todo \ {c}) \cup fresh,
          seen |-> sc.seen \cup fresh]}
ScanRound(sc, q, l, ef) ==
    LET c == Closest(sc.todo, q)
        bound == Farthest(sc.res, q)
        fresh == LiveNeighbours(c, l) \ sc.seen
        room == ef - Cardinality(sc.res)
        Fills(F) == \/ Cardinality(F) = room
                    \/ Cardinality(F) < room /\ F = fresh
        Taken(F) == F \cup {n \in fresh : Closer(q, n, bound)}
    IN  {[res |-> Nearest(ef, sc.res \cup Taken(F), q),
          todo |-> (sc.todo \ {c}) \cup Taken(F),
          seen |-> sc.seen \cup fresh] : F \in {F \in SUBSET fresh : Fills(F)}}

-----------------------------------------------------------------------------
(***************************************************************************)
(* The writer: Insert.                                                     *)
(***************************************************************************)
Idle == [op |-> "idle"]

Fresh(v) == v \notin stored \cup deleted
IdFree(v) == \A u \in stored : IdOf[u] # IdOf[v]

Begin == w = Idle /\ ops < MaxOps /\ ops' = ops + 1

\* The first vertex becomes the entrypoint, at level 0 whatever level it was given.
InsertFirst(v) ==
    /\ Begin /\ Fresh(v) /\ IdFree(v)
    /\ entry = None
    /\ stored' = stored \cup {v}
    /\ level' = [level EXCEPT ![v] = 0]
    /\ entry' = v
    /\ UNCHANGED <<deleted, edges, w, search>>

Insert(v, lv) ==
    /\ Begin /\ Fresh(v) /\ IdFree(v)
    /\ entry # None
    /\ stored' = stored \cup {v}
    /\ level' = [level EXCEPT ![v] = lv]
    /\ w' = [op |-> "greedy", v |-> v, at |-> entry, l |-> level[entry]]
    /\ UNCHANGED <<deleted, edges, entry, search>>

\* Above the new vertex's own level only the closest vertex is looked for.
InsertGreedy ==
    /\ w.op = "greedy"
    /\ LET q == Position[w.v]
           next == CloserNeighbours(q, w.at, w.l)
       IN  w' = CASE w.l <= level[w.v] ->
                         [op |-> "scan", v |-> w.v, l |-> w.l, sc |-> ScanFrom(w.at)]
                  [] w.l > level[w.v] /\ next # {} -> [w EXCEPT !.at = Closest(next, q)]
                  [] w.l > level[w.v] /\ next = {} -> [w EXCEPT !.l = w.l - 1]
    /\ UNCHANGED <<graph, entry, search, ops>>

InsertScan ==
    /\ w.op = "scan"
    /\ LET q == Position[w.v]
       IN  IF Scanned(w.sc, q)
           THEN w' = [op |-> "out", v |-> w.v, l |-> w.l, left |-> Nearest(M, w.sc.res, q)]
           ELSE \E sc \in ScanRound(w.sc, q, w.l, EfConstruction) : w' = [w EXCEPT !.sc = sc]
    /\ UNCHANGED <<graph, entry, search, ops>>

\* The neighbours are linked from the farthest to the closest: first the edge to one ...
LinkOut ==
    /\ w.op = "out"
    /\ LET n == Farthest(w.left, Position[w.v])
       IN  /\ edges' = [edges EXCEPT ![w.v][w.l] = @ \cup {n}]
           /\ w' = [op |-> "back", v |-> w.v, l |-> w.l, left |-> w.left \ {n}, n |-> n]
    /\ UNCHANGED <<stored, deleted, level, entry, search, ops>>

\* ... then the edge from it, ...
LinkBack ==
    /\ w.op = "back"
    /\ edges' = [edges EXCEPT ![w.n][w.l] = @ \cup {w.v}]
    /\ w' = [w EXCEPT !.op = "prune"]
    /\ UNCHANGED <<stored, deleted, level, entry, search, ops>>

\* pruneNeighbors: the closest of those that are not deleted.
Pruned(v, l) == Nearest(MMaxAt(l), LiveNeighbours(v, l), Position[v])

\* After the last neighbour, the closest one, the next level begins at it.
AfterPrune ==
    CASE w.left # {} -> [op |-> "out", v |-> w.v, l |-> w.l, left |-> w.left]
      [] w.left = {} /\ w.l > 0 ->
             [op |-> "scan", v |-> w.v, l |-> w.l - 1, sc |-> ScanFrom(w.n)]
      [] w.left = {} /\ w.l = 0 -> [op |-> "finish", v |-> w.v]

\* ... which is pruned when it has too many.
PruneNever ==    \* mutant
    /\ w.op = "prune"
    /\ edges' = edges
    /\ w' = AfterPrune
    /\ UNCHANGED <<stored, deleted, level, entry, search, ops>>
Prune ==
    /\ w.op = "prune"
    /\ edges' = IF Cardinality(edges[w.n][w.l]) > MMaxAt(w.l)
                THEN [edges EXCEPT ![w.n][w.l] = Pruned(w.n, w.l)]
                ELSE edges
    /\ w' = AfterPrune
    /\ UNCHANGED <<stored, deleted, level, entry, search, ops>>

FinishInsert ==
    /\ w.op = "finish"
    /\ entry' = IF level[w.v] > level[entry] THEN w.v ELSE entry
    /\ w' = Idle
    /\ UNCHANGED <<graph, search, ops>>

-----------------------------------------------------------------------------
(***************************************************************************)
(* The writer: Remove.                                                     *)
(***************************************************************************)
Remove(v) ==
    /\ Begin
    /\ v \in stored
    /\ stored' = stored \ {v}
    /\ deleted' = deleted \cup {v}
    /\ w' = [op |-> IF entry = v THEN "entry" ELSE "unlink", v |-> v]
    /\ UNCHANGED <<level, edges, entry, search>>

\* The next entrypoint is the closest neighbour at the highest level that has one;
\* whether it is itself deleted is not looked at.
NextEntry(v) ==
    LET linked == {l \in 0..level[v] : edges[v][l] # {}}
        top == CHOOSE l \in linked : \A k \in linked : k <= l
    IN  IF linked = {} THEN None ELSE Closest(edges[v][top], Position[v])

ReplaceEntry ==
    /\ w.op = "entry"
    /\ entry' = NextEntry(w.v)
    /\ w' = [w EXCEPT !.op = "unlink"]
    /\ UNCHANGED <<graph, search, ops>>

(***************************************************************************)
(* The neighbours of the removed vertex drop it, and what else they have   *)
(* of deleted neighbours; one that it has no edge to keeps its edge.  This *)
(* is one step for all neighbours: only edges to deleted vertices go,      *)
(* which no search follows.                                                *)
(***************************************************************************)
Unlink ==
    /\ w.op = "unlink"
    /\ edges' = [x \in Vertices |-> [l \in Levels |->
                    IF x \in edges[w.v][l]
                    THEN Nearest(MMaxAt(l), LiveNeighbours(x, l) \ {w.v}, Position[x])
                    ELSE edges[x][l]]]
    /\ w' = Idle
    /\ UNCHANGED <<stored, deleted, level, entry, search, ops>>

-----------------------------------------------------------------------------
(***************************************************************************)
(* The process ends after a snapshot and starts from it.  Save writes the  *)
(* id of the entrypoint, the vertices of the map, and their edges to       *)
(* vertices that are not deleted; without an entrypoint it fails, and of   *)
(* an empty index it writes nothing.  Load looks the entrypoint up by its  *)
(* id: it is nil when that id is not in the map.                           *)
(***************************************************************************)
LoadedEntry ==
    IF \E u \in stored : IdOf[u] = IdOf[entry]
    THEN CHOOSE u \in stored : IdOf[u] = IdOf[entry]
    ELSE None

NotStarted == [pc |-> "idle"]

LoadedEdgesBothWays ==    \* mutant
    [v \in Vertices |-> [l \in Levels |->
        IF v \in stored THEN {n \in LiveNeighbours(v, l) : v \in edges[n][l]} ELSE {}]]
LoadedEdges ==
    [v \in Vertices |-> [l \in Levels |-> IF v \in stored THEN LiveNeighbours(v, l) ELSE {}]]

Reload ==
    /\ Begin
    /\ stored # {} /\ entry # None
    /\ deleted' = {}
    /\ level' = [v \in Vertices |-> IF v \in stored THEN level[v] ELSE 0]
    /\ edges' = LoadedEdges
    /\ entry' = LoadedEntry
    /\ search' = [s \in Searches |-> NotStarted]
    /\ UNCHANGED <<stored, w>>

-----------------------------------------------------------------------------
(***************************************************************************)
(* A search.  It remembers, for the properties alone, what had been        *)
(* deleted before it began (gone), its entrypoint (first), and the number  *)
(* of changes begun if none was under way (calm).                          *)
(***************************************************************************)
Goes(s, r) == search' = [search EXCEPT ![s] = r] /\ UNCHANGED <<graph, entry, w, ops>>

StartSearch(s) ==
    /\ search[s] = NotStarted
    /\ LET calm == IF w = Idle THEN ops ELSE 0 - 1
       IN  IF entry = None
           THEN Goes(s, [pc |-> "done", gone |-> deleted, first |-> None, from |-> None,
                         calm |-> calm, result |-> {}])
           ELSE Goes(s, [pc |-> "greedy", gone |-> deleted, first |-> entry, at |-> entry,
                         l |-> level[entry], calm |-> calm])

SearchGreedy(s) ==
    LET r == search[s] IN
    /\ r.pc = "greedy"
    /\ LET next == CloserNeighbours(Query, r.at, r.l)
       IN  Goes(s, CASE r.l = 0 -> [pc |-> "scan", gone |-> r.gone, first |-> r.first,
                                     from |-> r.at, calm |-> r.calm, sc |-> ScanFrom(r.at)]
                     [] r.l > 0 /\ next # {} -> [r EXCEPT !.at = Closest(next, Query)]
                     [] r.l > 0 /\ next = {} -> [r EXCEPT !.l = r.l - 1])

Beam == IF Ef > K THEN Ef ELSE K

SearchScan(s) ==
    LET r == search[s] IN
    /\ r.pc = "scan"
    /\ IF Scanned(r.sc, Query)
       THEN Goes(s, [pc |-> "done", gone |-> r.gone, first |-> r.first, from |-> r.from,
                     calm |-> r.calm, result |-> Nearest(K, r.sc.res, Query)])
       ELSE \E sc \in ScanRound(r.sc, Query, 0, Beam) : Goes(s, [r EXCEPT !.sc = sc])

SearchStep(s) == StartSearch(s) \/ SearchGreedy(s) \/ SearchScan(s)

-----------------------------------------------------------------------------
Init ==
    /\ stored = {} /\ deleted = {}
    /\ level = [v \in Vertices |-> 0]
    /\ edges = [v \in Vertices |-> NoEdges]
    /\ entry = None
    /\ w = Idle
    /\ search = [s \in Searches |-> NotStarted]
    /\ ops = 0

Next ==
    \/ \E v \in Vertices : InsertFirst(v) \/ Remove(v)
    \/ \E v \in Vertices, lv \in Levels : Insert(v, lv)
    \/ InsertGreedy \/ InsertScan
    \/ LinkOut \/ LinkBack \/ Prune \/ FinishInsert
    \/ ReplaceEntry \/ Unlink
    \/ Reload
    \/ \E s \in Searches : SearchStep(s)

Spec == Init /\ [][Next]_vars

\* Goroutines are scheduled: a search goes on.  The writer need not.
FairSpec == Spec /\ \A s \in Searches : WF_vars(SearchStep(s))

-----------------------------------------------------------------------------
Scans ==
    [res : SUBSET Vertices, todo : SUBSET Vertices, seen : SUBSET Vertices]

ChangeOK ==
    \/ w = Idle
    \/ w \in [op : {"greedy"}, v : Vertices, at : Vertices, l : Levels]
    \/ w \in [op : {"scan"}, v : Vertices, l : Levels, sc : Scans]
    \/ w \in [op : {"out"}, v : Vertices, l : Levels, left : SUBSET Vertices]
    \/ w \in [op : {"back", "prune"}, v : Vertices, l : Levels, left : SUBSET Vertices, n : Vertices]
    \/ w \in [op : {"finish", "entry", "unlink"}, v : Vertices]

SearchOK(r) ==
    \/ r = NotStarted
    \/ r \in [pc : {"greedy"}, gone : SUBSET Vertices, first : Vertices, at : Vertices,
              l : Levels, calm : Int]
    \/ r \in [pc : {"scan"}, gone : SUBSET Vertices, first : Vertices, from : Vertices,
              calm : Int, sc : Scans]
    \/ r \in [pc : {"done"}, gone : SUBSET Vertices, first : Vertices \cup {None},
              from : Vertices \cup {None}, calm : Int, result : SUBSET Vertices]

TypeOK ==
    /\ stored \subseteq Vertices /\ deleted \subseteq Vertices
    /\ level \in [Vertices -> Levels]
    /\ edges \in [Vertices -> [Levels -> SUBSET Vertices]]
    /\ entry \in Vertices \cup {None}
    /\ ChangeOK
    /\ \A s \in Searches : SearchOK(search[s])
    /\ ops \in 0..MaxOps

(***************************************************************************)
(* Every access to a vertex's edges at a level is within its array of      *)
(* levels: an index out of range would end the process of every replica.   *)
(***************************************************************************)
LevelsHeld ==
    /\ \A v \in Vertices, l \in Levels : \A n \in edges[v][l] : l <= level[v] /\ l <= level[n]
    /\ w.op = "greedy" => w.l <= level[w.at]
    /\ w.op = "scan" => \A x \in w.sc.seen \cup {w.v} : w.l <= level[x]
    /\ w.op \in {"out", "back", "prune"} => \A x \in w.left \cup {w.v} : w.l <= level[x]
    /\ w.op \in {"back", "prune"} => w.l <= level[w.n]
    /\ \A s \in Searches : search[s].pc = "greedy" => search[s].l <= level[search[s].at]

\* No vertex is its own neighbour, which would count against its neighbours.
NoSelfEdge == \A v \in Vertices, l \in Levels : v \notin edges[v][l]

\* No vertex has more neighbours than its level allows, but the one that is to be pruned.
DegreesBounded ==
    \A v \in Vertices, l \in Levels :
        \/ Cardinality(edges[v][l]) <= MMaxAt(l)
        \/ /\ w.op = "prune" /\ v = w.n /\ l = w.l
           /\ Cardinality(edges[v][l]) = MMaxAt(l) + 1

\* What is linked or entered at has been stored: nothing leads to a vertex that never was.
NoDangling ==
    /\ \A v \in Vertices, l \in Levels : edges[v][l] \subseteq stored \cup deleted
    /\ entry # None => entry \in stored \cup deleted

\* The graph is well formed at every step of a change, whatever its history of inserts,
\* removals and restarts (index/hnsw.go, Insert, Remove and pruneNeighbors).
GraphOK == TypeOK /\ LevelsHeld /\ NoSelfEdge /\ DegreesBounded /\ NoDangling

(***************************************************************************)
(* A search finds no item that was removed before it began, save one: the  *)
(* entrypoint it began at, which nothing checks (searchLevel).             *)
(***************************************************************************)
OnlyEntrypointStale ==
    \A s \in Searches :
        search[s].pc = "done" => search[s].result \cap search[s].gone \subseteq {search[s].first}

\* What a search at level 0 that begins at x can reach.
Reachable(x) ==
    LET reach[n \in 0..Cardinality(Vertices)] ==
            IF n = 0 THEN {x}
            ELSE reach[n - 1] \cup UNION {LiveNeighbours(v, 0) : v \in reach[n - 1]}
    IN  reach[Cardinality(Vertices)]

(***************************************************************************)
(* A search with a beam for all vertices, in whose course nothing changes, *)
(* returns the K closest of the items that can be reached from where its   *)
(* greedy descent ends: the bound at which a scan stops loses none.        *)
(***************************************************************************)
SearchExact ==
    \A s \in Searches :
        /\ search[s].pc = "done"
        /\ search[s].calm = ops /\ w = Idle
        /\ search[s].from # None
        /\ Beam >= Cardinality(Vertices)
        => search[s].result = Nearest(K, Reachable(search[s].from), Query)

(***************************************************************************)
(* A snapshot taken while the entrypoint is an item of the index is loaded *)
(* as an index in which a search reaches the same items.  (While it is     *)
(* not, the loaded index has no entrypoint, or the vertex that replaced    *)
(* it.)                                                                    *)
(***************************************************************************)
ReloadKeepsReach ==
    [][Reload /\ entry \in stored => entry' = entry /\ Reachable(entry)' = Reachable(entry)]_vars

\* A search returns however the graph changes under it: it goes round no cycle of the graph.
SearchReturns ==
    \A s \in Searches : search[s].pc \in {"greedy", "scan"} ~> search[s].pc \in {"done", "idle"}

(***************************************************************************)
(* A search that begins while no change is under way finds no item that    *)
(* has been removed (index/hnsw_test.go, TestHnswSearchLevelWithDeleted-   *)
(* Vertices: the expected result leaves out every deleted vertex).         *)
(***************************************************************************)
NoRemovedItemFound ==
    \A s \in Searches :
        search[s].pc = "done" /\ search[s].calm >= 0 => search[s].result \cap search[s].gone = {}
=============================================================================
