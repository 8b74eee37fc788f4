--------------------------- MODULE PartitionChange ---------------------------
(***************************************************************************)
(* What a committed change does to the index of a partition: process and   *)
(* its six handlers in storage/partition.go, over an index that is a map   *)
(* from id to item (index/hnsw.go stores and removes vertices by id).      *)
(*                                                                         *)
(* An item is its value and its metadata.  Its level and its edges are not *)
(* part of it: they are decided at each replica by its own graph (Insert   *)
(* gives level 0 where the entrypoint is nil, and walks a Go map), and are *)
(* the subject of HnswGraph.  A value has the dimension of its dataset:    *)
(* Dataset's methods check it before anything is proposed; the RPC that    *)
(* hands a part of a batch to a replica does not check it again.           *)
(***************************************************************************)
EXTENDS Naturals, FiniteSets, SequencesExt

CONSTANTS
    Ids,        \* item ids
    BadIds,     \* bytes in a batch that are not the bytes of an id
    MetaKeys,   \* metadata keys
    Calls,      \* client calls; a call's value is the call itself
    NoItem,     \* the value of an id that the index does not hold
    MaxBatch    \* how many items a batch may have (a bound)

Item == [value : Calls, meta : SUBSET MetaKeys]

ASSUME ItemsAssumption ==
    /\ IsFiniteSet(Ids) /\ IsFiniteSet(MetaKeys)
    /\ Ids \cap BadIds = {}
    /\ MaxBatch \in Nat \ {0}
    /\ NoItem \notin Item

Items == [Ids -> Item \cup {NoItem}]
NoItems == [i \in Ids |-> NoItem]

Kinds == {"insert", "update", "delete"}

\* A change of one item or of a batch of items, which may name an id twice; a
\* batch of one item does what the change of one item does.  The ids of a batch
\* are bytes, which the handlers parse.
Change == [call : Calls, kind : Kinds,
           ids : UNION {[1..n -> Ids \cup BadIds] : n \in 1..MaxBatch},
           meta : SUBSET MetaKeys]

(***************************************************************************)
(* The change of one item.  An update removes the vertex and inserts it    *)
(* again; metadata that the update does not set is carried over by writing *)
(* it into the update's own map.                                           *)
(***************************************************************************)

NewItem(items, ch, i) == [value |-> ch.call, meta |-> ch.meta]

UpdatedItem(items, ch, i) == [value |-> ch.call, meta |-> ch.meta \cup items[i].meta]

\* What ends the process that applies it: bytes that are no id (the handler
\* returns an error, which is fatal to the run loop), and an update without
\* metadata of an item that has some (an empty protobuf map is decoded to nil,
\* and writing into it panics).
Kills(items, ch, i) ==
    \/ i \in BadIds
    \/ /\ i \in Ids /\ ch.kind = "update"
       /\ items[i] # NoItem /\ ch.meta = {} /\ items[i].meta # {}

\* The error of one item; "none" when its change succeeds.
ErrorOf(items, ch, i) ==
    CASE ch.kind = "insert" /\ items[i] # NoItem -> "exists"
      [] ch.kind # "insert" /\ items[i] = NoItem -> "notfound"
      [] OTHER -> "none"

ItemAfter(items, ch, i) ==
    IF ErrorOf(items, ch, i) # "none" THEN items[i]
    ELSE CASE ch.kind = "insert" -> NewItem(items, ch, i)
           [] ch.kind = "update" -> UpdatedItem(items, ch, i)
           [] ch.kind = "delete" -> NoItem

(***************************************************************************)
(* A whole change: its items one after the other.                          *)
(***************************************************************************)
\* The index before each item of the change, and at last after all of them.
Course(items, ch) ==
    LET at[k \in 1..Len(ch.ids) + 1] ==
            IF k = 1 THEN items
            ELSE LET i == ch.ids[k - 1]
                     before == at[k - 1]
                 IN  IF i \in BadIds THEN before
                     ELSE [before EXCEPT ![i] = ItemAfter(before, ch, i)]
    IN  at

\* process: the index after a change.
ItemsAfter(items, ch) == Course(items, ch)[Len(ch.ids) + 1]

\* What a proposer may be sent.
Errors == {"exists", "notfound", "none"}
Results == UNION {[S -> Errors] : S \in SUBSET Ids}

\* What is sent to the proposer: the last error of each item.
Result(items, ch) ==
    LET at == Course(items, ch)
        Failing(i) == {k \in DOMAIN ch.ids : ch.ids[k] = i /\ ErrorOf(at[k], ch, i) # "none"}
    IN  [i \in ToSet(ch.ids) \cap Ids |->
            IF Failing(i) = {} THEN "none" ELSE ErrorOf(at[Max(Failing(i))], ch, i)]

\* A change dies at its first item that kills; the items before it are then lost
\* with the process, and what comes after them is never seen.
ChangeKills(items, ch) ==
    LET at == Course(items, ch) IN \E k \in DOMAIN ch.ids : Kills(at[k], ch, ch.ids[k])

\* The index that a log of changes builds from an empty one.
Replay(changes) ==
    LET after[k \in 0..Len(changes)] ==
            IF k = 0 THEN NoItems ELSE ItemsAfter(after[k - 1], changes[k])
    IN  after[Len(changes)]
=============================================================================
