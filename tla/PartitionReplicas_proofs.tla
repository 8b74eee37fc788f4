------------------------ MODULE PartitionReplicas_proofs ------------------------
(***************************************************************************)
(* Proof, for every set of nodes, calls and items, and every batch size,   *)
(* of what the replicas of a partition keep, and that they implement one   *)
(* index that is changed by one call at a time (IndexService).             *)
(***************************************************************************)
EXTENDS PartitionReplicas, SequenceTheorems, WellFoundedInduction, TLAPS

-----------------------------------------------------------------------------
(* The inductive invariant. *)

Snapshots == [idx : Nat, items : Items]

Types ==
    /\ rlog \in Seq(Change)
    /\ pending \subseteq Change
    /\ founders \subseteq Nodes
    /\ own \in [Nodes -> Seq(Change) \cup {Nothing}]
    /\ status \in [Nodes -> Statuses]
    /\ index \in [Nodes -> Items]
    /\ applied \in [Nodes -> Nat]
    /\ saved \in [Nodes -> Snapshots]
    /\ pc \in [Calls -> {"idle", "created", "proposed", "waiting", "done"}]
    /\ at \in [Calls -> Nodes]
    /\ change \in [Calls -> Change \cup {Nothing}]
    /\ reply \in [Calls -> Results \cup {Nothing, Failed, Refused}]
    /\ crashes \in 0..MaxCrashes

\* A replica's index and snapshot are those of its own log, which it has not left
\* behind, and neither is past a change that kills.
ReplicaOK(n) ==
    /\ applied[n] <= Len(Log(n)) /\ saved[n].idx <= Len(Log(n))
    /\ Loaded(n) => index[n] = Replay(SubSeq(Log(n), 1, applied[n]))
    /\ saved[n].items = Replay(SubSeq(Log(n), 1, saved[n].idx))
    /\ \A i \in 1..Len(Log(n)) : Deadly(Log(n), i) => applied[n] < i /\ saved[n].idx < i

ReplicasOK == \A n \in Nodes : ReplicaOK(n)

\* While the logs are one, a call is told a result of what is in it, and none of a
\* change that kills.
Told ==
    Intact =>
        /\ \A c \in Calls : reply[c] \notin {Nothing, Failed, Refused} =>
                              \E i \in DOMAIN rlog : rlog[i].call = c
        /\ \A i \in 1..Len(rlog) : Deadly(rlog, i) => reply[rlog[i].call] \in {Nothing, Failed}

\* A call asks for one change of its own, and a refused call for none.
CallsOK ==
    \A c \in Calls :
        /\ pc[c] # "done" => reply[c] = Nothing
        /\ pc[c] = "idle" => change[c] = Nothing
        /\ pc[c] \in {"created", "proposed", "waiting"} => change[c] # Nothing
        /\ change[c] # Nothing => change[c].call = c
        /\ reply[c] = Refused => change[c] = Nothing

\* A proposal is on its way, or committed once, or lost.
ProposedOnce ==
    /\ \A ch \in pending :
          /\ change[ch.call] = ch /\ pc[ch.call] \notin {"idle", "created"}
          /\ \A i \in DOMAIN rlog : rlog[i].call # ch.call
    /\ \A i \in DOMAIN rlog :
          change[rlog[i].call] = rlog[i] /\ pc[rlog[i].call] \notin {"idle", "created"}
    /\ \A i, j \in DOMAIN rlog : rlog[i].call = rlog[j].call => i = j

IInv == Types /\ RaftHeldInCall /\ ReplicasOK /\ Told /\ CallsOK /\ ProposedOnce

-----------------------------------------------------------------------------
(* What a change does.                                                     *)

LessThan == {r \in Nat \X Nat : r[1] < r[2]}

\* Induction, for a set of naturals.
LEMMA NatInduct ==
    ASSUME NEW S, 0 \in S, \A n \in Nat : n \in S => n + 1 \in S
    PROVE  Nat \subseteq S
<1> DEFINE T == Nat \ S
<1> SUFFICES ASSUME T # {} PROVE FALSE
  OBVIOUS
<1>1. LessThan = OpToRel(<, Nat)
  BY DEF LessThan, OpToRel
<1>2. PICK x \in T : \A y \in T : <<y, x>> \notin LessThan
  BY <1>1, NatLessThanWellFounded, WFMin
<1>3. x # 0 /\ x - 1 \in Nat /\ x - 1 \in T
  BY <1>2
<1>4. <<x - 1, x>> \in LessThan
  <2>1. <<x - 1, x>> \in Nat \X Nat /\ <<x - 1, x>>[1] < <<x - 1, x>>[2]
    BY <1>3
  <2> QED
    BY <2>1 DEF LessThan
<1> QED
  BY <1>2, <1>3, <1>4

LEMMA ChangeIs ==
    ASSUME NEW ch \in Change
    PROVE  /\ ch.call \in Calls /\ ch.kind \in Kinds /\ ch.meta \in SUBSET MetaKeys
           /\ ch.ids \in Seq(Ids \cup BadIds) /\ Len(ch.ids) \in Nat
<1>1. ch.ids \in UNION {[1..n -> Ids \cup BadIds] : n \in 1..MaxBatch}
  BY DEF Change
<1>2. PICK n \in 1..MaxBatch : ch.ids \in [1..n -> Ids \cup BadIds]
  BY <1>1
<1>3. n \in Nat
  BY <1>2, ItemsAssumption
<1>4. ch.ids \in Seq(Ids \cup BadIds) /\ Len(ch.ids) = n
  BY <1>2, <1>3
<1> QED
  BY <1>3, <1>4 DEF Change

LEMMA ItemAfterType ==
    ASSUME NEW items \in Items, NEW ch \in Change, NEW i \in Ids
    PROVE  ItemAfter(items, ch, i) \in Item \cup {NoItem}
<1>1. items[i] \in Item \cup {NoItem}
  BY DEF Items
<1>2. ch.call \in Calls /\ ch.kind \in Kinds /\ ch.meta \in SUBSET MetaKeys
  BY ChangeIs
<1>3. NewItem(items, ch, i) \in Item
  BY <1>2 DEF NewItem, Item
<1>4. items[i] # NoItem => UpdatedItem(items, ch, i) \in Item
  <2> SUFFICES ASSUME items[i] # NoItem PROVE UpdatedItem(items, ch, i) \in Item
    OBVIOUS
  <2>1. items[i].meta \in SUBSET MetaKeys
    BY <1>1 DEF Item
  <2>2. ch.meta \cup items[i].meta \in SUBSET MetaKeys
    BY <1>2, <2>1
  <2> QED
    BY <1>2, <2>2 DEF UpdatedItem, Item
<1>5. CASE ErrorOf(items, ch, i) # "none"
  <2>1. ItemAfter(items, ch, i) = items[i]
    BY <1>5 DEF ItemAfter, ErrorOf
  <2> QED
    BY <1>1, <2>1
<1>6. CASE ErrorOf(items, ch, i) = "none"
  <2>1. CASE ch.kind = "insert"
    BY <1>3, <1>6, <2>1 DEF ItemAfter
  <2>2. CASE ch.kind = "update"
    <3>1. items[i] # NoItem
      BY <1>6, <2>2 DEF ErrorOf
    <3> QED
      BY <1>4, <1>6, <2>2, <3>1 DEF ItemAfter
  <2>3. CASE ch.kind = "delete"
    BY <1>6, <2>3 DEF ItemAfter
  <2> QED
    BY <1>2, <2>1, <2>2, <2>3 DEF Kinds
<1> QED
  BY <1>5, <1>6

\* A change of an index leaves an index: by induction the recursive function of its course
\* is defined, and its values are indexes.
LEMMA CourseIs ==
    ASSUME NEW items \in Items, NEW ch \in Change
    PROVE  \A k \in 1..Len(ch.ids) + 1 : Course(items, ch)[k] \in Items
<1> DEFINE N == Len(ch.ids)
           Then(before, k) == IF ch.ids[k - 1] \in BadIds THEN before
                              ELSE [before EXCEPT ![ch.ids[k - 1]] = ItemAfter(before, ch, ch.ids[k - 1])]
           Def(f, m) == f = [k \in 1..m |-> IF k = 1 THEN items ELSE Then(f[k - 1], k)]
           S == {m \in Nat : \E f : Def(f, m + 1)}
<1>0. N \in Nat /\ ch.ids \in Seq(Ids \cup BadIds)
  BY ChangeIs
<1>1. 0 \in S
  <2>1. Def([k \in 1..1 |-> items], 0 + 1)
    OBVIOUS
  <2> QED
    BY <2>1
<1>2. ASSUME NEW m \in Nat, m \in S PROVE m + 1 \in S
  <2>1. PICK f : Def(f, m + 1)
    BY <1>2
  <2> DEFINE next == Then(f[m + 1], m + 2)
             h == [k \in 1..m + 2 |-> IF k = m + 2 THEN next ELSE f[k]]
  <2>2. ASSUME NEW k \in 1..m + 2
        PROVE  h[k] = IF k = 1 THEN items ELSE Then(h[k - 1], k)
    <3>1. CASE k = m + 2
      <4>1. h[k] = next /\ k - 1 = m + 1 /\ h[m + 1] = f[m + 1] /\ k # 1
        BY <3>1
      <4> HIDE DEF h
      <4> QED
        BY <3>1, <4>1
    <3>2. CASE k # m + 2
      <4>1. k \in 1..m + 1 /\ h[k] = f[k]
        BY <3>2
      <4>2. k # 1 => k - 1 \in 1..m + 2 /\ k - 1 # m + 2 /\ h[k - 1] = f[k - 1]
        BY <3>2
      <4>3. f[k] = IF k = 1 THEN items ELSE Then(f[k - 1], k)
        <5> HIDE DEF Then
        <5> QED
          BY <2>1, <4>1
      <4> HIDE DEF h, Then
      <4> QED
        BY <4>1, <4>2, <4>3
    <3> QED
      BY <3>1, <3>2
  <2>3. Def(h, m + 2)
    <3>1. h = [k \in 1..m + 2 |-> h[k]]
      OBVIOUS
    <3> HIDE DEF h, Then
    <3> QED
      BY <2>2, <3>1
  <2>4. \E f2 : Def(f2, m + 1 + 1)
    <3>1. m + 2 = m + 1 + 1
      OBVIOUS
    <3> HIDE DEF h, Def
    <3> QED
      BY <2>3, <3>1
  <2> HIDE DEF Def
  <2> QED
    BY <2>4
<1>3. Nat \subseteq S
  <2> HIDE DEF S
  <2> QED
    BY <1>1, <1>2, NatInduct
<1>4. \E f : Def(f, N + 1)
  BY <1>0, <1>3
<1> DEFINE course == CHOOSE f : Def(f, N + 1)
<1>5. Def(course, N + 1)
  <2> HIDE DEF Def
  <2> QED
    BY <1>4
<1>6. Course(items, ch) = course
  BY DEF Course
<1> DEFINE K == {m \in Nat : m <= N => course[m + 1] \in Items}
<1> HIDE DEF course
<1>7. 0 \in K
  <2>1. course[0 + 1] = items
    BY <1>0, <1>5
  <2> QED
    BY <2>1
<1>8. ASSUME NEW m \in Nat, m \in K PROVE m + 1 \in K
  <2> SUFFICES ASSUME m + 1 <= N PROVE course[m + 1 + 1] \in Items
    OBVIOUS
  <2>1. m + 1 \in 1..N /\ m + 1 + 1 \in 1..N + 1 /\ m + 1 + 1 # 1 /\ m + 1 + 1 - 1 = m + 1 /\ m <= N
    <3>1. \A k \in Nat : m + 1 <= k =>
            m + 1 \in 1..k /\ m + 1 + 1 \in 1..k + 1 /\ m + 1 + 1 # 1 /\ m + 1 + 1 - 1 = m + 1 /\ m <= k
      OBVIOUS
    <3> QED
      BY <1>0, <3>1
  <2>2. course[m + 1 + 1] = Then(course[m + 1], m + 1 + 1)
    <3>1. \A k \in 1..N + 1 : course[k] = IF k = 1 THEN items ELSE Then(course[k - 1], k)
      <4> HIDE DEF Then, N
      <4> QED
        BY <1>5
    <3>2. course[m + 1 + 1] = Then(course[m + 1 + 1 - 1], m + 1 + 1)
      <4> HIDE DEF Then, N
      <4> QED
        BY <2>1, <3>1
    <3> HIDE DEF Then
    <3> QED
      BY <2>1, <3>2
  <2>3. PICK before : before = course[m + 1]
    OBVIOUS
  <2>4. before \in Items
    BY <1>0, <1>8, <2>1, <2>3
  <2>5. PICK i : i = ch.ids[m + 1]
    OBVIOUS
  <2>6. i \in Ids \cup BadIds
    BY <1>0, <2>1, <2>5
  <2>7. course[m + 1 + 1] = IF i \in BadIds THEN before ELSE [before EXCEPT ![i] = ItemAfter(before, ch, i)]
    BY <2>1, <2>2, <2>3, <2>5
  <2>8. CASE i \in BadIds
    BY <2>4, <2>7, <2>8
  <2>9. CASE i \notin BadIds
    <3>1. ItemAfter(before, ch, i) \in Item \cup {NoItem}
      BY <2>4, <2>6, <2>9, ItemAfterType
    <3> QED
      BY <2>4, <2>6, <2>7, <2>9, <3>1 DEF Items
  <2> QED
    BY <2>8, <2>9
<1>9. Nat \subseteq K
  <2> HIDE DEF K
  <2> QED
    BY <1>7, <1>8, NatInduct
<1>10. ASSUME NEW k \in 1..N + 1 PROVE course[k] \in Items
  <2>1. k - 1 \in Nat /\ k - 1 <= N /\ k - 1 + 1 = k
    BY <1>0
  <2>2. course[k - 1 + 1] \in Items
    BY <1>9, <2>1
  <2> QED
    BY <2>1, <2>2
<1> QED
  BY <1>6, <1>10

LEMMA ItemsAfterType ==
    ASSUME NEW items \in Items, NEW ch \in Change
    PROVE  ItemsAfter(items, ch) \in Items
<1>1. Len(ch.ids) + 1 \in 1..Len(ch.ids) + 1
  BY ChangeIs
<1> QED
  BY <1>1, CourseIs DEF ItemsAfter

LEMMA NoItemsType == NoItems \in Items
  BY DEF NoItems, Items

LEMMA ResultType ==
    ASSUME NEW items, NEW ch \in Change
    PROVE  Result(items, ch) \in Results
<1>1. \A x, i : ErrorOf(x, ch, i) \in Errors
  BY DEF ErrorOf, Errors
<1>2. ToSet(ch.ids) \cap Ids \in SUBSET Ids
  OBVIOUS
<1>3. Result(items, ch) \in [ToSet(ch.ids) \cap Ids -> Errors]
  BY <1>1 DEF Result, Errors
<1> QED
  BY <1>2, <1>3 DEF Results

-----------------------------------------------------------------------------
(* What a log builds.                                                      *)

\* The index after each part of a log.
Steps(s) ==
    LET after[k \in 0..Len(s)] == IF k = 0 THEN NoItems ELSE ItemsAfter(after[k - 1], s[k])
    IN  after

LEMMA StepsAre ==
    ASSUME NEW s, Len(s) \in Nat
    PROVE  \A k \in 0..Len(s) :
              Steps(s)[k] = IF k = 0 THEN NoItems ELSE ItemsAfter(Steps(s)[k - 1], s[k])
<1> DEFINE Def(f, m) == f = [i \in 0..m |-> IF i = 0 THEN NoItems ELSE ItemsAfter(f[i - 1], s[i])]
           S == {m \in Nat : \E f : Def(f, m)}
<1>1. 0 \in S
  <2>1. Def([i \in 0..0 |-> NoItems], 0)
    OBVIOUS
  <2> QED
    BY <2>1
<1>2. ASSUME NEW m \in Nat, m \in S PROVE m + 1 \in S
  <2>1. PICK f : Def(f, m)
    BY <1>2
  <2> DEFINE h == [i \in 0..m + 1 |-> IF i = m + 1 THEN ItemsAfter(f[m], s[m + 1]) ELSE f[i]]
  <2>2. ASSUME NEW i \in 0..m + 1
        PROVE  h[i] = IF i = 0 THEN NoItems ELSE ItemsAfter(h[i - 1], s[i])
    <3>1. CASE i = m + 1
      <4>1. h[i] = ItemsAfter(f[m], s[i]) /\ i - 1 = m /\ h[m] = f[m] /\ i # 0
        BY <3>1
      <4> QED
        BY <4>1
    <3>2. CASE i # m + 1
      <4>1. i \in 0..m /\ h[i] = f[i]
        BY <3>2
      <4>2. i # 0 => h[i - 1] = f[i - 1]
        BY <3>2
      <4>3. f[i] = IF i = 0 THEN NoItems ELSE ItemsAfter(f[i - 1], s[i])
        BY <2>1, <4>1
      <4> HIDE DEF h
      <4> QED
        BY <4>1, <4>2, <4>3
    <3> QED
      BY <3>1, <3>2
  <2>3. Def(h, m + 1)
    <3>1. h = [i \in 0..m + 1 |-> h[i]]
      OBVIOUS
    <3> HIDE DEF h
    <3> QED
      BY <2>2, <3>1
  <2>4. \E f2 : Def(f2, m + 1)
    <3> HIDE DEF h, Def
    <3> QED
      BY <2>3
  <2> HIDE DEF Def
  <2> QED
    BY <2>4
<1>3. Nat \subseteq S
  <2> HIDE DEF S
  <2> QED
    BY <1>1, <1>2, NatInduct
<1>4. \E f : Def(f, Len(s))
  BY <1>3
<1> DEFINE chosen == CHOOSE f : Def(f, Len(s))
<1>5. Def(chosen, Len(s))
  <2> HIDE DEF Def
  <2> QED
    BY <1>4
<1>6. Steps(s) = chosen
  BY DEF Steps
<1> HIDE DEF chosen
<1> QED
  BY <1>5, <1>6

LEMMA ReplayIs == \A s : Replay(s) = Steps(s)[Len(s)]
  BY DEF Replay, Steps

LEMMA ReplayNil == Replay(<<>>) = NoItems
<1>1. Len(<<>>) = 0
  OBVIOUS
<1>2. Len(<<>>) \in Nat /\ 0 \in 0..Len(<<>>)
  BY <1>1
<1>3. Steps(<<>>)[0] = NoItems
  BY <1>2, StepsAre
<1> QED
  BY <1>1, <1>3, ReplayIs

\* Two logs that begin alike build the same.
LEMMA StepsAgree ==
    ASSUME NEW s, NEW t, Len(s) \in Nat, Len(t) \in Nat, NEW k \in Nat, k <= Len(s), k <= Len(t),
           \A i \in 1..k : s[i] = t[i]
    PROVE  Steps(s)[k] = Steps(t)[k]
<1> DEFINE S == {m \in Nat : m <= k => Steps(s)[m] = Steps(t)[m]}
<1>1. 0 \in S
  <2>1. 0 \in 0..Len(s) /\ 0 \in 0..Len(t)
    OBVIOUS
  <2>2. Steps(s)[0] = NoItems /\ Steps(t)[0] = NoItems
    BY <2>1, StepsAre
  <2> QED
    BY <2>2
<1>2. ASSUME NEW m \in Nat, m \in S PROVE m + 1 \in S
  <2> SUFFICES ASSUME m + 1 <= k PROVE Steps(s)[m + 1] = Steps(t)[m + 1]
    OBVIOUS
  <2>1. /\ m + 1 \in 0..Len(s) /\ m + 1 \in 0..Len(t) /\ m + 1 \in 1..k
        /\ m + 1 # 0 /\ m + 1 - 1 = m /\ m <= k
    OBVIOUS
  <2>2. Steps(s)[m + 1] = ItemsAfter(Steps(s)[m + 1 - 1], s[m + 1])
    BY <2>1, StepsAre
  <2>3. Steps(t)[m + 1] = ItemsAfter(Steps(t)[m + 1 - 1], t[m + 1])
    BY <2>1, StepsAre
  <2>4. Steps(s)[m] = Steps(t)[m] /\ s[m + 1] = t[m + 1]
    BY <1>2, <2>1
  <2> QED
    BY <2>1, <2>2, <2>3, <2>4
<1>3. Nat \subseteq S
  <2> HIDE DEF S
  <2> QED
    BY <1>1, <1>2, NatInduct
<1> QED
  BY <1>3

LEMMA ReplayPrefix ==
    ASSUME NEW s \in Seq(Change), NEW t \in Seq(Change), NEW k \in Nat, k <= Len(s), k <= Len(t),
           \A i \in 1..k : s[i] = t[i]
    PROVE  Replay(SubSeq(s, 1, k)) = Replay(SubSeq(t, 1, k))
<1>1. SubSeq(s, 1, k) = SubSeq(t, 1, k)
  <2>1. SubSeq(s, 1, k) = [i \in 1..k |-> s[i]] /\ SubSeq(t, 1, k) = [i \in 1..k |-> t[i]]
    OBVIOUS
  <2> QED
    BY <2>1
<1> QED
  BY <1>1

\* What a log builds, one change after the other.
LEMMA ReplayNext ==
    ASSUME NEW s \in Seq(Change), NEW k \in Nat, k < Len(s)
    PROVE  Replay(SubSeq(s, 1, k + 1)) = ItemsAfter(Replay(SubSeq(s, 1, k)), s[k + 1])
<1>0. Len(s) \in Nat
  OBVIOUS
<1>1. PICK t : t = SubSeq(s, 1, k)
  OBVIOUS
<1>2. PICK u : u = SubSeq(s, 1, k + 1)
  OBVIOUS
<1>3. Len(t) = k /\ \A i \in 1..k : t[i] = s[i]
  BY <1>1
<1>4. Len(u) = k + 1 /\ \A i \in 1..k + 1 : u[i] = s[i]
  BY <1>2
<1>5. Replay(u) = Steps(u)[k + 1] /\ Replay(t) = Steps(t)[k]
  BY <1>3, <1>4, ReplayIs
<1>6. Steps(u)[k + 1] = ItemsAfter(Steps(u)[k + 1 - 1], u[k + 1])
  <2>1. k + 1 \in 0..Len(u) /\ k + 1 # 0 /\ Len(u) \in Nat
    BY <1>4
  <2> QED
    BY <2>1, StepsAre
<1>7. Steps(u)[k] = Steps(t)[k]
  <2>1. Len(t) \in Nat /\ Len(u) \in Nat /\ k <= Len(t) /\ k <= Len(u) /\ \A i \in 1..k : u[i] = t[i]
    BY <1>3, <1>4
  <2> QED
    BY <2>1, StepsAgree
<1>8. k + 1 - 1 = k /\ u[k + 1] = s[k + 1]
  BY <1>4
<1> QED
  BY <1>1, <1>2, <1>5, <1>6, <1>7, <1>8

LEMMA ReplayAppend ==
    ASSUME NEW s \in Seq(Change), NEW ch \in Change
    PROVE  Replay(Append(s, ch)) = ItemsAfter(Replay(s), ch)
<1>1. PICK t : t = Append(s, ch)
  OBVIOUS
<1>2. t \in Seq(Change) /\ Len(t) = Len(s) + 1 /\ Len(s) \in Nat /\ t[Len(s) + 1] = ch
      /\ \A i \in 1..Len(s) : t[i] = s[i]
  BY <1>1
<1>3. SubSeq(t, 1, Len(s) + 1) = t /\ SubSeq(s, 1, Len(s)) = s
  BY <1>2
<1>4. Replay(SubSeq(t, 1, Len(s) + 1)) = ItemsAfter(Replay(SubSeq(t, 1, Len(s))), t[Len(s) + 1])
  BY <1>2, ReplayNext
<1>5. Replay(SubSeq(t, 1, Len(s))) = Replay(SubSeq(s, 1, Len(s)))
  BY <1>2, ReplayPrefix
<1> QED
  BY <1>1, <1>2, <1>3, <1>4, <1>5

\* Logs that begin alike kill alike.
LEMMA LogsBeginAlike ==
    ASSUME NEW s \in Seq(Change), NEW t \in Seq(Change), NEW k \in Nat, k <= Len(s), k <= Len(t),
           \A i \in 1..k : s[i] = t[i]
    PROVE  /\ \A j \in Nat : j <= k => Replay(SubSeq(s, 1, j)) = Replay(SubSeq(t, 1, j))
           /\ \A i \in 1..k : Deadly(s, i) <=> Deadly(t, i)
<1>1. ASSUME NEW j \in Nat, j <= k PROVE Replay(SubSeq(s, 1, j)) = Replay(SubSeq(t, 1, j))
  <2>1. j <= Len(s) /\ j <= Len(t) /\ \A i \in 1..j : s[i] = t[i]
    BY <1>1
  <2> QED
    BY <2>1, ReplayPrefix
<1>2. ASSUME NEW i \in 1..k PROVE Deadly(s, i) <=> Deadly(t, i)
  <2>1. i - 1 \in Nat /\ i - 1 <= k /\ s[i] = t[i]
    OBVIOUS
  <2> QED
    BY <1>1, <2>1 DEF Deadly
<1> QED
  BY <1>1, <1>2

-----------------------------------------------------------------------------
(* The initial state, and what the steps have in common.                   *)

\* What is committed, asked and stored.
LEMMA InLog ==
    ASSUME Types
    PROVE  /\ Len(rlog) \in Nat /\ DOMAIN rlog = 1..Len(rlog)
           /\ \A i \in DOMAIN rlog : rlog[i] \in Change /\ rlog[i].call \in Calls
           /\ \A n \in Nodes : /\ applied[n] \in Nat /\ saved[n].idx \in Nat /\ saved[n].items \in Items
                               /\ index[n] \in Items
           /\ \A n \in Nodes : Log(n) \in Seq(Change) /\ Len(Log(n)) \in Nat
<1>1. rlog \in Seq(Change) /\ saved \in [Nodes -> Snapshots] /\ applied \in [Nodes -> Nat]
      /\ index \in [Nodes -> Items]
  BY DEF Types
<1>2. \A i \in DOMAIN rlog : rlog[i] \in Change
  BY <1>1
<1>3. \A n \in Nodes : Log(n) \in Seq(Change)
  BY DEF Types, Log
<1>4. \A n \in Nodes : Len(Log(n)) \in Nat
  BY <1>3
<1> QED
  BY <1>1, <1>2, <1>3, <1>4, ChangeIs DEF Snapshots

LEMMA OneLog == ASSUME Intact PROVE \A n \in Nodes : Log(n) = rlog
  BY DEF Intact, Log

LEMMA Initially == ASSUME Init PROVE IInv
<1>1. rlog = <<>> /\ rlog \in Seq(Change) /\ Len(rlog) = 0 /\ DOMAIN rlog = {} /\ pending = {}
  BY DEF Init
<1>2. NoSnapshot \in Snapshots /\ NoSnapshot.idx = 0 /\ NoSnapshot.items = NoItems
  BY NoItemsType DEF NoSnapshot, Snapshots
<1>3. /\ index = [n \in Nodes |-> NoItems] /\ applied = [n \in Nodes |-> 0]
      /\ saved = [n \in Nodes |-> NoSnapshot] /\ own = [n \in Nodes |-> Nothing]
  BY DEF Init
<1>4. Replay(SubSeq(rlog, 1, 0)) = NoItems
  <2>1. SubSeq(rlog, 1, 0) = <<>>
    BY <1>1
  <2> QED
    BY <2>1, ReplayNil
<1>5. status \in [Nodes -> {"running", "fresh"}] /\ founders \subseteq Nodes
  BY DEF Init
<1>6. Types
  <2>1. status \in [Nodes -> Statuses]
    BY <1>5 DEF Statuses
  <2>2. index \in [Nodes -> Items] /\ applied \in [Nodes -> Nat] /\ saved \in [Nodes -> Snapshots]
        /\ own \in [Nodes -> Seq(Change) \cup {Nothing}]
    BY <1>2, <1>3, NoItemsType
  <2>4. /\ pc \in [Calls -> {"idle", "created", "proposed", "waiting", "done"}]
        /\ at \in [Calls -> Nodes]
    BY DEF Init
  <2>5. change \in [Calls -> Change \cup {Nothing}]
        /\ reply \in [Calls -> Results \cup {Nothing, Failed, Refused}]
    BY DEF Init
  <2>6. crashes \in 0..MaxCrashes
    BY ReplicasAssumption DEF Init
  <2> QED
    BY <1>1, <1>5, <2>1, <2>2, <2>4, <2>5, <2>6 DEF Types
<1>7. RaftHeldInCall
  <2>1. \A c \in Calls : pc[c] = "idle"
    BY DEF Init
  <2> QED
    BY <2>1 DEF RaftHeldInCall, InCall
<1>8. ReplicasOK
  <2>1. Intact
    BY <1>3 DEF Intact
  <2>2. \A n \in Nodes : /\ Log(n) = rlog /\ applied[n] = 0 /\ saved[n].idx = 0
                         /\ saved[n].items = NoItems /\ index[n] = NoItems
    BY <1>2, <1>3, <2>1, OneLog
  <2>3. 0 <= Len(rlog) /\ 1..Len(rlog) = {}
    BY <1>1
  <2> QED
    BY <1>4, <2>2, <2>3 DEF ReplicasOK, ReplicaOK
<1>9. Told
  <2>1. \A c \in Calls : reply[c] = Nothing
    BY DEF Init
  <2>2. 1..Len(rlog) = {}
    BY <1>1
  <2> QED
    BY <2>1, <2>2 DEF Told
<1>10. CallsOK
  <2>1. \A c \in Calls : pc[c] = "idle" /\ reply[c] = Nothing /\ change[c] = Nothing
    BY DEF Init
  <2> QED
    BY <2>1, ReplicasAssumption DEF CallsOK
<1>11. ProposedOnce
  BY <1>1 DEF ProposedOnce
<1> QED
  BY <1>6, <1>7, <1>8, <1>9, <1>10, <1>11 DEF IInv

\* A replica that a step does not touch.
LEMMA ReplicaKept ==
    ASSUME NEW n \in Nodes, ReplicaOK(n), Log(n)' = Log(n),
           status'[n] = status[n] \/ ~Loaded(n)', index'[n] = index[n],
           applied'[n] = applied[n], saved'[n] = saved[n]
    PROVE  ReplicaOK(n)'
  BY DEF ReplicaOK, Loaded

\* Steps of calls and of raft's proposals leave the replicas alone.
LEMMA ReplicasKept ==
    ASSUME ReplicasOK, UNCHANGED <<rlog, own, status, index, applied, saved>>
    PROVE  ReplicasOK'
  BY ReplicaKept DEF ReplicasOK, Log

\* Steps of replicas leave the calls alone.
LEMMA CallsKept ==
    ASSUME CallsOK, ProposedOnce, UNCHANGED <<rlog, pending, pc, at, change, reply>>
    PROVE  CallsOK' /\ ProposedOnce'
  BY DEF CallsOK, ProposedOnce

\* A reply that becomes a failure, or that of a call without a change, tells nothing.
LEMMA ToldKept ==
    ASSUME Types, Told, ProposedOnce, rlog' = rlog, Intact' => Intact,
           \A c \in Calls : \/ reply'[c] = reply[c] \/ reply'[c] = Failed
                            \/ reply'[c] = Refused /\ change[c] = Nothing
    PROVE  Told'
<1> SUFFICES ASSUME Intact' PROVE
        /\ \A c \in Calls : reply'[c] \notin {Nothing, Failed, Refused} =>
                              \E i \in DOMAIN rlog : rlog[i].call = c
        /\ \A i \in 1..Len(rlog) : Deadly(rlog, i) => reply'[rlog[i].call] \in {Nothing, Failed}
  BY DEF Told
<1>1. \A c \in Calls : reply'[c] \notin {Nothing, Failed, Refused} =>
                              \E i \in DOMAIN rlog : rlog[i].call = c
  BY DEF Told
<1>2. ASSUME NEW i \in 1..Len(rlog), Deadly(rlog, i) PROVE reply'[rlog[i].call] \in {Nothing, Failed}
  <2>1. i \in DOMAIN rlog /\ rlog[i] \in Change /\ rlog[i].call \in Calls
    BY InLog
  <2>2. change[rlog[i].call] = rlog[i] /\ rlog[i] # Nothing
    BY <2>1, ReplicasAssumption DEF ProposedOnce
  <2>3. reply[rlog[i].call] \in {Nothing, Failed}
    BY <1>2 DEF Told
  <2> QED
    BY <2>1, <2>2, <2>3
<1> QED
  BY <1>1, <1>2

-----------------------------------------------------------------------------
(* Client calls.                                                           *)

LEMMA CallKeeps == ASSUME IInv, NEW c \in Calls, Call(c) PROVE IInv'
<1> USE DEF IInv
<1>1. UNCHANGED <<rlog, pending, founders, own, status, index, applied, saved, at, crashes>>
  BY DEF Call, raftVars, groupVars, nodeVars
<1>2. pc[c] = "idle" /\ change[c] = Nothing /\ reply[c] = Nothing
  BY DEF Call, CallsOK, Types
<1>3. ReplicasOK' /\ (Intact' => Intact)
  BY <1>1, ReplicasKept DEF Intact
<1>4. \A ch \in pending : ch.call \in Calls /\ ch.call # c
  BY <1>2, ChangeIs DEF ProposedOnce, Types
<1>5. \A i \in DOMAIN rlog : rlog[i].call \in Calls /\ rlog[i].call # c
  BY <1>2, InLog DEF ProposedOnce
<1>6. CASE Loaded(at[c])
  <2>1. PICK ch \in Change : ch.call = c /\ change' = [change EXCEPT ![c] = ch]
    BY <1>6 DEF Call, Asks
  <2>2. pc' = [pc EXCEPT ![c] = "created"] /\ reply' = reply
    BY <1>6 DEF Call
  <2>3. Types'
    BY <1>1, <2>1, <2>2 DEF Types
  <2>4. RaftHeldInCall'
    BY <1>1, <1>6, <2>2 DEF RaftHeldInCall, InCall, Loaded, Types
  <2>5. CallsOK'
    <3>1. ch # Nothing
      BY <2>1, ReplicasAssumption
    <3> QED
      BY <1>2, <2>1, <2>2, <3>1, ReplicasAssumption DEF CallsOK, Types
  <2>6. ProposedOnce'
    BY <1>1, <1>4, <1>5, <2>1, <2>2 DEF ProposedOnce, Types
  <2>7. Told'
    BY <1>1, <1>3, <2>2, ToldKept
  <2> QED
    BY <1>3, <2>3, <2>4, <2>5, <2>6, <2>7
<1>7. CASE ~Loaded(at[c])
  <2>1. pc' = [pc EXCEPT ![c] = "done"] /\ reply' = [reply EXCEPT ![c] = Refused] /\ change' = change
    BY <1>7 DEF Call, Done
  <2>2. Types'
    BY <1>1, <2>1 DEF Types
  <2>3. RaftHeldInCall'
    BY <1>1, <2>1 DEF RaftHeldInCall, InCall, Loaded, Types
  <2>4. CallsOK'
    BY <1>2, <2>1 DEF CallsOK, Types
  <2>5. ProposedOnce'
    BY <1>1, <1>4, <1>5, <2>1 DEF ProposedOnce, Types
  <2>6. Told'
    <3>1. \A d \in Calls : reply'[d] = reply[d] \/ (reply'[d] = Refused /\ change[d] = Nothing)
      BY <1>2, <2>1 DEF Types
    <3> QED
      BY <1>1, <1>3, <3>1, ToldKept
  <2> QED
    BY <1>3, <2>2, <2>3, <2>4, <2>5, <2>6
<1> QED
  BY <1>6, <1>7

\* A call that is past its check of raft goes on, or returns Failed; its change may be
\* proposed as it does.
LEMMA CallGoesOn ==
    ASSUME IInv, NEW c \in Calls, InCall(c), NEW p \in {"proposed", "waiting", "done"},
           pc' = [pc EXCEPT ![c] = p],
           \/ p = "done" /\ reply' = [reply EXCEPT ![c] = Failed]
           \/ p # "done" /\ reply' = reply,
           \/ pending' = pending
           \/ pc[c] = "created" /\ pending' = pending \cup {change[c]},
           UNCHANGED <<rlog, founders, own, status, index, applied, saved, at, change, crashes>>
    PROVE  IInv'
<1> USE DEF IInv
<1>1. pc[c] \in {"created", "proposed", "waiting"}
  BY DEF InCall
<1>2. change[c] \in Change /\ change[c].call = c /\ change[c] # Nothing
  BY <1>1 DEF CallsOK, Types
<1>3. ReplicasOK' /\ (Intact' => Intact)
  BY ReplicasKept DEF Intact
<1>4. \A d \in Calls : pc'[d] = IF d = c THEN p ELSE pc[d]
  BY DEF Types
<1>5. Types'
  <2>1. pc' \in [Calls -> {"idle", "created", "proposed", "waiting", "done"}]
    BY DEF Types
  <2>2. pending' \subseteq Change
    BY <1>2 DEF Types
  <2>3. reply' \in [Calls -> Results \cup {Nothing, Failed, Refused}]
    BY DEF Types
  <2> QED
    BY <2>1, <2>2, <2>3 DEF Types
<1>6. RaftHeldInCall'
  BY <1>4 DEF RaftHeldInCall, InCall, Loaded
<1>7. CallsOK'
  <2>1. \A d \in Calls : d # c => reply'[d] = reply[d]
    BY DEF Types
  <2>2. p # "done" => reply'[c] = Nothing
    BY <1>1 DEF CallsOK
  <2>3. reply'[c] # Refused
    <3>1. reply[c] = Nothing
      BY <1>1 DEF CallsOK
    <3> QED
      BY <3>1, ReplicasAssumption DEF Types
  <2> QED
    BY <1>2, <1>4, <2>1, <2>2, <2>3 DEF CallsOK
<1>8. ProposedOnce'
  <2>1. \A ch \in pending : ch.call \in Calls
    BY ChangeIs DEF Types
  <2>2. \A i \in DOMAIN rlog : rlog[i].call \in Calls
    BY InLog
  <2>3. pc[c] = "created" => \A i \in DOMAIN rlog : rlog[i].call # c
    BY DEF ProposedOnce
  <2>4. \A ch \in pending' : /\ change[ch.call] = ch /\ pc'[ch.call] \notin {"idle", "created"}
                             /\ \A i \in DOMAIN rlog : rlog[i].call # ch.call
    BY <1>2, <1>4, <2>1, <2>3 DEF ProposedOnce
  <2>5. \A i \in DOMAIN rlog : change[rlog[i].call] = rlog[i] /\ pc'[rlog[i].call] \notin {"idle", "created"}
    BY <1>4, <2>2 DEF ProposedOnce
  <2> QED
    BY <2>4, <2>5 DEF ProposedOnce
<1>9. Told'
  <2>1. \A d \in Calls : reply'[d] = reply[d] \/ reply'[d] = Failed
    BY DEF Types
  <2> QED
    BY <1>3, <2>1, ToldKept
<1> QED
  BY <1>3, <1>5, <1>6, <1>7, <1>8, <1>9

LEMMA CallsGoOn ==
    ASSUME IInv, NEW c \in Calls, Propose(c) \/ ProposeFails(c) \/ Wait(c) \/ Timeout(c)
    PROVE  IInv'
<1>1. UNCHANGED <<rlog, founders, own, status, index, applied, saved, at, change, crashes>>
  BY DEF Propose, ProposeFails, Wait, Timeout, raftVars, groupVars, nodeVars
<1>2. CASE Propose(c)
  <2>1. InCall(c) /\ pc' = [pc EXCEPT ![c] = "proposed"] /\ reply' = reply
        /\ pc[c] = "created" /\ pending' = pending \cup {change[c]}
    BY <1>2 DEF Propose, InCall
  <2> QED
    BY <1>1, <2>1, CallGoesOn
<1>3. CASE ProposeFails(c)
  <2>1. InCall(c) /\ pc' = [pc EXCEPT ![c] = "done"] /\ reply' = [reply EXCEPT ![c] = Failed]
        /\ pc[c] = "created" /\ (pending' = pending \/ pending' = pending \cup {change[c]})
    BY <1>3 DEF ProposeFails, Done, InCall
  <2> QED
    BY <1>1, <2>1, CallGoesOn
<1>4. CASE Wait(c)
  <2>1. InCall(c) /\ pc' = [pc EXCEPT ![c] = "waiting"] /\ reply' = reply /\ pending' = pending
    BY <1>4 DEF Wait, InCall, raftVars
  <2> QED
    BY <1>1, <2>1, CallGoesOn
<1>5. CASE Timeout(c)
  <2>1. InCall(c) /\ pc' = [pc EXCEPT ![c] = "done"] /\ reply' = [reply EXCEPT ![c] = Failed]
        /\ pending' = pending
    BY <1>5 DEF Timeout, Done, InCall, raftVars
  <2> QED
    BY <1>1, <2>1, CallGoesOn
<1> QED
  BY <1>2, <1>3, <1>4, <1>5

-----------------------------------------------------------------------------
(* Raft.                                                                   *)

LEMMA CommitKeeps == ASSUME IInv, NEW ch \in pending, Commit(ch) PROVE IInv'
<1> USE DEF IInv
<1>1. UNCHANGED <<founders, own, status, index, applied, saved, pc, at, change, reply, crashes>>
  BY DEF Commit, groupVars, nodeVars, callVars
<1>2. /\ Intact /\ rlog' = Append(rlog, ch) /\ pending' = pending \ {ch}
      /\ ch \in Change /\ rlog \in Seq(Change)
  BY DEF Commit, Types
<1>3. /\ rlog' \in Seq(Change) /\ Len(rlog') = Len(rlog) + 1 /\ Len(rlog) \in Nat
      /\ DOMAIN rlog = 1..Len(rlog) /\ DOMAIN rlog' = 1..Len(rlog) + 1
      /\ rlog'[Len(rlog) + 1] = ch /\ \A i \in 1..Len(rlog) : rlog'[i] = rlog[i]
  BY <1>2
<1>4. /\ \A k \in Nat : k <= Len(rlog) => Replay(SubSeq(rlog', 1, k)) = Replay(SubSeq(rlog, 1, k))
      /\ \A i \in 1..Len(rlog) : Deadly(rlog', i) <=> Deadly(rlog, i)
  <2>1. PICK s \in Seq(Change) : s = rlog'
    BY <1>3
  <2>2. Len(rlog) <= Len(s) /\ \A i \in 1..Len(rlog) : s[i] = rlog[i]
    BY <1>3, <2>1
  <2>3. /\ \A k \in Nat : k <= Len(rlog) => Replay(SubSeq(s, 1, k)) = Replay(SubSeq(rlog, 1, k))
        /\ \A i \in 1..Len(rlog) : Deadly(s, i) <=> Deadly(rlog, i)
    BY <1>2, <1>3, <2>2, LogsBeginAlike
  <2> QED
    BY <2>1, <2>3
<1>5. \A n \in Nodes : Log(n) = rlog /\ Log(n)' = rlog'
  BY <1>1, <1>2 DEF Intact, Log
<1>6. Types'
  BY <1>1, <1>2, <1>3 DEF Types
<1>7. RaftHeldInCall'
  BY <1>1 DEF RaftHeldInCall, InCall, Loaded
<1>8. ReplicasOK'
  <2> SUFFICES ASSUME NEW n \in Nodes PROVE ReplicaOK(n)'
    BY DEF ReplicasOK
  <2>1. ReplicaOK(n) /\ applied[n] \in Nat /\ saved[n].idx \in Nat
    BY InLog DEF ReplicasOK
  <2>2. applied[n] <= Len(rlog) /\ saved[n].idx <= Len(rlog)
    BY <1>5, <2>1 DEF ReplicaOK
  <2>3. \A i \in 1..Len(rlog') : Deadly(rlog', i) => applied[n] < i /\ saved[n].idx < i
    <3> SUFFICES ASSUME NEW i \in 1..Len(rlog'), Deadly(rlog', i)
                 PROVE  applied[n] < i /\ saved[n].idx < i
      OBVIOUS
    <3>1. CASE i \in 1..Len(rlog)
      BY <1>4, <1>5, <2>1, <3>1 DEF ReplicaOK
    <3>2. CASE i = Len(rlog) + 1
      BY <1>3, <2>1, <2>2, <3>2
    <3> QED
      BY <1>3, <3>1, <3>2
  <2>4. applied[n] <= Len(rlog') /\ saved[n].idx <= Len(rlog')
    BY <1>3, <2>1, <2>2
  <2>5. Loaded(n)' => Loaded(n)
    BY <1>1 DEF Loaded
  <2>6. /\ Loaded(n) => index[n] = Replay(SubSeq(rlog', 1, applied[n]))
        /\ saved[n].items = Replay(SubSeq(rlog', 1, saved[n].idx))
    BY <1>4, <1>5, <2>1, <2>2 DEF ReplicaOK
  <2> QED
    BY <1>1, <1>5, <2>3, <2>4, <2>5, <2>6 DEF ReplicaOK
<1>9. Told'
  <2>1. \A c \in Calls : reply[c] \notin {Nothing, Failed, Refused} =>
                              \E i \in DOMAIN rlog' : rlog'[i].call = c
    <3>1. \A i \in DOMAIN rlog : i \in DOMAIN rlog' /\ rlog'[i] = rlog[i]
      BY <1>3
    <3> QED
      BY <1>2, <3>1 DEF Told
  <2>2. reply[ch.call] \in {Nothing, Failed}
    <3>1. change[ch.call] = ch /\ ch # Nothing /\ ch.call \in Calls /\ \A i \in DOMAIN rlog : rlog[i].call # ch.call
      BY <1>2, ChangeIs, ReplicasAssumption DEF ProposedOnce
    <3> QED
      BY <1>2, <3>1 DEF Told, CallsOK
  <2>3. \A i \in 1..Len(rlog') : Deadly(rlog', i) => reply[rlog'[i].call] \in {Nothing, Failed}
    <3> SUFFICES ASSUME NEW i \in 1..Len(rlog'), Deadly(rlog', i)
                 PROVE  reply[rlog'[i].call] \in {Nothing, Failed}
      OBVIOUS
    <3>1. CASE i \in 1..Len(rlog)
      BY <1>2, <1>3, <1>4, <3>1 DEF Told
    <3>2. CASE i = Len(rlog) + 1
      BY <1>3, <2>2, <3>2
    <3> QED
      BY <1>3, <3>1, <3>2
  <2> QED
    BY <1>1, <2>1, <2>3 DEF Told
<1>10. CallsOK'
  BY <1>1 DEF CallsOK
<1>11. ProposedOnce'
  <2>1. change[ch.call] = ch /\ pc[ch.call] \notin {"idle", "created"}
        /\ \A i \in DOMAIN rlog : rlog[i].call # ch.call
    BY DEF ProposedOnce
  <2>2. \A i \in DOMAIN rlog' : i = Len(rlog) + 1 \/ i \in DOMAIN rlog
    BY <1>3
  <2>3. \A ch2 \in pending' : /\ change[ch2.call] = ch2 /\ pc[ch2.call] \notin {"idle", "created"}
                              /\ \A i \in DOMAIN rlog : rlog[i].call # ch2.call
                              /\ ch2.call # ch.call
    BY <1>2, <2>1 DEF ProposedOnce
  <2>4. \A ch2 \in pending' : \A i \in DOMAIN rlog' : rlog'[i].call # ch2.call
    BY <1>3, <2>2, <2>3
  <2>5. \A i \in DOMAIN rlog' :
           change[rlog'[i].call] = rlog'[i] /\ pc[rlog'[i].call] \notin {"idle", "created"}
    BY <1>3, <2>1, <2>2 DEF ProposedOnce
  <2>6. \A i, j \in DOMAIN rlog' : rlog'[i].call = rlog'[j].call => i = j
    BY <1>3, <2>1, <2>2 DEF ProposedOnce
  <2> QED
    BY <1>1, <2>3, <2>4, <2>5, <2>6 DEF ProposedOnce
<1> QED
  BY <1>6, <1>7, <1>8, <1>9, <1>10, <1>11

\* A log is cut where the replica has not come to, and goes on otherwise.
LEMMA OwnLog ==
    ASSUME IInv, NEW n \in Nodes, NEW k \in Kept(n), NEW tail \in Seq(Change),
           own' = [own EXCEPT ![n] = SubSeq(Log(n), 1, k) \o tail]
    PROVE  /\ own' \in [Nodes -> Seq(Change) \cup {Nothing}] /\ ~Intact'
           /\ \A m \in Nodes \ {n} : rlog' = rlog => Log(m)' = Log(m)
           /\ k \in Nat /\ k <= Len(Log(n)) /\ k <= Len(Log(n)') /\ applied[n] <= k /\ saved[n].idx <= k
           /\ Log(n)' \in Seq(Change) /\ \A i \in 1..k : Log(n)'[i] = Log(n)[i]
<1> USE DEF IInv
<1>1. k \in Nat /\ k <= Len(Log(n)) /\ applied[n] <= k /\ saved[n].idx <= k
  BY InLog DEF Kept
<1>2. PICK s : s = Log(n)
  OBVIOUS
<1>3. PICK t : t = SubSeq(s, 1, k)
  OBVIOUS
<1>4. s \in Seq(Change) /\ t \in Seq(Change) /\ Len(t) = k /\ \A i \in 1..k : t[i] = s[i]
  BY <1>1, <1>2, <1>3, InLog
<1>5. PICK u : u = t \o tail
  OBVIOUS
<1>6. u \in Seq(Change) /\ Len(u) = k + Len(tail) /\ Len(tail) \in Nat /\ \A i \in 1..k : u[i] = t[i]
  BY <1>1, <1>4, <1>5
<1>7. own' = [own EXCEPT ![n] = u] /\ u # Nothing
  BY <1>2, <1>3, <1>5, <1>6, ReplicasAssumption
<1>8. own' \in [Nodes -> Seq(Change) \cup {Nothing}] /\ own'[n] = u
      /\ \A m \in Nodes \ {n} : own'[m] = own[m]
  <2>1. own \in [Nodes -> Seq(Change) \cup {Nothing}]
    BY DEF Types
  <2>2. u \in Seq(Change) \cup {Nothing}
    BY <1>6
  <2> HIDE DEF IInv
  <2> QED
    BY <1>7, <2>1, <2>2, Zenon
<1>9. Log(n)' = u
  BY <1>7, <1>8 DEF Log
<1>10. ~Intact'
  BY <1>7, <1>8 DEF Intact
<1>11. \A m \in Nodes \ {n} : rlog' = rlog => Log(m)' = Log(m)
  BY <1>8 DEF Log
<1>12. k <= Len(u)
  BY <1>1, <1>6
<1> QED
  BY <1>1, <1>2, <1>4, <1>6, <1>8, <1>9, <1>10, <1>11, <1>12

\* What a replica has applied and saved is not touched by that.
LEMMA StrayKeeps == ASSUME IInv, NEW n \in Nodes, Stray(n) PROVE IInv'
<1> USE DEF IInv
<1>1. UNCHANGED <<rlog, pending, founders, status, index, applied, saved, pc, at, change, reply, crashes>>
  BY DEF Stray, nodeVars, callVars
<1>2. PICK k \in Kept(n) : \E ch \in Proposed : own' = [own EXCEPT ![n] = Append(SubSeq(Log(n), 1, k), ch)]
  BY DEF Stray
<1>3. PICK ch \in Proposed : own' = [own EXCEPT ![n] = Append(SubSeq(Log(n), 1, k), ch)]
  BY <1>2
<1>4. ch \in Change
  BY DEF Proposed, Types
<1>5. own' = [own EXCEPT ![n] = SubSeq(Log(n), 1, k) \o <<ch>>]
  <2>1. SubSeq(Log(n), 1, k) \in Seq(Change)
    BY InLog DEF Kept
  <2>2. PICK t \in Seq(Change) : t = SubSeq(Log(n), 1, k)
    BY <2>1
  <2>3. Append(t, ch) = t \o <<ch>>
    BY <1>4
  <2> QED
    BY <1>3, <2>2, <2>3
<1>6. <<ch>> \in Seq(Change)
  BY <1>4
<1>7. /\ own' \in [Nodes -> Seq(Change) \cup {Nothing}] /\ ~Intact'
      /\ \A m \in Nodes \ {n} : rlog' = rlog => Log(m)' = Log(m)
      /\ k \in Nat /\ k <= Len(Log(n)) /\ k <= Len(Log(n)') /\ applied[n] <= k /\ saved[n].idx <= k
      /\ Log(n)' \in Seq(Change) /\ \A i \in 1..k : Log(n)'[i] = Log(n)[i]
  BY <1>5, <1>6, OwnLog
<1>8. Types'
  BY <1>1, <1>7 DEF Types
<1>9. RaftHeldInCall'
  BY <1>1 DEF RaftHeldInCall, InCall, Loaded
<1>10. ReplicaOK(n)'
  <2>1. PICK s : s = Log(n)
    OBVIOUS
  <2>2. PICK t : t = Log(n)'
    OBVIOUS
  <2>3. /\ s \in Seq(Change) /\ t \in Seq(Change) /\ k <= Len(s) /\ k <= Len(t) /\ \A i \in 1..k : t[i] = s[i]
        /\ Len(t) \in Nat /\ applied[n] \in Nat /\ saved[n].idx \in Nat
    BY <1>7, <2>1, <2>2, InLog
  <2>4. /\ \A j \in Nat : j <= k => Replay(SubSeq(t, 1, j)) = Replay(SubSeq(s, 1, j))
        /\ \A i \in 1..k : Deadly(t, i) <=> Deadly(s, i)
    BY <1>7, <2>3, LogsBeginAlike
  <2>5. /\ Loaded(n) => index[n] = Replay(SubSeq(s, 1, applied[n]))
        /\ saved[n].items = Replay(SubSeq(s, 1, saved[n].idx))
        /\ \A i \in 1..Len(s) : Deadly(s, i) => applied[n] < i /\ saved[n].idx < i
    BY <2>1 DEF ReplicasOK, ReplicaOK
  <2>6. /\ Loaded(n) => index[n] = Replay(SubSeq(t, 1, applied[n]))
        /\ saved[n].items = Replay(SubSeq(t, 1, saved[n].idx))
    BY <1>7, <2>3, <2>4, <2>5
  <2>7. ASSUME NEW i \in 1..Len(t), Deadly(t, i) PROVE applied[n] < i /\ saved[n].idx < i
    <3>1. CASE i \in 1..k
      <4>1. i \in 1..Len(s)
        BY <1>7, <2>1, <2>3, <3>1, InLog
      <4> QED
        BY <2>4, <2>5, <2>7, <3>1, <4>1
    <3>2. CASE i > k
      BY <1>7, <2>3, <3>2
    <3> QED
      BY <1>7, <2>3, <3>1, <3>2
  <2>8. applied[n] <= Len(t) /\ saved[n].idx <= Len(t)
    BY <1>7, <2>3
  <2> QED
    BY <1>1, <2>2, <2>6, <2>7, <2>8 DEF ReplicaOK, Loaded
<1>11. ReplicasOK'
  <2>1. ASSUME NEW m \in Nodes, m # n PROVE ReplicaOK(m)'
    <3>1. Log(m)' = Log(m) /\ ReplicaOK(m)
      BY <1>1, <1>7, <2>1 DEF ReplicasOK
    <3> QED
      BY <1>1, <3>1, ReplicaKept
  <2> QED
    BY <1>10, <2>1 DEF ReplicasOK
<1>12. Told'
  BY <1>7 DEF Told
<1> QED
  BY <1>1, <1>8, <1>9, <1>11, <1>12, CallsKept

LEMMA LoseKeeps == ASSUME IInv, NEW ch \in pending, Lose(ch) PROVE IInv'
<1> USE DEF IInv
<1>1. UNCHANGED <<rlog, founders, own, status, index, applied, saved, pc, at, change, reply, crashes>>
      /\ pending' \subseteq pending
  BY DEF Lose, groupVars, nodeVars, callVars
<1>2. Types'
  BY <1>1 DEF Types
<1>3. RaftHeldInCall'
  BY <1>1 DEF RaftHeldInCall, InCall, Loaded
<1>4. CallsOK'
  BY <1>1 DEF CallsOK
<1>5. ProposedOnce'
  BY <1>1 DEF ProposedOnce
<1>6. Told'
  <2>1. Intact' => Intact
    BY <1>1 DEF Intact
  <2> QED
    BY <1>1, <2>1, ToldKept
<1> QED
  BY <1>1, <1>2, <1>3, <1>4, <1>5, <1>6, ReplicasKept

-----------------------------------------------------------------------------
(* Replicas.                                                               *)

\* The calls of a process that dies end with it.
LEMMA Dead ==
    ASSUME IInv, NEW n \in Nodes, NEW how \in {"dead", "panicked"}, Dies(n, how),
           UNCHANGED <<rlog, pending, at, change>>, Intact' => Intact
    PROVE  /\ status' = [status EXCEPT ![n] = how] /\ status' \in [Nodes -> Statuses]
           /\ pc' \in [Calls -> {"idle", "created", "proposed", "waiting", "done"}]
           /\ reply' \in [Calls -> Results \cup {Nothing, Failed, Refused}]
           /\ RaftHeldInCall' /\ CallsOK' /\ ProposedOnce' /\ Told'
<1> USE DEF IInv
<1>1. /\ status' = [status EXCEPT ![n] = how]
      /\ pc' = [c \in Calls |-> IF c \in Aborted(n) THEN "done" ELSE pc[c]]
      /\ reply' = [c \in Calls |-> IF c \in Aborted(n) THEN Failed ELSE reply[c]]
  BY DEF Dies
<1>2. \A c \in Calls : c \in Aborted(n) <=> at[c] = n /\ InCall(c)
  BY DEF Aborted
<1>3. status' \in [Nodes -> Statuses]
  BY <1>1 DEF Types, Statuses
<1>4. pc' \in [Calls -> {"idle", "created", "proposed", "waiting", "done"}]
      /\ reply' \in [Calls -> Results \cup {Nothing, Failed, Refused}]
  BY <1>1 DEF Types
<1>5. RaftHeldInCall'
  <2>1. ASSUME NEW c \in Calls, InCall(c)' PROVE Loaded(at[c])'
    <3>1. c \notin Aborted(n) /\ InCall(c)
      BY <1>1, <2>1 DEF InCall
    <3>2. at[c] # n /\ Loaded(at[c]) /\ at[c] \in Nodes
      BY <1>2, <3>1 DEF RaftHeldInCall, Types
    <3> QED
      BY <1>1, <3>2 DEF Loaded, Types
  <2> QED
    BY <2>1 DEF RaftHeldInCall
<1>6. CallsOK'
  <2>1. \A c \in Calls : c \in Aborted(n) => pc[c] \in {"created", "proposed", "waiting"}
    BY <1>2 DEF InCall
  <2> QED
    BY <1>1, <2>1, ReplicasAssumption DEF CallsOK
<1>7. ProposedOnce'
  <2>1. \A c \in Calls : pc'[c] = pc[c] \/ pc'[c] = "done"
    BY <1>1
  <2>2. \A ch \in pending : ch.call \in Calls
    BY ChangeIs DEF Types
  <2>3. \A i \in DOMAIN rlog : rlog[i].call \in Calls
    BY InLog
  <2> QED
    BY <2>1, <2>2, <2>3 DEF ProposedOnce
<1>8. Told'
  <2>1. \A c \in Calls : reply'[c] = reply[c] \/ reply'[c] = Failed
    BY <1>1
  <2> QED
    BY <2>1, ToldKept
<1> QED
  BY <1>1, <1>3, <1>4, <1>5, <1>6, <1>7, <1>8

LEMMA ApplyKeeps == ASSUME IInv, NEW n \in Nodes, Apply(n) PROVE IInv'
<1> USE DEF IInv
<1>1. UNCHANGED <<rlog, pending, founders, own, status, saved, at, change, crashes>>
  BY DEF Apply, raftVars, groupVars
<1>2. PICK ch : ch = Log(n)[applied[n] + 1]
  OBVIOUS
<1>3. status[n] = "running" /\ applied[n] < Len(Log(n)) /\ ~ChangeKills(index[n], ch) /\ ApplyChange(n, ch)
  BY <1>2 DEF Apply
<1>4. /\ applied[n] \in Nat /\ Len(Log(n)) \in Nat /\ applied[n] + 1 \in 1..Len(Log(n))
      /\ Log(n) \in Seq(Change)
  BY <1>3, InLog
<1>5. ch \in Change /\ ch.call \in Calls /\ index[n] \in Items
  BY <1>2, <1>4, InLog, ChangeIs
<1>6. PICK now : now = ItemsAfter(index[n], ch)
  OBVIOUS
<1>7. now \in Items
  BY <1>5, <1>6, ItemsAfterType
<1>8. index' = [index EXCEPT ![n] = now] /\ applied' = [applied EXCEPT ![n] = applied[n] + 1]
  BY <1>3, <1>6 DEF ApplyChange
<1>9. \A m \in Nodes : /\ index'[m] = (IF m = n THEN now ELSE index[m])
                       /\ applied'[m] = (IF m = n THEN applied[n] + 1 ELSE applied[m])
  BY <1>8 DEF Types
<1>10. /\ pc' = [c \in Calls |-> IF c \in Notified(n, ch) THEN "done" ELSE pc[c]]
       /\ reply' = [c \in Calls |-> IF c \in Notified(n, ch) THEN Result(index[n], ch) ELSE reply[c]]
  BY <1>3 DEF ApplyChange
<1>11. Result(index[n], ch) \in Results
  BY <1>5, ResultType
<1>12. Types'
  <2>1. index' \in [Nodes -> Items] /\ applied' \in [Nodes -> Nat]
    BY <1>4, <1>7, <1>8 DEF Types
  <2>3. pc' \in [Calls -> {"idle", "created", "proposed", "waiting", "done"}]
    BY <1>10 DEF Types
  <2>4. reply' \in [Calls -> Results \cup {Nothing, Failed, Refused}]
    BY <1>10, <1>11 DEF Types
  <2> QED
    BY <1>1, <2>1, <2>3, <2>4 DEF Types
<1>13. RaftHeldInCall'
  <2>1. \A c \in Calls : pc'[c] = pc[c] \/ pc'[c] = "done"
    BY <1>10
  <2> QED
    BY <1>1, <2>1 DEF RaftHeldInCall, InCall, Loaded
<1>14. PICK s \in Seq(Change) : s = Log(n)
  BY <1>4
<1>15. /\ applied[n] <= Len(s) /\ saved[n].idx <= Len(s)
       /\ index[n] = Replay(SubSeq(s, 1, applied[n]))
       /\ saved[n].items = Replay(SubSeq(s, 1, saved[n].idx))
       /\ \A i \in 1..Len(s) : Deadly(s, i) => applied[n] < i /\ saved[n].idx < i
  BY <1>3, <1>14 DEF ReplicasOK, ReplicaOK, Loaded
<1>16. ~Deadly(s, applied[n] + 1)
  <2>1. PICK k : k = applied[n] + 1
    OBVIOUS
  <2>2. k - 1 = applied[n] /\ s[k] = ch
    BY <1>2, <1>4, <1>14, <2>1
  <2>3. Deadly(s, k) <=> ChangeKills(Replay(SubSeq(s, 1, k - 1)), s[k])
    BY DEF Deadly
  <2>4. Replay(SubSeq(s, 1, k - 1)) = index[n]
    BY <1>15, <2>2
  <2>5. ~Deadly(s, k)
    BY <1>3, <2>2, <2>3, <2>4
  <2> QED
    BY <2>1, <2>5
<1>17. ReplicasOK'
  <2>1. \A m \in Nodes : Log(m)' = Log(m)
    BY <1>1 DEF Log
  <2>2. ReplicaOK(n)'
    <3>1. now = Replay(SubSeq(s, 1, applied[n] + 1))
      <4>1. applied[n] < Len(s) /\ ch = s[applied[n] + 1]
        BY <1>2, <1>3, <1>14
      <4> QED
        BY <1>4, <1>6, <1>15, <4>1, ReplayNext
    <3>2. ASSUME NEW i \in 1..Len(s), Deadly(s, i) PROVE applied[n] + 1 < i /\ saved[n].idx < i
      <4>1. applied[n] < i /\ saved[n].idx < i /\ i # applied[n] + 1
        BY <1>15, <1>16, <3>2
      <4>2. i \in Nat
        BY <1>4, <1>14
      <4> QED
        BY <1>4, <4>1, <4>2
    <3>3. applied[n] + 1 <= Len(s)
      BY <1>4, <1>14
    <3> QED
      BY <1>1, <1>9, <1>14, <1>15, <2>1, <3>1, <3>2, <3>3 DEF ReplicaOK
  <2>3. ASSUME NEW m \in Nodes, m # n PROVE ReplicaOK(m)'
    <3>1. ReplicaOK(m) /\ index'[m] = index[m] /\ applied'[m] = applied[m]
      BY <1>9, <2>3 DEF ReplicasOK
    <3> QED
      BY <1>1, <2>1, <3>1, ReplicaKept
  <2> QED
    BY <2>2, <2>3 DEF ReplicasOK
<1>18. Told'
  <2> SUFFICES ASSUME Intact'
               PROVE  /\ \A c \in Calls : reply'[c] \notin {Nothing, Failed, Refused} =>
                                             \E i \in DOMAIN rlog : rlog[i].call = c
                      /\ \A i \in 1..Len(rlog) : Deadly(rlog, i) => reply'[rlog[i].call] \in {Nothing, Failed}
    BY <1>1 DEF Told
  <2>1. Intact /\ s = rlog
    BY <1>1, <1>14, OneLog DEF Intact
  <2>2. applied[n] + 1 \in DOMAIN rlog /\ rlog[applied[n] + 1] = ch
    BY <1>2, <1>4, <1>14, <2>1, InLog
  <2>3. \A c \in Calls : reply'[c] \notin {Nothing, Failed, Refused} => \E i \in DOMAIN rlog : rlog[i].call = c
    <3>1. \A c \in Calls : c \in Notified(n, ch) => c = ch.call
      BY DEF Notified
    <3>2. \A c \in Calls : reply[c] \notin {Nothing, Failed, Refused} => \E i \in DOMAIN rlog : rlog[i].call = c
      BY <2>1 DEF Told
    <3>3. \A c \in Calls : c \in Notified(n, ch) \/ reply'[c] = reply[c]
      BY <1>10
    <3> QED
      BY <2>2, <3>1, <3>2, <3>3
  <2>4. ASSUME NEW i \in 1..Len(rlog), Deadly(rlog, i) PROVE reply'[rlog[i].call] \in {Nothing, Failed}
    <3>1. i \in DOMAIN rlog /\ rlog[i].call \in Calls /\ reply[rlog[i].call] \in {Nothing, Failed}
      BY <2>1, <2>4, InLog DEF Told
    <3>2. rlog[i].call \notin Notified(n, ch)
      <4>1. rlog[i].call = ch.call => i = applied[n] + 1
        BY <2>2, <3>1 DEF ProposedOnce
      <4> QED
        BY <1>16, <2>1, <2>4, <4>1 DEF Notified
    <3> QED
      BY <1>10, <3>1, <3>2
  <2> QED
    BY <2>3, <2>4
<1>19. CallsOK'
  <2>1. Result(index[n], ch) # Refused
    BY <1>11, ReplicasAssumption
  <2> QED
    BY <1>1, <1>10, <2>1 DEF CallsOK, Notified
<1>20. ProposedOnce'
  <2>1. \A c \in Calls : pc'[c] = pc[c] \/ pc'[c] = "done"
    BY <1>10
  <2>2. \A ch2 \in pending : ch2.call \in Calls
    BY ChangeIs DEF Types
  <2>3. \A i \in DOMAIN rlog : rlog[i].call \in Calls
    BY InLog
  <2> QED
    BY <1>1, <2>1, <2>2, <2>3 DEF ProposedOnce
<1> QED
  BY <1>12, <1>13, <1>17, <1>18, <1>19, <1>20

\* A process ends.
LEMMA DeathKeeps ==
    ASSUME IInv, NEW n \in Nodes, NEW how \in {"dead", "panicked"}, Dies(n, how),
           UNCHANGED <<rlog, pending, founders, own, index, applied, saved, at, change>>,
           crashes' \in 0..MaxCrashes
    PROVE  IInv'
<1> USE DEF IInv
<1>1. Intact' => Intact
  BY DEF Intact
<1>2. /\ status' = [status EXCEPT ![n] = how] /\ status' \in [Nodes -> Statuses]
      /\ pc' \in [Calls -> {"idle", "created", "proposed", "waiting", "done"}]
      /\ reply' \in [Calls -> Results \cup {Nothing, Failed, Refused}]
      /\ RaftHeldInCall' /\ CallsOK' /\ ProposedOnce' /\ Told'
  BY <1>1, Dead
<1>3. Types'
  BY <1>2 DEF Types
<1>4. ASSUME NEW m \in Nodes PROVE ReplicaOK(m)'
  <2>1. ReplicaOK(m) /\ Log(m)' = Log(m)
    BY DEF ReplicasOK, Log
  <2>2. status'[m] = status[m] \/ ~Loaded(m)'
    BY <1>2 DEF Types, Loaded
  <2> QED
    BY <2>1, <2>2, ReplicaKept
<1> QED
  BY <1>2, <1>3, <1>4 DEF ReplicasOK

LEMMA ApplyDiesKeeps == ASSUME IInv, NEW n \in Nodes, ApplyDies(n) PROVE IInv'
<1>1. UNCHANGED <<rlog, pending, founders, own, index, applied, saved, at, change, crashes>>
      /\ Dies(n, "panicked")
  BY DEF ApplyDies, raftVars, groupVars
<1>2. crashes' \in 0..MaxCrashes
  BY <1>1 DEF IInv, Types
<1> QED
  BY <1>1, <1>2, DeathKeeps

LEMMA CrashKeeps == ASSUME IInv, NEW n \in Nodes, Crash(n) PROVE IInv'
<1>1. UNCHANGED <<rlog, pending, founders, own, index, applied, saved, at, change>> /\ Dies(n, "dead")
  BY DEF Crash, raftVars, groupVars
<1>2. crashes' \in 0..MaxCrashes
  BY ReplicasAssumption DEF IInv, Types, Crash
<1> QED
  BY <1>1, <1>2, DeathKeeps

LEMMA TakeSnapshotKeeps == ASSUME IInv, NEW n \in Nodes, TakeSnapshot(n) PROVE IInv'
<1> USE DEF IInv
<1>1. UNCHANGED <<rlog, pending, founders, own, status, index, applied, pc, at, change, reply, crashes>>
  BY DEF TakeSnapshot, raftVars, groupVars, callVars
<1>2. PICK s : s = [idx |-> applied[n], items |-> index[n]] /\ saved' = [saved EXCEPT ![n] = s]
  BY DEF TakeSnapshot
<1>3. s \in Snapshots /\ s.idx = applied[n] /\ s.items = index[n]
  BY <1>2, InLog DEF Snapshots
<1>4. \A m \in Nodes : saved'[m] = IF m = n THEN s ELSE saved[m]
  BY <1>2 DEF Types
<1>5. Loaded(n)
  BY DEF TakeSnapshot, Loaded
<1>6. Types'
  <2>1. saved' \in [Nodes -> Snapshots]
    BY <1>2, <1>3 DEF Types
  <2> QED
    BY <1>1, <2>1 DEF Types
<1>7. RaftHeldInCall'
  BY <1>1 DEF RaftHeldInCall, InCall, Loaded
<1>8. ReplicasOK'
  <2>1. \A m \in Nodes : Log(m)' = Log(m)
    BY <1>1 DEF Log
  <2>2. ReplicaOK(n)'
    <3>1. /\ applied[n] <= Len(Log(n)) /\ index[n] = Replay(SubSeq(Log(n), 1, applied[n]))
          /\ \A i \in 1..Len(Log(n)) : Deadly(Log(n), i) => applied[n] < i
      BY <1>5 DEF ReplicasOK, ReplicaOK
    <3> QED
      BY <1>1, <1>3, <1>4, <2>1, <3>1 DEF ReplicaOK
  <2>3. ASSUME NEW m \in Nodes, m # n PROVE ReplicaOK(m)'
    <3>1. ReplicaOK(m) /\ saved'[m] = saved[m]
      BY <1>4, <2>3 DEF ReplicasOK
    <3> QED
      BY <1>1, <2>1, <3>1, ReplicaKept
  <2> QED
    BY <2>2, <2>3 DEF ReplicasOK
<1>9. Told'
  <2>1. Intact' => Intact
    BY <1>1 DEF Intact
  <2> QED
    BY <1>1, <2>1, ToldKept
<1> QED
  BY <1>1, <1>6, <1>7, <1>8, <1>9, CallsKept

LEMMA ReceiveSnapshotKeeps ==
    ASSUME IInv, NEW n \in Nodes, NEW m \in Nodes, ReceiveSnapshot(n, m) PROVE IInv'
<1> USE DEF IInv
<1>1. UNCHANGED <<rlog, pending, founders, at, change, crashes>>
  BY DEF ReceiveSnapshot
<1>2. PICK s : s = saved[m]
  OBVIOUS
<1>3. PICK log \in Seq(Change) : log = Log(m)
  BY InLog
<1>4. /\ s \in Snapshots /\ s.idx \in Nat /\ s.items \in Items /\ s.idx <= Len(log)
      /\ s.items = Replay(SubSeq(log, 1, s.idx))
      /\ \A i \in 1..Len(log) : Deadly(log, i) => s.idx < i
  <2>1. s \in Snapshots
    BY <1>2 DEF Types
  <2>2. /\ s.idx <= Len(log) /\ s.items = Replay(SubSeq(log, 1, s.idx))
        /\ \A i \in 1..Len(log) : Deadly(log, i) => s.idx < i
    BY <1>2, <1>3 DEF ReplicasOK, ReplicaOK
  <2> QED
    BY <2>1, <2>2 DEF Snapshots
<1>5. status[n] = "running" /\ applied[n] < s.idx /\ saved' = [saved EXCEPT ![n] = s]
  BY <1>2 DEF ReceiveSnapshot
<1>6. \A k \in Nodes : saved'[k] = IF k = n THEN s ELSE saved[k]
  BY <1>5 DEF Types
<1>7. /\ own' \in [Nodes -> Seq(Change) \cup {Nothing}] /\ (Intact' => Intact)
      /\ Log(n)' = log /\ \A k \in Nodes \ {n} : Log(k)' = Log(k)
  <2>1. own \in [Nodes -> Seq(Change) \cup {Nothing}]
    BY DEF Types
  <2>2. CASE Intact
    <3>1. own' = own
      BY <2>2 DEF ReceiveSnapshot
    <3>2. \A k \in Nodes : Log(k)' = Log(k) /\ Log(k) = rlog
      BY <1>1, <2>2, <3>1, OneLog DEF Log
    <3> QED
      BY <1>3, <2>1, <2>2, <3>1, <3>2
  <2>3. CASE ~Intact
    <3>1. own' = [own EXCEPT ![n] = log]
      BY <1>3, <2>3 DEF ReceiveSnapshot
    <3>2. log # Nothing
      BY <1>3, ReplicasAssumption
    <3>3. own' \in [Nodes -> Seq(Change) \cup {Nothing}] /\ own'[n] = log
          /\ \A k \in Nodes \ {n} : own'[k] = own[k]
      BY <1>3, <2>1, <3>1, Zenon
    <3> QED
      BY <1>1, <3>2, <3>3 DEF Intact, Log
  <2> QED
    BY <2>2, <2>3
<1>8. ASSUME NEW k \in Nodes, k # n, status'[k] = status[k], index'[k] = index[k], applied'[k] = applied[k]
      PROVE  ReplicaOK(k)'
  <2>1. ReplicaOK(k) /\ Log(k)' = Log(k) /\ saved'[k] = saved[k]
    BY <1>6, <1>7, <1>8 DEF ReplicasOK
  <2> QED
    BY <1>8, <2>1, ReplicaKept
<1>9. CASE Loadable(s)
  <2>1. /\ index' = [index EXCEPT ![n] = s.items] /\ applied' = [applied EXCEPT ![n] = s.idx]
        /\ UNCHANGED <<status, pc, reply>>
    BY <1>2, <1>9 DEF ReceiveSnapshot
  <2>2. \A k \in Nodes : /\ index'[k] = (IF k = n THEN s.items ELSE index[k])
                         /\ applied'[k] = (IF k = n THEN s.idx ELSE applied[k])
    BY <2>1 DEF Types
  <2>3. Types'
    <3>1. saved' \in [Nodes -> Snapshots] /\ index' \in [Nodes -> Items] /\ applied' \in [Nodes -> Nat]
      BY <1>4, <1>5, <2>1 DEF Types
    <3> QED
      BY <1>1, <1>7, <2>1, <3>1 DEF Types
  <2>4. RaftHeldInCall'
    BY <1>1, <2>1 DEF RaftHeldInCall, InCall, Loaded
  <2>5. ReplicaOK(n)'
    BY <1>4, <1>6, <1>7, <2>2 DEF ReplicaOK
  <2>6. ReplicasOK'
    <3>1. \A k \in Nodes : k # n => ReplicaOK(k)'
      BY <1>8, <2>1, <2>2
    <3> QED
      BY <2>5, <3>1 DEF ReplicasOK
  <2>7. Told'
    BY <1>1, <1>7, <2>1, ToldKept
  <2> QED
    BY <1>1, <2>1, <2>3, <2>4, <2>6, <2>7, CallsKept
<1>10. CASE ~Loadable(s)
  <2>1. Dies(n, "panicked") /\ UNCHANGED <<index, applied>>
    BY <1>2, <1>10 DEF ReceiveSnapshot
  <2>2. /\ status' = [status EXCEPT ![n] = "panicked"] /\ status' \in [Nodes -> Statuses]
        /\ pc' \in [Calls -> {"idle", "created", "proposed", "waiting", "done"}]
        /\ reply' \in [Calls -> Results \cup {Nothing, Failed, Refused}]
        /\ RaftHeldInCall' /\ CallsOK' /\ ProposedOnce' /\ Told'
    BY <1>1, <1>7, <2>1, Dead
  <2>3. \A k \in Nodes : status'[k] = IF k = n THEN "panicked" ELSE status[k]
    BY <2>2 DEF Types
  <2>4. Types'
    <3>1. saved' \in [Nodes -> Snapshots]
      BY <1>4, <1>5 DEF Types
    <3> QED
      BY <1>1, <1>7, <2>1, <2>2, <3>1 DEF Types
  <2>5. ReplicaOK(n)'
    <3>1. applied[n] \in Nat /\ Len(log) \in Nat
      BY <1>3, InLog
    <3>2. applied[n] <= Len(log) /\ \A i \in 1..Len(log) : Deadly(log, i) => applied[n] < i
      BY <1>4, <1>5, <3>1
    <3>3. ~Loaded(n)'
      BY <2>3 DEF Loaded
    <3> QED
      BY <1>4, <1>6, <1>7, <2>1, <3>2, <3>3 DEF ReplicaOK
  <2>6. ReplicasOK'
    <3>1. \A k \in Nodes : k # n => ReplicaOK(k)'
      BY <1>8, <2>1, <2>3
    <3> QED
      BY <2>5, <3>1 DEF ReplicasOK
  <2> QED
    BY <2>2, <2>4, <2>6
<1> QED
  BY <1>9, <1>10

\* Start, on the log that the replica follows from then on, which begins with what it has
\* saved.
LEMMA StartKeeps ==
    ASSUME IInv, NEW n \in Nodes, Start(n),
           NEW k \in Nat, saved[n].idx <= k, k <= Len(Log(n)), k <= Len(Log(n)'),
           own' \in [Nodes -> Seq(Change) \cup {Nothing}], Intact' => Intact,
           Log(n)' \in Seq(Change), \A i \in 1..k : Log(n)'[i] = Log(n)[i],
           \A m \in Nodes \ {n} : Log(m)' = Log(m)
    PROVE  IInv'
<1> USE DEF IInv
<1>1. UNCHANGED <<rlog, pending, founders, saved, pc, at, change, reply>>
  BY DEF Start, callVars
<1>2. ~Loaded(n)
  BY DEF Start, Loaded
<1>3. PICK st : st = IF CanLoad(n) THEN "running" ELSE "stuck"
  OBVIOUS
<1>4. PICK a : a = IF CanLoad(n) THEN saved[n].idx ELSE 0
  OBVIOUS
<1>5. PICK its : its = IF CanLoad(n) THEN saved[n].items ELSE NoItems
  OBVIOUS
<1>6. PICK s \in Seq(Change) : s = Log(n)
  BY InLog
<1>7. PICK t \in Seq(Change) : t = Log(n)'
  OBVIOUS
<1>8. /\ saved[n].idx \in Nat /\ saved[n].items \in Items /\ Len(s) \in Nat /\ Len(t) \in Nat
      /\ saved[n].items = Replay(SubSeq(s, 1, saved[n].idx))
      /\ \A i \in 1..Len(s) : Deadly(s, i) => saved[n].idx < i
  BY <1>6, InLog DEF ReplicasOK, ReplicaOK
<1>9. /\ \A j \in Nat : j <= k => Replay(SubSeq(t, 1, j)) = Replay(SubSeq(s, 1, j))
      /\ \A i \in 1..k : Deadly(t, i) <=> Deadly(s, i)
  <2>1. k <= Len(t) /\ k <= Len(s) /\ \A i \in 1..k : t[i] = s[i]
    BY <1>6, <1>7
  <2> QED
    BY <2>1, LogsBeginAlike
<1>10. saved[n].items = Replay(SubSeq(t, 1, saved[n].idx)) /\ saved[n].idx <= Len(t)
  BY <1>7, <1>8, <1>9
<1>11. ASSUME NEW i \in 1..Len(t), Deadly(t, i) PROVE saved[n].idx < i
  <2>1. CASE i \in 1..k
    <3>1. i \in 1..Len(s)
      BY <1>6, <1>8, <2>1
    <3> QED
      BY <1>8, <1>9, <1>11, <2>1, <3>1
  <2>2. CASE i > k
    BY <1>8, <2>2
  <2> QED
    BY <1>8, <2>1, <2>2
<1>12. /\ st \in {"running", "stuck"}
       /\ status' = [status EXCEPT ![n] = st]
       /\ index' = [index EXCEPT ![n] = its] /\ applied' = [applied EXCEPT ![n] = a]
       /\ a \in Nat /\ a <= saved[n].idx /\ its \in Items
       /\ its = Replay(SubSeq(t, 1, a))
  <2>1. CASE CanLoad(n)
    <3>1. /\ status' = [status EXCEPT ![n] = "running"]
          /\ index' = [index EXCEPT ![n] = saved[n].items]
          /\ applied' = [applied EXCEPT ![n] = saved[n].idx]
      BY <2>1 DEF Start
    <3>2. st = "running" /\ a = saved[n].idx /\ its = saved[n].items
      BY <1>3, <1>4, <1>5, <2>1
    <3> QED
      BY <1>8, <1>10, <3>1, <3>2
  <2>2. CASE ~CanLoad(n)
    <3>1. /\ status' = [status EXCEPT ![n] = "stuck"]
          /\ index' = [index EXCEPT ![n] = NoItems]
          /\ applied' = [applied EXCEPT ![n] = 0]
      BY <2>2 DEF Start
    <3>2. NoItems = Replay(SubSeq(t, 1, 0))
      <4>1. SubSeq(t, 1, 0) = <<>>
        OBVIOUS
      <4> QED
        BY <4>1, ReplayNil
    <3>3. 0 \in Nat /\ 0 <= saved[n].idx
      BY <1>8
    <3>4. st = "stuck" /\ a = 0 /\ its = NoItems
      BY <1>3, <1>4, <1>5, <2>2
    <3> QED
      BY <3>1, <3>2, <3>3, <3>4, NoItemsType
  <2> QED
    BY <2>1, <2>2
<1>13. \A m \in Nodes : /\ status'[m] = (IF m = n THEN st ELSE status[m])
                        /\ index'[m] = (IF m = n THEN its ELSE index[m])
                        /\ applied'[m] = (IF m = n THEN a ELSE applied[m])
  BY <1>12 DEF Types
<1>14. Types'
  <2>1. status' \in [Nodes -> Statuses]
    BY <1>12 DEF Types, Statuses
  <2>2. index' \in [Nodes -> Items] /\ applied' \in [Nodes -> Nat]
    BY <1>12 DEF Types
  <2>4. crashes' \in 0..MaxCrashes
    BY ReplicasAssumption DEF Types, Start
  <2> QED
    BY <1>1, <2>1, <2>2, <2>4 DEF Types
<1>15. RaftHeldInCall'
  BY <1>1, <1>12, <1>13 DEF RaftHeldInCall, InCall, Loaded, Types
<1>16. ReplicaOK(n)'
  <2>1. a <= Len(t) /\ \A i \in 1..Len(t) : Deadly(t, i) => a < i
    BY <1>8, <1>10, <1>11, <1>12
  <2>2. index'[n] = its /\ applied'[n] = a /\ saved'[n] = saved[n]
    BY <1>1, <1>13
  <2> QED
    BY <1>7, <1>10, <1>11, <1>12, <2>1, <2>2 DEF ReplicaOK
<1>17. ASSUME NEW m \in Nodes, m # n PROVE ReplicaOK(m)'
  <2>1. ReplicaOK(m) /\ Log(m)' = Log(m) /\ status'[m] = status[m] /\ index'[m] = index[m]
        /\ applied'[m] = applied[m] /\ saved'[m] = saved[m]
    BY <1>1, <1>13, <1>17 DEF ReplicasOK
  <2> QED
    BY <2>1, ReplicaKept
<1>18. ReplicasOK'
  BY <1>16, <1>17 DEF ReplicasOK
<1>19. Told'
  BY <1>1, ToldKept
<1> QED
  BY <1>1, <1>14, <1>15, <1>18, <1>19, CallsKept

LEMMA LoadRaftKeeps == ASSUME IInv, NEW n \in Nodes, LoadRaft(n) PROVE IInv'
<1>1. Start(n) /\ own' = own /\ rlog' = rlog
  BY DEF LoadRaft, Start
<1>2. (Intact' => Intact) /\ \A m \in Nodes : Log(m)' = Log(m)
  BY <1>1 DEF Intact, Log
<1>3. own' \in [Nodes -> Seq(Change) \cup {Nothing}]
  BY <1>1 DEF IInv, Types
<1>4. PICK k : k = saved[n].idx
  OBVIOUS
<1>5. k \in Nat /\ saved[n].idx <= k /\ k <= Len(Log(n)) /\ Log(n) \in Seq(Change)
  BY <1>4, InLog DEF IInv, ReplicasOK, ReplicaOK
<1> QED
  BY <1>1, <1>2, <1>3, <1>5, StartKeeps

LEMMA StartOverKeeps == ASSUME IInv, NEW n \in Nodes, StartOver(n) PROVE IInv'
<1>1. Start(n) /\ rlog' = rlog
  BY DEF StartOver, Start
<1>2. PICK k \in Kept(n), m \in 0..MaxTail : \E tail \in [1..m -> pending] :
           own' = [own EXCEPT ![n] = SubSeq(Log(n), 1, k) \o tail]
  BY DEF StartOver
<1>3. PICK tail \in [1..m -> pending] : own' = [own EXCEPT ![n] = SubSeq(Log(n), 1, k) \o tail]
  BY <1>2
<1>4. tail \in Seq(Change)
  <2>1. m \in Nat /\ pending \subseteq Change
    BY <1>2, ReplicasAssumption DEF IInv, Types
  <2> QED
    BY <1>3, <2>1
<1>5. /\ own' \in [Nodes -> Seq(Change) \cup {Nothing}] /\ ~Intact'
      /\ \A o \in Nodes \ {n} : rlog' = rlog => Log(o)' = Log(o)
      /\ k \in Nat /\ k <= Len(Log(n)) /\ k <= Len(Log(n)') /\ applied[n] <= k /\ saved[n].idx <= k
      /\ Log(n)' \in Seq(Change) /\ \A i \in 1..k : Log(n)'[i] = Log(n)[i]
  BY <1>3, <1>4, OwnLog
<1> QED
  BY <1>1, <1>5, StartKeeps

LEMMA UnloadRaftKeeps == ASSUME IInv, NEW n \in Nodes, UnloadRaft(n) PROVE IInv'
<1> USE DEF IInv
<1>1. UNCHANGED <<rlog, pending, founders, own, index, applied, saved, pc, at, change, reply, crashes>>
      /\ status' = [status EXCEPT ![n] = "removed"]
  BY DEF UnloadRaft, raftVars, groupVars, callVars
<1>2. \A m \in Nodes : status'[m] = IF m = n THEN "removed" ELSE status[m]
  BY <1>1 DEF Types
<1>3. Types'
  BY <1>1 DEF Types, Statuses
<1>4. RaftHeldInCall'
  <2>1. \A c \in Calls : at[c] \in Nodes /\ ~(at[c] = n /\ InCall(c))
    BY DEF UnloadRaft, Types
  <2> QED
    BY <1>1, <1>2, <2>1 DEF RaftHeldInCall, InCall, Loaded
<1>5. ASSUME NEW m \in Nodes PROVE ReplicaOK(m)'
  <2>1. ReplicaOK(m) /\ Log(m)' = Log(m)
    BY <1>1 DEF ReplicasOK, Log
  <2>2. status'[m] = status[m] \/ ~Loaded(m)'
    BY <1>2 DEF Loaded
  <2> QED
    BY <1>1, <2>1, <2>2, ReplicaKept
<1>6. Told'
  <2>1. Intact' => Intact
    BY <1>1 DEF Intact
  <2> QED
    BY <1>1, <2>1, ToldKept
<1> QED
  BY <1>1, <1>3, <1>4, <1>5, <1>6, CallsKept DEF ReplicasOK

LEMMA StepKeeps == ASSUME IInv, [Next]_vars PROVE IInv'
<1>1. ASSUME NEW c \in Calls, Call(c) \/ Propose(c) \/ ProposeFails(c) \/ Wait(c) \/ Timeout(c)
      PROVE  IInv'
  BY <1>1, CallKeeps, CallsGoOn
<1>2. ASSUME NEW ch \in pending, Commit(ch) \/ Lose(ch) PROVE IInv'
  BY <1>2, CommitKeeps, LoseKeeps
<1>3. ASSUME NEW n \in Nodes, \/ Apply(n) \/ ApplyDies(n) \/ TakeSnapshot(n) \/ Stray(n)
                              \/ LoadRaft(n) \/ StartOver(n) \/ Crash(n) \/ UnloadRaft(n)
      PROVE  IInv'
  BY <1>3, ApplyKeeps, ApplyDiesKeeps, TakeSnapshotKeeps, StrayKeeps, LoadRaftKeeps, StartOverKeeps,
     CrashKeeps, UnloadRaftKeeps
<1>4. ASSUME NEW n \in Nodes, NEW m \in Nodes, ReceiveSnapshot(n, m) PROVE IInv'
  BY <1>4, ReceiveSnapshotKeeps
<1>5. CASE UNCHANGED vars
  <2> USE DEF IInv
  <2>1. UNCHANGED <<rlog, pending, founders, own, status, index, applied, saved, pc, at, change, reply, crashes>>
    BY <1>5 DEF vars
  <2>2. Types'
    BY <2>1 DEF Types
  <2>3. RaftHeldInCall'
    BY <2>1 DEF RaftHeldInCall, InCall, Loaded
  <2>4. Told'
    <3>1. Intact' => Intact
      BY <2>1 DEF Intact
    <3> QED
      BY <2>1, <3>1, ToldKept
  <2> QED
    BY <2>1, <2>2, <2>3, <2>4, ReplicasKept, CallsKept
<1> QED
  BY <1>1, <1>2, <1>3, <1>4, <1>5 DEF Next

-----------------------------------------------------------------------------
(* The invariants.                                                         *)

\* Every reachable state satisfies the inductive invariant.
THEOREM Invariance == Spec => []IInv
<1>1. Init => IInv
  BY Initially
<1>2. IInv /\ [Next]_vars => IInv'
  BY StepKeeps
<1> QED
  BY <1>1, <1>2, PTL DEF Spec

\* The state's types, and that a call which found partition.raft keeps it to its end.
THEOREM CallCorrect == Spec => []CallInvariant
<1>1. IInv => CallInvariant
  <2> SUFFICES ASSUME IInv PROVE TypeOK /\ RaftHeldInCall
    BY DEF CallInvariant
  <2> USE DEF IInv
  <2>1. \A n \in Nodes : applied[n] \in 0..Len(Log(n))
    BY InLog DEF ReplicasOK, ReplicaOK
  <2>2. \A n \in Nodes : saved[n].idx \in 0..Len(Log(n)) /\ saved[n].items \in Items
    BY InLog DEF ReplicasOK, ReplicaOK
  <2>3. \A c \in Calls : change[c] = Nothing \/ change[c] \in Change
    BY DEF Types
  <2>4. \A n \in Nodes : own[n] = Nothing \/ own[n] \in Seq(Change)
    BY DEF Types
  <2> QED
    BY <2>1, <2>2, <2>3, <2>4 DEF Types, TypeOK
<1> QED
  BY <1>1, Invariance, PTL

\* A replica's index, and its snapshot, are what the part of its log up to them builds: no
\* restart, replay or snapshot applies a change twice or leaves one out.
THEOREM Agreement == Spec => []ReplicasAgree
<1>1. IInv => ReplicasAgree
  BY DEF IInv, ReplicasOK, ReplicaOK, ReplicasAgree
<1> QED
  BY <1>1, Invariance, PTL

\* No replica gets past a change that ends the process which applies it, and no call is
\* told a result of one.
THEOREM DeadlyStops == Spec => []DeadlyForAll
<1>1. IInv => DeadlyForAll
  BY DEF IInv, ReplicasOK, ReplicaOK, Told, DeadlyForAll
<1> QED
  BY <1>1, Invariance, PTL

-----------------------------------------------------------------------------
(* The refinement: what is committed is what has taken effect.             *)

Effect ==
    [c \in Calls |->
        IF Positions(c) = {} THEN Nothing
        ELSE LET i == CHOOSE i \in Positions(c) : TRUE
             IN  Result(Replay(SubSeq(rlog, 1, i - 1)), rlog[i])]

LEMMA SameChange == Service!Change = Change
  BY DEF Service!Change, Change, Service!Kinds, Kinds

LEMMA SameNoItems == Service!NoItems = NoItems
  BY DEF Service!NoItems, NoItems

LEMMA SameItemAfter ==
    \A items, ch, i : Service!ItemAfter(items, ch, i) = ItemAfter(items, ch, i)
  BY DEF Service!ItemAfter, ItemAfter, Service!ErrorOf, ErrorOf, Service!NewItem, NewItem,
         Service!UpdatedItem, UpdatedItem

LEMMA SameCourse == \A items, ch : Service!Course(items, ch) = Course(items, ch)
  BY Zenon DEF Service!Course, Course, Service!ItemAfter, ItemAfter, Service!ErrorOf, ErrorOf, Service!NewItem,
         NewItem, Service!UpdatedItem, UpdatedItem

LEMMA SameItemsAfter == \A items, ch : Service!ItemsAfter(items, ch) = ItemsAfter(items, ch)
  BY SameCourse, Zenon DEF Service!ItemsAfter, ItemsAfter

LEMMA SameErrorOf == \A items, ch, i : Service!ErrorOf(items, ch, i) = ErrorOf(items, ch, i)
  BY DEF Service!ErrorOf, ErrorOf

LEMMA SameResult == \A items, ch : Service!Result(items, ch) = Result(items, ch)
<1>1. \A S : Service!Max(S) = Max(S)
  BY Zenon DEF Service!Max, Max
<1>2. \A s : Service!ToSet(s) = ToSet(s)
  BY Zenon DEF Service!ToSet, ToSet
<1> SUFFICES ASSUME NEW items, NEW ch PROVE Service!Result(items, ch) = Result(items, ch)
  OBVIOUS
<1> DEFINE before == Course(items, ch)
           Failing(i) == {k \in DOMAIN ch.ids : ch.ids[k] = i /\ ErrorOf(before[k], ch, i) # "none"}
           Failed1(i) == {k \in DOMAIN ch.ids : ch.ids[k] = i /\ Service!ErrorOf(before[k], ch, i) # "none"}
<1>3. Result(items, ch) = [i \in ToSet(ch.ids) \cap Ids |->
            IF Failing(i) = {} THEN "none" ELSE ErrorOf(before[Max(Failing(i))], ch, i)]
  BY Zenon DEF Result
<1>4. Service!Result(items, ch) = [i \in Service!ToSet(ch.ids) \cap Ids |->
            IF Failed1(i) = {} THEN "none"
            ELSE Service!ErrorOf(before[Service!Max(Failed1(i))], ch, i)]
  <2>1. Service!Course(items, ch) = before
    BY SameCourse
  <2> DEFINE started == Service!Course(items, ch)
             Failed0(i) == {k \in DOMAIN ch.ids : ch.ids[k] = i /\ Service!ErrorOf(started[k], ch, i) # "none"}
  <2>2. Service!Result(items, ch) = [i \in Service!ToSet(ch.ids) \cap Ids |->
            IF Failed0(i) = {} THEN "none"
            ELSE Service!ErrorOf(started[Service!Max(Failed0(i))], ch, i)]
    BY Zenon DEF Service!Result
  <2>3. started = before
    BY <2>1
  <2> HIDE DEF started, before
  <2> QED
    BY <2>2, <2>3
<1>5. \A i : Failed1(i) = Failing(i)
  BY SameErrorOf
<1> HIDE DEF before, Failing, Failed1
<1>6. \A i : (IF Failed1(i) = {} THEN "none" ELSE Service!ErrorOf(before[Service!Max(Failed1(i))], ch, i))
              = (IF Failing(i) = {} THEN "none" ELSE ErrorOf(before[Max(Failing(i))], ch, i))
  BY <1>1, <1>5, SameErrorOf
<1> QED
  BY <1>2, <1>3, <1>4, <1>6

\* What a call has brought about, once it is committed and before.
LEMMA EffectOf ==
    ASSUME IInv, NEW i \in DOMAIN rlog
    PROVE  Effect[rlog[i].call] = Result(Replay(SubSeq(rlog, 1, i - 1)), rlog[i])
<1>1. PICK c : c = rlog[i].call
  OBVIOUS
<1>2. c \in Calls /\ DOMAIN rlog = 1..Len(rlog)
  BY <1>1, InLog DEF IInv
<1>3. Positions(c) = {i}
  BY <1>1, <1>2 DEF Positions, IInv, ProposedOnce
<1>4. (CHOOSE j \in Positions(c) : TRUE) = i
  BY <1>3
<1> QED
  BY <1>1, <1>2, <1>3, <1>4 DEF Effect

LEMMA EffectNone ==
    ASSUME Types, NEW c \in Calls, \A i \in DOMAIN rlog : rlog[i].call # c
    PROVE  Effect[c] = Nothing
<1>1. Positions(c) = {}
  BY InLog DEF Positions
<1> QED
  BY <1>1 DEF Effect

LEMMA LogEffects ==
    IInv => \A i \in DOMAIN rlog :
               Effect[rlog[i].call] = Result(Replay(SubSeq(rlog, 1, i - 1)), rlog[i])
  BY EffectOf

LEMMA NoEffects ==
    IInv => \A c \in Calls : (\A i \in DOMAIN rlog : rlog[i].call # c) => Effect[c] = Nothing
  BY EffectNone DEF IInv

LEMMA LogEffectsNext ==
    ASSUME IInv'
    PROVE  (\A i \in DOMAIN rlog :
               Effect[rlog[i].call] = Result(Replay(SubSeq(rlog, 1, i - 1)), rlog[i]))'
  BY LogEffects, PTL

LEMMA NoEffectsNext ==
    ASSUME IInv'
    PROVE  (\A c \in Calls : (\A i \in DOMAIN rlog : rlog[i].call # c) => Effect[c] = Nothing)'
  BY NoEffects, PTL

LEMMA EffectKept == ASSUME rlog' = rlog PROVE Effect' = Effect
  BY DEF Effect, Positions

\* The steps of the service, in terms of the log.
LEMMA AskIs ==
    ASSUME NEW c \in Calls
    PROVE  Service!Ask(c) <=>
             /\ change[c] = Nothing
             /\ \E ch \in {change'[c]} :
                  /\ ch # Nothing /\ ch \in Service!Change /\ ch.call = c
                  /\ change' = [change EXCEPT ![c] = ch]
             /\ UNCHANGED <<Replay(rlog), Effect, reply>>
  BY Zenon DEF Service!Ask, Effect

LEMMA TakeEffectIs ==
    ASSUME NEW c \in Calls
    PROVE  Service!TakeEffect(c) <=>
             /\ change[c] # Nothing /\ reply[c] # Refused
             /\ UNCHANGED <<change, reply>>
             /\ Effect[c] = Nothing
             /\ \E now \in {Replay(rlog)} :
                  /\ (Replay(rlog))' = Service!ItemsAfter(now, change[c])
                  /\ Effect' = [Effect EXCEPT ![c] = Service!Result(now, change[c])]
  BY Zenon DEF Service!TakeEffect, Effect

LEMMA ReplyIs ==
    ASSUME NEW c \in Calls
    PROVE  Service!Reply(c) <=>
             /\ reply[c] = Nothing /\ reply'[c] # Nothing
             /\ Effect[c] # Nothing
             /\ reply' = [reply EXCEPT ![c] = Effect[c]]
             /\ UNCHANGED <<Replay(rlog), Effect, change>>
  BY Zenon DEF Service!Reply, Effect

LEMMA FailIs ==
    ASSUME NEW failing \in SUBSET Calls
    PROVE  Service!Fail(failing) <=>
             /\ \A c \in failing : reply[c] = Nothing
             /\ reply' = [c \in Calls |-> IF c \in failing THEN Failed ELSE reply[c]]
             /\ UNCHANGED <<Replay(rlog), Effect, change>>
  BY Zenon DEF Service!Fail, Effect

LEMMA RefuseIs ==
    ASSUME NEW c \in Calls
    PROVE  Service!Refuse(c) <=>
             /\ reply[c] = Nothing /\ Effect[c] = Nothing
             /\ reply' = [reply EXCEPT ![c] = Refused]
             /\ UNCHANGED <<Replay(rlog), Effect, change>>
  BY Zenon DEF Service!Refuse, Effect

LEMMA ServeIs ==
    Service!Serve <=> \/ \E c \in Calls : \/ Service!Ask(c) \/ Service!TakeEffect(c)
                                          \/ Service!Reply(c) \/ Service!Refuse(c)
                      \/ \E failing \in SUBSET Calls : Service!Fail(failing)
  BY Zenon DEF Service!Serve

LEMMA ServiceNextIs == Service!Next <=> (Intact /\ Intact' /\ Service!Serve) \/ ~Intact'
  BY Zenon DEF Service!Next

\* A replica that is started over, or has been, leaves the promise behind for good.
LEMMA StartOverBreaks == ASSUME IInv, NEW n \in Nodes, Stray(n) \/ StartOver(n) PROVE ~Intact'
<1>1. PICK k \in Kept(n), tail \in Seq(Change) : own' = [own EXCEPT ![n] = SubSeq(Log(n), 1, k) \o tail]
  <2>1. CASE Stray(n)
    <3>1. PICK k \in Kept(n) : \E ch \in Proposed : own' = [own EXCEPT ![n] = Append(SubSeq(Log(n), 1, k), ch)]
      BY <2>1 DEF Stray
    <3>2. PICK ch \in Proposed : own' = [own EXCEPT ![n] = Append(SubSeq(Log(n), 1, k), ch)]
      BY <3>1
    <3>3. ch \in Change
      BY DEF Proposed, IInv, Types
    <3>4. PICK t \in Seq(Change) : t = SubSeq(Log(n), 1, k)
      <4>1. SubSeq(Log(n), 1, k) \in Seq(Change)
        BY InLog DEF Kept, IInv
      <4> QED
        BY <4>1
    <3>5. Append(t, ch) = t \o <<ch>> /\ <<ch>> \in Seq(Change)
      BY <3>3
    <3> QED
      BY <3>2, <3>4, <3>5
  <2>2. CASE StartOver(n)
    <3>1. PICK k \in Kept(n), m \in 0..MaxTail : \E tail \in [1..m -> pending] :
             own' = [own EXCEPT ![n] = SubSeq(Log(n), 1, k) \o tail]
      BY <2>2 DEF StartOver
    <3>2. PICK tail \in [1..m -> pending] : own' = [own EXCEPT ![n] = SubSeq(Log(n), 1, k) \o tail]
      BY <3>1
    <3>3. m \in Nat /\ pending \subseteq Change
      BY <3>1, ReplicasAssumption DEF IInv, Types
    <3>4. tail \in Seq(Change)
      BY <3>2, <3>3
    <3> QED
      BY <3>2, <3>4
  <2> QED
    BY <2>1, <2>2
<1> QED
  BY <1>1, OwnLog DEF IInv

LEMMA IntactBefore == ASSUME IInv, [Next]_vars, Intact' PROVE Intact
<1>1. ASSUME NEW n \in Nodes, NEW m \in Nodes, ReceiveSnapshot(n, m) PROVE Intact
  <2>1. Log(m) # Nothing /\ own \in [Nodes -> Seq(Change) \cup {Nothing}]
    BY InLog, ReplicasAssumption DEF IInv, Types
  <2>2. own' = IF Intact THEN own ELSE [own EXCEPT ![n] = Log(m)]
    BY <1>1 DEF ReceiveSnapshot
  <2> QED
    BY <2>1, <2>2 DEF Intact
<1>2. ASSUME own' = own PROVE Intact
  BY <1>2 DEF Intact
<1>3. ASSUME NEW c \in Calls, Call(c) \/ Propose(c) \/ ProposeFails(c) \/ Wait(c) \/ Timeout(c) PROVE Intact
  BY <1>2, <1>3 DEF Call, Propose, ProposeFails, Wait, Timeout, raftVars, groupVars
<1>4. ASSUME NEW ch \in pending, Commit(ch) \/ Lose(ch) PROVE Intact
  BY <1>2, <1>4 DEF Commit, Lose, groupVars
<1>5. ASSUME NEW n \in Nodes, Apply(n) \/ ApplyDies(n) \/ TakeSnapshot(n) \/ LoadRaft(n) \/ Crash(n) \/ UnloadRaft(n)
      PROVE  Intact
  BY <1>2, <1>5 DEF Apply, ApplyDies, TakeSnapshot, LoadRaft, Crash, UnloadRaft, raftVars, groupVars
<1>6. ASSUME NEW n \in Nodes, Stray(n) \/ StartOver(n) PROVE Intact
  BY <1>6, StartOverBreaks
<1>7. CASE UNCHANGED vars
  BY <1>2, <1>7 DEF vars
<1> QED
  BY <1>1, <1>3, <1>4, <1>5, <1>6, <1>7 DEF Next

\* While nothing is committed, what has taken effect stays.
LEMMA LogKept ==
    ASSUME rlog' = rlog
    PROVE  UNCHANGED <<Replay(rlog), Effect>>
  BY EffectKept

\* A call that returns Failed, and those that end with their process, fail.
LEMMA FailRefines ==
    ASSUME IInv, NEW failing \in SUBSET Calls, rlog' = rlog, change' = change,
           \A c \in failing : pc[c] # "done",
           reply' = [c \in Calls |-> IF c \in failing THEN Failed ELSE reply[c]]
    PROVE  Service!Serve
<1>1. \A c \in failing : reply[c] = Nothing
  BY DEF IInv, CallsOK
<1>2. Service!Fail(failing)
  BY <1>1, LogKept, FailIs
<1> QED
  BY <1>2, ServeIs

\* What happens at the replicas and on the way to raft is not seen.
LEMMA Unseen ==
    ASSUME Intact, Intact', UNCHANGED <<rlog, change, reply>>
    PROVE  UNCHANGED Service!vars
<1>1. UNCHANGED <<Replay(rlog), Effect>>
  BY LogKept
<1>2. Intact' = Intact
  BY DEF Intact
<1>3. UNCHANGED <<Replay(rlog), Effect, change, reply, Intact>>
  BY <1>1, <1>2
<1> QED
  BY <1>3, Zenon DEF Service!vars, Effect

LEMMA CallRefines ==
    ASSUME IInv, NEW c \in Calls, Call(c) PROVE Service!Serve
<1> USE DEF IInv
<1>1. UNCHANGED <<Replay(rlog), Effect>>
  BY LogKept DEF Call, raftVars
<1>2. pc[c] = "idle" /\ change[c] = Nothing /\ reply[c] = Nothing
  BY DEF Call, CallsOK
<1>3. CASE Loaded(at[c])
  <2>1. PICK ch \in Change : ch.call = c /\ change' = [change EXCEPT ![c] = ch] /\ reply' = reply
    BY <1>3 DEF Call, Asks
  <2>2. change'[c] = ch /\ ch # Nothing
    BY <2>1, ReplicasAssumption DEF Types
  <2>3. Service!Ask(c)
    <3>1. \E asked \in {change'[c]} : /\ asked # Nothing /\ asked \in Service!Change /\ asked.call = c
                                     /\ change' = [change EXCEPT ![c] = asked]
      <4>1. /\ change'[c] \in {change'[c]} /\ change'[c] # Nothing /\ change'[c] \in Service!Change
            /\ change'[c].call = c /\ change' = [change EXCEPT ![c] = change'[c]]
        <5>1. ch \in Service!Change
          BY SameChange
        <5>2. change' = [change EXCEPT ![c] = change'[c]]
          BY <2>1, <2>2, Zenon
        <5> QED
          BY <2>1, <2>2, <5>1, <5>2, Zenon
      <4> QED
        BY <4>1, Zenon
    <3>2. UNCHANGED <<Replay(rlog), Effect, reply>>
      BY <1>1, <2>1
    <3> QED
      BY <1>2, <3>1, <3>2, AskIs
  <2> QED
    BY <2>3, ServeIs
<1>4. CASE ~Loaded(at[c])
  <2>1. reply' = [reply EXCEPT ![c] = Refused] /\ change' = change
    BY <1>4 DEF Call, Done
  <2>2. Effect[c] = Nothing
    <3>1. \A i \in DOMAIN rlog : rlog[i].call # c
      BY <1>2 DEF ProposedOnce
    <3> QED
      BY <3>1, EffectNone
  <2>3. Service!Refuse(c)
    BY <1>1, <1>2, <2>1, <2>2, RefuseIs
  <2> QED
    BY <2>3, ServeIs
<1> QED
  BY <1>3, <1>4

\* One call at a time fails by itself.
LEMMA CallFails ==
    ASSUME IInv, NEW c \in Calls, pc[c] # "done", rlog' = rlog, change' = change,
           reply' = [reply EXCEPT ![c] = Failed]
    PROVE  Service!Serve
<1>1. reply \in [Calls -> Results \cup {Nothing, Failed, Refused}]
  BY DEF IInv, Types
<1>2. reply' = [d \in Calls |-> IF d \in {c} THEN Failed ELSE reply[d]]
  BY <1>1
<1> QED
  BY <1>2, FailRefines

\* A commitment takes effect: on the index so far, with its result, and never again.
LEMMA CommitRefines ==
    ASSUME IInv, IInv', NEW ch \in pending, Commit(ch) PROVE Service!Serve
<1> USE DEF IInv
<1>1. UNCHANGED <<change, reply, pc>> /\ rlog' = Append(rlog, ch) /\ ch \in Change /\ rlog \in Seq(Change)
  BY DEF Commit, callVars, Types
<1>2. /\ Len(rlog') = Len(rlog) + 1 /\ Len(rlog) \in Nat /\ rlog' \in Seq(Change)
      /\ DOMAIN rlog = 1..Len(rlog) /\ DOMAIN rlog' = 1..Len(rlog) + 1
      /\ rlog'[Len(rlog) + 1] = ch /\ \A i \in 1..Len(rlog) : rlog'[i] = rlog[i]
  BY <1>1
<1>3. PICK c : c = ch.call
  OBVIOUS
<1>4. c \in Calls /\ change[c] = ch /\ change[c] # Nothing /\ \A i \in DOMAIN rlog : rlog[i].call # c
  BY <1>1, <1>3, ChangeIs, ReplicasAssumption DEF ProposedOnce
<1>5. reply[c] # Refused
  BY <1>4 DEF CallsOK
<1>6. Effect[c] = Nothing
  BY <1>4, EffectNone
<1>7. (Replay(rlog))' = ItemsAfter(Replay(rlog), ch)
  BY <1>1, ReplayAppend
<1>8. Effect' = [Effect EXCEPT ![c] = Result(Replay(rlog), ch)]
  <2>1. Effect'[c] = Result(Replay(rlog), ch)
    <3>1. IInv' /\ Len(rlog) + 1 \in DOMAIN rlog'
      BY <1>2
    <3>2. Effect'[rlog'[Len(rlog) + 1].call]
             = Result(Replay(SubSeq(rlog', 1, Len(rlog) + 1 - 1)), rlog'[Len(rlog) + 1])
      <4>2. (\A i \in DOMAIN rlog :
               Effect[rlog[i].call] = Result(Replay(SubSeq(rlog, 1, i - 1)), rlog[i]))'
        BY LogEffectsNext
      <4> QED
        BY <3>1, <4>2
    <3>3. SubSeq(rlog', 1, Len(rlog) + 1 - 1) = rlog
      BY <1>1, <1>2
    <3> QED
      BY <1>2, <1>3, <3>2, <3>3
  <2>2. ASSUME NEW d \in Calls, d # c PROVE Effect'[d] = Effect[d]
    <3>1. CASE \A i \in DOMAIN rlog : rlog[i].call # d
      <4>1. \A i \in DOMAIN rlog' : i \in DOMAIN rlog \/ i = Len(rlog) + 1
        BY <1>2
      <4>2. \A i \in DOMAIN rlog' : rlog'[i].call # d
        BY <1>2, <1>3, <2>2, <3>1, <4>1
      <4>3. (\A e \in Calls : (\A i \in DOMAIN rlog : rlog[i].call # e) => Effect[e] = Nothing)'
        BY NoEffectsNext
      <4> QED
        BY <3>1, <4>2, <4>3, EffectNone
    <3>2. CASE \E i \in DOMAIN rlog : rlog[i].call = d
      <4>1. PICK i \in DOMAIN rlog : rlog[i].call = d
        BY <3>2
      <4>2. Effect[d] = Result(Replay(SubSeq(rlog, 1, i - 1)), rlog[i])
        BY <4>1, EffectOf
      <4>3. i \in DOMAIN rlog' /\ rlog'[i] = rlog[i] /\ i \in 1..Len(rlog)
        BY <1>2, <4>1
      <4>4. Effect'[rlog'[i].call] = Result(Replay(SubSeq(rlog', 1, i - 1)), rlog'[i])
        <5>1. (\A j \in DOMAIN rlog :
                 Effect[rlog[j].call] = Result(Replay(SubSeq(rlog, 1, j - 1)), rlog[j]))'
          BY LogEffectsNext
        <5> QED
          BY <4>3, <5>1
      <4>5. Replay(SubSeq(rlog', 1, i - 1)) = Replay(SubSeq(rlog, 1, i - 1))
        <5>1. i - 1 \in Nat /\ i - 1 <= Len(rlog) /\ i - 1 <= Len(rlog')
              /\ \A j \in 1..(i - 1) : rlog'[j] = rlog[j]
          BY <1>2, <4>3
        <5> QED
          BY <1>1, <1>2, <5>1, ReplayPrefix
      <4> QED
        BY <4>1, <4>2, <4>3, <4>4, <4>5
    <3> QED
      BY <3>1, <3>2
  <2>3. Effect' = [d \in Calls |-> Effect'[d]] /\ Effect = [d \in Calls |-> Effect[d]]
    BY DEF Effect
  <2> QED
    BY <1>4, <2>1, <2>2, <2>3
<1>9. Service!TakeEffect(c)
  <2>1. (Replay(rlog))' = Service!ItemsAfter(Replay(rlog), change[c])
        /\ Effect' = [Effect EXCEPT ![c] = Service!Result(Replay(rlog), change[c])]
    BY <1>4, <1>7, <1>8, SameItemsAfter, SameResult
  <2> QED
    BY <1>1, <1>4, <1>5, <1>6, <2>1, TakeEffectIs
<1> QED
  BY <1>4, <1>9, ServeIs

\* The proposer that still waits where its change is applied is told what it has effected.
LEMMA ApplyRefines ==
    ASSUME IInv, Intact, Intact', NEW n \in Nodes, Apply(n) PROVE Service!Serve \/ UNCHANGED Service!vars
<1> USE DEF IInv
<1>1. UNCHANGED <<rlog, change>>
  BY DEF Apply, raftVars
<1>2. PICK ch : ch = rlog[applied[n] + 1]
  OBVIOUS
<1>3. status[n] = "running" /\ applied[n] < Len(rlog)
      /\ reply' = [c \in Calls |-> IF c \in Notified(n, ch) THEN Result(index[n], ch) ELSE reply[c]]
  BY <1>2, OneLog DEF Apply, ApplyChange
<1>4. applied[n] \in Nat /\ applied[n] + 1 \in DOMAIN rlog /\ applied[n] + 1 - 1 = applied[n]
  BY <1>3, InLog
<1>5. ch \in Change /\ ch.call \in Calls
  BY <1>2, <1>4, InLog
<1>6. index[n] = Replay(SubSeq(rlog, 1, applied[n]))
  BY <1>3, OneLog DEF ReplicasOK, ReplicaOK, Loaded
<1>7. Effect[ch.call] = Result(index[n], ch)
  BY <1>2, <1>4, <1>6, EffectOf
<1>8. reply \in [Calls -> Results \cup {Nothing, Failed, Refused}]
  BY DEF Types
<1>9. CASE ch.call \in Notified(n, ch)
  <2>1. \A c \in Calls : c \in Notified(n, ch) <=> c = ch.call
    BY <1>9 DEF Notified
  <2>2. reply' = [reply EXCEPT ![ch.call] = Effect[ch.call]]
    BY <1>3, <1>7, <1>8, <2>1
  <2>3. Result(index[n], ch) # Nothing
    BY <1>5, ResultType, ReplicasAssumption
  <2>4. reply'[ch.call] # Nothing
    BY <1>5, <1>7, <1>8, <2>2, <2>3
  <2>5. reply[ch.call] = Nothing
    BY <1>5, <1>9 DEF Notified, CallsOK
  <2>6. Service!Reply(ch.call)
    BY <1>1, <1>5, <1>7, <2>2, <2>3, <2>4, <2>5, LogKept, ReplyIs
  <2> QED
    BY <1>5, <2>6, ServeIs
<1>10. CASE ch.call \notin Notified(n, ch)
  <2>1. \A c \in Calls : c \notin Notified(n, ch)
    BY <1>10 DEF Notified
  <2>2. reply' = reply
    BY <1>3, <1>8, <2>1
  <2> QED
    BY <1>1, <2>2, Unseen
<1> QED
  BY <1>9, <1>10

LEMMA DiesRefines ==
    ASSUME IInv, NEW n \in Nodes, NEW how, Dies(n, how), rlog' = rlog, change' = change
    PROVE  Service!Serve
<1>1. reply' = [c \in Calls |-> IF c \in Aborted(n) THEN Failed ELSE reply[c]]
  BY DEF Dies
<1>2. Aborted(n) \in SUBSET Calls /\ \A c \in Aborted(n) : pc[c] # "done"
  BY DEF Aborted, InCall
<1> QED
  BY <1>1, <1>2, FailRefines

LEMMA StepRefines == ASSUME IInv, IInv', [Next]_vars PROVE Service!Next \/ UNCHANGED Service!vars
<1> SUFFICES ASSUME Intact' PROVE Service!Serve \/ UNCHANGED Service!vars
  BY IntactBefore, ServiceNextIs
<1>0. Intact
  BY IntactBefore
<1>1. ASSUME NEW c \in Calls, Call(c) PROVE Service!Serve
  BY <1>1, CallRefines
<1>2. ASSUME NEW c \in Calls, Propose(c) \/ Wait(c) PROVE UNCHANGED Service!vars
  <2>1. UNCHANGED <<rlog, change, reply>>
    BY <1>2 DEF Propose, Wait, raftVars
  <2> QED
    BY <1>0, <2>1, Unseen
<1>3. ASSUME NEW c \in Calls, ProposeFails(c) \/ Timeout(c) PROVE Service!Serve
  <2>1. pc[c] # "done" /\ rlog' = rlog /\ change' = change /\ reply' = [reply EXCEPT ![c] = Failed]
    BY <1>3 DEF ProposeFails, Timeout, Done, raftVars
  <2> QED
    BY <2>1, CallFails
<1>4. ASSUME NEW ch \in pending, Commit(ch) PROVE Service!Serve
  BY <1>4, CommitRefines
<1>5. ASSUME NEW ch \in pending, Lose(ch) PROVE UNCHANGED Service!vars
  <2>1. UNCHANGED <<rlog, change, reply>>
    BY <1>5 DEF Lose, callVars
  <2> QED
    BY <1>0, <2>1, Unseen
<1>6. ASSUME NEW n \in Nodes, Apply(n) PROVE Service!Serve \/ UNCHANGED Service!vars
  BY <1>0, <1>6, ApplyRefines
<1>7. ASSUME NEW n \in Nodes, ApplyDies(n) \/ Crash(n) PROVE Service!Serve
  <2>1. (Dies(n, "panicked") \/ Dies(n, "dead")) /\ rlog' = rlog /\ change' = change
    BY <1>7 DEF ApplyDies, Crash, raftVars
  <2> QED
    BY <2>1, DiesRefines
<1>8. ASSUME NEW n \in Nodes, TakeSnapshot(n) \/ LoadRaft(n) \/ UnloadRaft(n)
      PROVE  UNCHANGED Service!vars
  <2>1. UNCHANGED <<rlog, change, reply>>
    BY <1>8 DEF TakeSnapshot, LoadRaft, Start, UnloadRaft, raftVars, callVars
  <2> QED
    BY <1>0, <2>1, Unseen
<1>9. ASSUME NEW n \in Nodes, NEW m \in Nodes, ReceiveSnapshot(n, m)
      PROVE  Service!Serve \/ UNCHANGED Service!vars
  <2>1. rlog' = rlog /\ change' = change /\ (reply' = reply \/ Dies(n, "panicked"))
    BY <1>9 DEF ReceiveSnapshot
  <2> QED
    BY <1>0, <2>1, Unseen, DiesRefines
<1>10. ASSUME NEW n \in Nodes, Stray(n) \/ StartOver(n) PROVE FALSE
  BY <1>10, StartOverBreaks
<1>11. CASE UNCHANGED vars
  <2>1. UNCHANGED <<rlog, change, reply>>
    BY <1>11 DEF vars
  <2> QED
    BY <1>0, <2>1, Unseen
<1> QED
  BY <1>1, <1>2, <1>3, <1>4, <1>5, <1>6, <1>7, <1>8, <1>9, <1>10, <1>11 DEF Next

LEMMA InitRefines == ASSUME Init PROVE Service!Init
<1>1. rlog = <<>> /\ Len(rlog) = 0 /\ change = [c \in Calls |-> Nothing] /\ reply = [c \in Calls |-> Nothing]
  BY DEF Init
<1>2. Replay(rlog) = Service!NoItems
  BY <1>1, ReplayNil, SameNoItems
<1>3. \A c \in Calls : Positions(c) = {}
  BY <1>1 DEF Positions
<1>4. Effect = [c \in Calls |-> Nothing]
  BY <1>3 DEF Effect
<1>5. Service!Init <=> /\ Replay(rlog) = Service!NoItems
                       /\ Effect = [c \in Calls |-> Nothing]
                       /\ change = [c \in Calls |-> Nothing]
                       /\ reply = [c \in Calls |-> Nothing]
                       /\ Intact = TRUE
  BY Zenon DEF Service!Init, Effect
<1>6. Intact = TRUE
  BY DEF Init, Intact
<1> QED
  BY <1>1, <1>2, <1>4, <1>5, <1>6

\* As long as no replica was started over, what the clients see is one index, changed by
\* one call at a time: a call that returns its result has changed it exactly once, with
\* that result, across timeouts, lost wake-ups, crashes, replays of the log and
\* snapshots; a refused call never has.
THEOREM ImplementsService == Spec => ImplementsIndexService
<1>1. Init => Service!Init
  BY InitRefines
<1>2. IInv /\ IInv' /\ [Next]_vars => [Service!Next]_(Service!vars)
  BY StepRefines
<1> QED
  BY <1>1, <1>2, Invariance, PTL DEF Spec, ImplementsIndexService, Service!Spec
=============================================================================
