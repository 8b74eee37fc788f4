---------------------------- MODULE ZeroGroup_proofs ----------------------------
(***************************************************************************)
(* Proof, for every set of nodes and datasets, and every length of the log, *)
(* of what a node of the zero group knows: the members' addresses, the     *)
(* datasets, and the members that its snapshots carry (the safety          *)
(* properties of ZeroGroup).                                               *)
(***************************************************************************)
EXTENDS ZeroGroup, WellFoundedInduction, TLAPS

-----------------------------------------------------------------------------
(* The inductive invariant. *)

AddressMaps == [Nodes -> {"none", "blank", "right"}]
DatasetMaps == [Datasets -> Nat]
Snapshots == [idx : Nat, members : SUBSET Nodes, datasets : DatasetMaps,
              exact : BOOLEAN, stale : BOOLEAN]

Types ==
    /\ zlog \in Seq(Entries) /\ Len(zlog) <= MaxLog
    /\ stage \in [Nodes -> {"dead", "group", "proxy", "serving"}]
    /\ have \in [Nodes -> Nat] /\ snap \in [Nodes -> Snapshots] /\ applied \in [Nodes -> Nat]
    /\ members \in [Nodes -> SUBSET Nodes] /\ confState \in [Nodes -> SUBSET Nodes]
    /\ datasets \in [Nodes -> DatasetMaps]
    /\ addresses \in [Nodes -> AddressMaps] /\ stream \in [Nodes -> Seq(AddressMaps)]
    /\ exact \in [Nodes -> BOOLEAN] /\ installed \in [Nodes -> {"no", "stale", "refreshed", "wrong"}]
    /\ introduced \in [Nodes -> BOOLEAN]
    /\ crashes \in 0..MaxCrashes /\ snapshots \in 0..MaxSnapshots

\* How far a node is: what it applied is in its WAL, as is its snapshot.  A dataset's
\* placement has changed at most once with each entry.
LogInv ==
    /\ Len(zlog) >= 1 /\ zlog[1] = Join(Boot)
    /\ \A n \in Nodes :
         /\ applied[n] <= have[n] /\ have[n] <= Len(zlog) /\ snap[n].idx <= have[n]
         /\ \A d \in Datasets : datasets[n][d] <= applied[n] /\ snap[n].datasets[d] <= snap[n].idx

\* The addresses of a node that is down are those of a node that starts.
AddressInv ==
    \A n, m \in Nodes :
      /\ addresses[n][m] = "blank" => m = Boot
      /\ stream[n] # <<>> /\ stream[n][1][m] = "blank" => m = Boot
      /\ (m \in MembersAt[applied[n]] /\ addresses[n][m] = "none") => installed[n] # "no"
      /\ (n # m /\ m \notin MembersAt[applied[n]] /\ addresses[n][m] # "none")
            => introduced[n] \/ installed[n] # "no"

\* Raft's configuration is that of the log, but for Boot, which knows itself before it
\* applies its first entry; so is the one that snapshots are made with.
MemberInv ==
    \A n \in Nodes :
      /\ installed[n] # "wrong" =>
            \/ members[n] = MembersAt[applied[n]]
            \/ applied[n] = 0 /\ members[n] \subseteq {Boot}
      /\ installed[n] \in {"no", "refreshed"} /\ confState[n] # NoConf
            => confState[n] = MembersAt[applied[n]]
      /\ ~snap[n].stale => snap[n].members = MembersAt[snap[n].idx]

DatasetInv ==
    \A n \in Nodes :
      /\ exact[n] => datasets[n] = DatasetsAt[applied[n]]
      /\ snap[n].exact => snap[n].datasets = DatasetsAt[snap[n].idx]

IInv == Types /\ LogInv /\ AddressInv /\ MemberInv /\ DatasetInv

-----------------------------------------------------------------------------
(* What the log is at each index: the two recursive functions are defined, *)
(* and an entry that is added changes nothing before it.                   *)

LessThan == {r \in Nat \X Nat : r[1] < r[2]}

\* Induction, for a set of naturals.
LEMMA NatInduct ==
    ASSUME NEW S, 0 \in S, \A n \in Nat : n \in S => n + 1 \in S
    PROVE  Nat \subseteq S
<1> DEFINE T == Nat \ S
<1> SUFFICES ASSUME T # {} PROVE FALSE
  OBVIOUS
<1>1. LessThan = OpToRel(<, Nat)
  BY DEF LessThan, OpToRel
<1>2. PICK x \in T : \A y \in T : <<y, x>> \notin LessThan
  BY <1>1, NatLessThanWellFounded, WFMin
<1>3. x # 0 /\ x - 1 \in Nat /\ x - 1 \in T
  BY <1>2
<1>4. <<x - 1, x>> \in LessThan
  <2>1. <<x - 1, x>> \in Nat \X Nat /\ <<x - 1, x>>[1] < <<x - 1, x>>[2]
    BY <1>3
  <2> QED
    BY <2>1 DEF LessThan
<1> QED
  BY <1>2, <1>3, <1>4

MembersRec == \A i \in 0..MaxLog :
    MembersAt[i] = IF i = 0 THEN {} ELSE MembersAfter(zlog[i], MembersAt[i - 1])

\* By induction the function is defined on every initial segment of the log.
LEMMA MembersAtIs == MembersRec
<1> DEFINE Def(f, m) == f = [i \in 0..m |-> IF i = 0 THEN {}
                                            ELSE MembersAfter(zlog[i], f[i - 1])]
           S == {m \in Nat : \E f : Def(f, m)}
<1>1. 0 \in S
  <2>1. Def([i \in 0..0 |-> {}], 0)
    OBVIOUS
  <2> QED
    BY <2>1
<1>2. ASSUME NEW m \in Nat, m \in S PROVE m + 1 \in S
  <2>1. PICK f : Def(f, m)
    BY <1>2
  <2> DEFINE h == [i \in 0..m + 1 |-> IF i = m + 1 THEN MembersAfter(zlog[m + 1], f[m]) ELSE f[i]]
  <2>2. ASSUME NEW i \in 0..m + 1
        PROVE  h[i] = IF i = 0 THEN {} ELSE MembersAfter(zlog[i], h[i - 1])
    <3>1. CASE i = m + 1
      <4>1. h[i] = MembersAfter(zlog[i], f[m]) /\ i - 1 = m /\ h[m] = f[m] /\ i # 0
        BY <3>1
      <4> QED
        BY <4>1
    <3>2. CASE i # m + 1
      <4>1. i \in 0..m /\ h[i] = f[i]
        BY <3>2
      <4>2. i # 0 => h[i - 1] = f[i - 1]
        BY <3>2
      <4>3. f[i] = IF i = 0 THEN {} ELSE MembersAfter(zlog[i], f[i - 1])
        BY <2>1, <4>1
      <4> HIDE DEF h
      <4> QED
        BY <4>1, <4>2, <4>3
    <3> QED
      BY <3>1, <3>2
  <2>3. Def(h, m + 1)
    <3>1. h = [i \in 0..m + 1 |-> h[i]]
      OBVIOUS
    <3> HIDE DEF h
    <3> QED
      BY <2>2, <3>1
  <2>4. \E f2 : Def(f2, m + 1)
    <3> HIDE DEF h, Def
    <3> QED
      BY <2>3
  <2> HIDE DEF Def
  <2> QED
    BY <2>4
<1>3. Nat \subseteq S
  <2> HIDE DEF S
  <2> QED
    BY <1>1, <1>2, NatInduct
<1>4. \E f : Def(f, MaxLog)
  BY <1>3, ZeroGroupAssumption
<1>5. Def(MembersAt, MaxLog)
  <2> DEFINE chosen == CHOOSE f : Def(f, MaxLog)
  <2>1. MembersAt = chosen
    BY DEF MembersAt
  <2>2. Def(chosen, MaxLog)
    <3> HIDE DEF Def
    <3> QED
      BY <1>4
  <2> HIDE DEF chosen, Def
  <2> QED
    BY <2>1, <2>2
<1> QED
  BY <1>5 DEF MembersRec

LEMMA MembersStable ==
    ASSUME zlog \in Seq(Entries), Len(zlog) <= MaxLog,
           \A i \in 1..Len(zlog) : zlog'[i] = zlog[i],
           MembersRec, MembersRec'
    PROVE  \A i \in 0..Len(zlog) : MembersAt'[i] = MembersAt[i]
<1> DEFINE S == {m \in Nat : m <= Len(zlog) => MembersAt'[m] = MembersAt[m]}
<1>0. Len(zlog) \in Nat /\ MaxLog \in Nat
  BY ZeroGroupAssumption
<1>1. 0 \in S
  <2>1. MembersAt[0] = {} /\ MembersAt'[0] = {}
    BY <1>0 DEF MembersRec
  <2> QED
    BY <2>1
<1>2. ASSUME NEW m \in Nat, m \in S PROVE m + 1 \in S
  <2> SUFFICES ASSUME m + 1 <= Len(zlog) PROVE MembersAt'[m + 1] = MembersAt[m + 1]
    OBVIOUS
  <2>1. m + 1 \in 1..Len(zlog) /\ m + 1 \in 0..MaxLog /\ m + 1 # 0 /\ m + 1 - 1 = m /\ m <= Len(zlog)
    BY <1>0
  <2>2. MembersAt[m + 1] = MembersAfter(zlog[m + 1], MembersAt[m + 1 - 1])
    BY <2>1 DEF MembersRec
  <2>3. MembersAt'[m + 1] = MembersAfter(zlog'[m + 1], MembersAt'[m + 1 - 1])
    BY <2>1 DEF MembersRec
  <2>4. MembersAt'[m] = MembersAt[m] /\ zlog'[m + 1] = zlog[m + 1]
    BY <1>2, <2>1
  <2> QED
    BY <2>1, <2>2, <2>3, <2>4
<1>3. Nat \subseteq S
  <2> HIDE DEF S
  <2> QED
    BY <1>1, <1>2, NatInduct
<1> QED
  BY <1>0, <1>3

DatasetsRec == \A i \in 0..MaxLog :
    DatasetsAt[i] = IF i = 0 THEN NoDatasets ELSE DatasetsAfter(zlog[i], DatasetsAt[i - 1])

\* By induction the function is defined on every initial segment of the log.
LEMMA DatasetsAtIs == DatasetsRec
<1> DEFINE Def(f, m) == f = [i \in 0..m |-> IF i = 0 THEN NoDatasets
                                            ELSE DatasetsAfter(zlog[i], f[i - 1])]
           S == {m \in Nat : \E f : Def(f, m)}
<1>1. 0 \in S
  <2>1. Def([i \in 0..0 |-> NoDatasets], 0)
    OBVIOUS
  <2> QED
    BY <2>1
<1>2. ASSUME NEW m \in Nat, m \in S PROVE m + 1 \in S
  <2>1. PICK f : Def(f, m)
    BY <1>2
  <2> DEFINE h == [i \in 0..m + 1 |-> IF i = m + 1 THEN DatasetsAfter(zlog[m + 1], f[m]) ELSE f[i]]
  <2>2. ASSUME NEW i \in 0..m + 1
        PROVE  h[i] = IF i = 0 THEN NoDatasets ELSE DatasetsAfter(zlog[i], h[i - 1])
    <3>1. CASE i = m + 1
      <4>1. h[i] = DatasetsAfter(zlog[i], f[m]) /\ i - 1 = m /\ h[m] = f[m] /\ i # 0
        BY <3>1
      <4> QED
        BY <4>1
    <3>2. CASE i # m + 1
      <4>1. i \in 0..m /\ h[i] = f[i]
        BY <3>2
      <4>2. i # 0 => h[i - 1] = f[i - 1]
        BY <3>2
      <4>3. f[i] = IF i = 0 THEN NoDatasets ELSE DatasetsAfter(zlog[i], f[i - 1])
        BY <2>1, <4>1
      <4> HIDE DEF h
      <4> QED
        BY <4>1, <4>2, <4>3
    <3> QED
      BY <3>1, <3>2
  <2>3. Def(h, m + 1)
    <3>1. h = [i \in 0..m + 1 |-> h[i]]
      OBVIOUS
    <3> HIDE DEF h
    <3> QED
      BY <2>2, <3>1
  <2>4. \E f2 : Def(f2, m + 1)
    <3> HIDE DEF h, Def
    <3> QED
      BY <2>3
  <2> HIDE DEF Def
  <2> QED
    BY <2>4
<1>3. Nat \subseteq S
  <2> HIDE DEF S
  <2> QED
    BY <1>1, <1>2, NatInduct
<1>4. \E f : Def(f, MaxLog)
  BY <1>3, ZeroGroupAssumption
<1>5. Def(DatasetsAt, MaxLog)
  <2> DEFINE chosen == CHOOSE f : Def(f, MaxLog)
  <2>1. DatasetsAt = chosen
    BY DEF DatasetsAt
  <2>2. Def(chosen, MaxLog)
    <3> HIDE DEF Def
    <3> QED
      BY <1>4
  <2> HIDE DEF chosen, Def
  <2> QED
    BY <2>1, <2>2
<1> QED
  BY <1>5 DEF DatasetsRec

LEMMA DatasetsStable ==
    ASSUME zlog \in Seq(Entries), Len(zlog) <= MaxLog,
           \A i \in 1..Len(zlog) : zlog'[i] = zlog[i],
           DatasetsRec, DatasetsRec'
    PROVE  \A i \in 0..Len(zlog) : DatasetsAt'[i] = DatasetsAt[i]
<1> DEFINE S == {m \in Nat : m <= Len(zlog) => DatasetsAt'[m] = DatasetsAt[m]}
<1>0. Len(zlog) \in Nat /\ MaxLog \in Nat
  BY ZeroGroupAssumption
<1>1. 0 \in S
  <2>1. DatasetsAt[0] = NoDatasets /\ DatasetsAt'[0] = NoDatasets
    BY <1>0 DEF DatasetsRec, NoDatasets
  <2> QED
    BY <2>1
<1>2. ASSUME NEW m \in Nat, m \in S PROVE m + 1 \in S
  <2> SUFFICES ASSUME m + 1 <= Len(zlog) PROVE DatasetsAt'[m + 1] = DatasetsAt[m + 1]
    OBVIOUS
  <2>1. m + 1 \in 1..Len(zlog) /\ m + 1 \in 0..MaxLog /\ m + 1 # 0 /\ m + 1 - 1 = m /\ m <= Len(zlog)
    BY <1>0
  <2>2. DatasetsAt[m + 1] = DatasetsAfter(zlog[m + 1], DatasetsAt[m + 1 - 1])
    BY <2>1 DEF DatasetsRec
  <2>3. DatasetsAt'[m + 1] = DatasetsAfter(zlog'[m + 1], DatasetsAt'[m + 1 - 1])
    BY <2>1 DEF DatasetsRec
  <2>4. DatasetsAt'[m] = DatasetsAt[m] /\ zlog'[m + 1] = zlog[m + 1]
    BY <1>2, <2>1
  <2> QED
    BY <2>1, <2>2, <2>3, <2>4
<1>3. Nat \subseteq S
  <2> HIDE DEF S
  <2> QED
    BY <1>1, <1>2, NatInduct
<1> QED
  BY <1>0, <1>3

-----------------------------------------------------------------------------
(* Entries.                                                                *)

LEMMA EntryIs ==
    ASSUME NEW e \in Entries
    PROVE  /\ e.type \in {"join", "leave"} => e.node \in Nodes
           /\ e.type = "join" => e = Join(e.node)
           /\ e.type \notin {"join", "leave"} => e.dataset \in Datasets
           /\ e.type \in {"join", "leave", "create", "delete", "move"}
  BY DEF Entries, Join, LeaveEntry, Create, Delete, Move

\* An entry makes a configuration of one, or leaves it.
LEMMA MembersAfterIs ==
    ASSUME NEW e \in Entries, NEW ms
    PROVE  /\ ms \subseteq Nodes => MembersAfter(e, ms) \subseteq Nodes
           /\ ~IsConf(e) => MembersAfter(e, ms) = ms
           /\ e = Join(Boot) /\ ms \subseteq {Boot} => MembersAfter(e, ms) = MembersAfter(e, {})
           /\ IsConf(e) => \A m \in Nodes : m # e.node => (m \in MembersAfter(e, ms) <=> m \in ms)
           /\ e.type = "join" => e.node \in MembersAfter(e, ms)
           /\ e.type = "leave" => e.node \notin MembersAfter(e, ms)
<1>1. e.type \in {"join", "leave"} => e.node \in Nodes
  BY EntryIs
<1>2. ms \subseteq Nodes => MembersAfter(e, ms) \subseteq Nodes
  BY <1>1 DEF MembersAfter
<1>3. e = Join(Boot) => e.type = "join" /\ e.node = Boot
  BY DEF Join
<1> QED
  BY <1>1, <1>2, <1>3 DEF MembersAfter, IsConf

LEMMA ConfKeepsDatasets ==
    ASSUME NEW e \in Entries, NEW ds, IsConf(e)
    PROVE  DatasetsAfter(e, ds) = ds
  BY DEF DatasetsAfter, IsConf

\* An entry changes a placement at most once.
LEMMA DatasetsAfterIs ==
    ASSUME NEW e \in Entries, NEW ds \in DatasetMaps
    PROVE  /\ DatasetsAfter(e, ds) \in DatasetMaps
           /\ \A d \in Datasets : DatasetsAfter(e, ds)[d] <= ds[d] + 1
<1>0. e.type \notin {"join", "leave"} => e.dataset \in Datasets
  BY EntryIs
<1>1. \A d \in Datasets : ds[d] \in Nat
  BY DEF DatasetMaps
<1>2. CASE e.type = "create"
  <2>1. DatasetsAfter(e, ds) = IF ds[e.dataset] = Absent THEN [ds EXCEPT ![e.dataset] = 1] ELSE ds
    BY <1>2 DEF DatasetsAfter
  <2> QED
    BY <1>0, <1>1, <1>2, <2>1 DEF DatasetMaps, Absent, IsConf
<1>3. CASE e.type = "delete"
  <2>1. DatasetsAfter(e, ds) = [ds EXCEPT ![e.dataset] = Absent]
    BY <1>3 DEF DatasetsAfter
  <2> QED
    BY <1>0, <1>1, <1>3, <2>1 DEF DatasetMaps, Absent, IsConf
<1>4. CASE e.type = "move"
  <2>1. DatasetsAfter(e, ds) = IF ds[e.dataset] = Absent THEN ds ELSE [ds EXCEPT ![e.dataset] = @ + 1]
    BY <1>4 DEF DatasetsAfter
  <2> QED
    BY <1>0, <1>1, <1>4, <2>1 DEF DatasetMaps, Absent, IsConf
<1>5. CASE e.type \notin {"create", "delete", "move"}
  <2>1. DatasetsAfter(e, ds) = ds
    BY <1>5 DEF DatasetsAfter
  <2> QED
    BY <1>1, <2>1
<1> QED
  BY <1>2, <1>3, <1>4, <1>5

-----------------------------------------------------------------------------
(* The initial state.                                                      *)

LEMMA Initially == ASSUME Init PROVE IInv
<1>1. Boot \in Nodes /\ MaxLog \in Nat \ {0} /\ MaxCrashes \in Nat /\ MaxSnapshots \in Nat
  BY ZeroGroupAssumption
<1>2. NoDatasets \in DatasetMaps /\ \A d \in Datasets : NoDatasets[d] = 0
  BY DEF NoDatasets, DatasetMaps, Absent
<1>3. NoSnapshot \in Snapshots /\ NoSnapshot.idx = 0 /\ NoSnapshot.members = {}
      /\ NoSnapshot.datasets = NoDatasets /\ ~NoSnapshot.stale
  BY <1>2 DEF NoSnapshot, Snapshots
<1>4. Join(Boot) \in Entries
  BY <1>1 DEF Entries
<1>5. MembersAt[0] = {} /\ DatasetsAt[0] = NoDatasets
  BY <1>1, MembersAtIs, DatasetsAtIs DEF MembersRec, DatasetsRec
<1>6. zlog = <<Join(Boot)>> /\ Len(zlog) = 1 /\ zlog[1] = Join(Boot) /\ zlog \in Seq(Entries)
  BY <1>4 DEF Init
<1>7. \A n \in Nodes : [NoAddress EXCEPT ![n] = "right"] \in AddressMaps
                       /\ \A m \in Nodes : [NoAddress EXCEPT ![n] = "right"][m]
                                           = IF m = n THEN "right" ELSE "none"
  BY DEF NoAddress, AddressMaps
<1>8. Types
  <2>1. zlog \in Seq(Entries) /\ Len(zlog) <= MaxLog
    BY <1>1, <1>6
  <2>2. stage \in [Nodes -> {"dead", "group", "proxy", "serving"}]
        /\ have \in [Nodes -> Nat] /\ applied \in [Nodes -> Nat]
    BY DEF Init
  <2>6. snap \in [Nodes -> Snapshots] /\ datasets \in [Nodes -> DatasetMaps]
    BY <1>2, <1>3 DEF Init
  <2>7. members \in [Nodes -> SUBSET Nodes] /\ confState \in [Nodes -> SUBSET Nodes]
    <3>1. \A n \in Nodes : (IF n = Boot THEN {Boot} ELSE {}) \in SUBSET Nodes
      BY <1>1
    <3>2. members = [n \in Nodes |-> IF n = Boot THEN {Boot} ELSE {}]
          /\ confState = [n \in Nodes |-> {}]
      BY DEF Init, NoConf
    <3>3. {} \in SUBSET Nodes
      OBVIOUS
    <3> QED
      BY <3>1, <3>2, <3>3
  <2>3. addresses \in [Nodes -> AddressMaps]
    BY <1>7 DEF Init
  <2>8. stream \in [Nodes -> Seq(AddressMaps)]
    BY DEF Init
  <2>4. exact \in [Nodes -> BOOLEAN] /\ installed \in [Nodes -> {"no", "stale", "refreshed", "wrong"}]
        /\ introduced \in [Nodes -> BOOLEAN]
    BY DEF Init
  <2>5. crashes \in 0..MaxCrashes /\ snapshots \in 0..MaxSnapshots
    BY <1>1 DEF Init
  <2> QED
    BY <2>1, <2>2, <2>3, <2>4, <2>5, <2>6, <2>7, <2>8 DEF Types
<1>9. LogInv
  BY <1>2, <1>3, <1>6 DEF Init, LogInv
<1>10. AddressInv
  <2>1. \A n, m \in Nodes : addresses[n][m] = IF m = n THEN "right" ELSE "none"
    BY <1>7 DEF Init
  <2>2. \A n \in Nodes : stream[n] = <<>> /\ MembersAt[applied[n]] = {}
    BY <1>5 DEF Init
  <2> QED
    BY <2>1, <2>2 DEF AddressInv
<1>11. MemberInv
  BY <1>3, <1>5 DEF Init, MemberInv, NoConf
<1>12. DatasetInv
  BY <1>3, <1>5 DEF Init, DatasetInv
<1> QED
  BY <1>8, <1>9, <1>10, <1>11, <1>12 DEF IInv

-----------------------------------------------------------------------------
(* What the actions have in common.                                        *)

\* What the log is at an index stays.
AtKept == \A i \in 0..Len(zlog) : MembersAt'[i] = MembersAt[i] /\ DatasetsAt'[i] = DatasetsAt[i]

LEMMA Stays ==
    ASSUME Types, zlog' = zlog \/ \E e : zlog' = Append(zlog, e)
    PROVE  AtKept /\ Len(zlog) <= Len(zlog')
<1>1. zlog \in Seq(Entries) /\ Len(zlog) <= MaxLog
  BY DEF Types
<1>2. Len(zlog) <= Len(zlog') /\ \A i \in 1..Len(zlog) : zlog'[i] = zlog[i]
  BY <1>1
<1>3. MembersRec /\ DatasetsRec
  BY MembersAtIs, DatasetsAtIs
<1>4. MembersRec' /\ DatasetsRec'
  BY MembersAtIs, DatasetsAtIs, PTL
<1> QED
  BY <1>1, <1>2, <1>3, <1>4, MembersStable, DatasetsStable DEF AtKept

LEMMA Committed ==
    ASSUME Types, LogInv, NEW n \in Nodes, NEW e \in Entries, Commit(n, e)
    PROVE  /\ zlog' = Append(zlog, e) /\ zlog' \in Seq(Entries) /\ Len(zlog') = Len(zlog) + 1
           /\ Len(zlog') <= MaxLog /\ zlog'[1] = zlog[1]
           /\ have' = [have EXCEPT ![n] = Len(zlog) + 1]
<1>1. zlog \in Seq(Entries) /\ Len(zlog) \in Nat /\ Len(zlog) >= 1 /\ MaxLog \in Nat
  BY ZeroGroupAssumption DEF Types, LogInv
<1>2. Len(zlog) < MaxLog /\ zlog' = Append(zlog, e) /\ have' = [have EXCEPT ![n] = Len(zlog) + 1]
  BY DEF Commit
<1> QED
  BY <1>1, <1>2

\* Parts that a step does not touch.
LEMMA AddressKept ==
    ASSUME Types, LogInv, AddressInv, AtKept,
           UNCHANGED <<applied, addresses, installed, introduced, stream>>
    PROVE  AddressInv'
<1>1. \A n \in Nodes : applied[n] \in 0..Len(zlog)
  BY DEF Types, LogInv
<1>2. \A n \in Nodes : MembersAt'[applied[n]] = MembersAt[applied[n]]
  BY <1>1 DEF AtKept
<1> QED
  BY <1>2 DEF AddressInv

LEMMA MemberKept ==
    ASSUME Types, LogInv, MemberInv, AtKept,
           UNCHANGED <<applied, members, confState, installed, snap>>
    PROVE  MemberInv'
<1>1. \A n \in Nodes : applied[n] \in 0..Len(zlog) /\ snap[n].idx \in 0..Len(zlog)
  BY DEF Types, LogInv, Snapshots
<1>2. \A n \in Nodes : /\ MembersAt'[applied[n]] = MembersAt[applied[n]]
                       /\ MembersAt'[snap[n].idx] = MembersAt[snap[n].idx]
  BY <1>1 DEF AtKept
<1> QED
  BY <1>2 DEF MemberInv

LEMMA DatasetKept ==
    ASSUME Types, LogInv, DatasetInv, AtKept,
           UNCHANGED <<applied, exact, datasets, snap>>
    PROVE  DatasetInv'
<1>1. \A n \in Nodes : applied[n] \in 0..Len(zlog) /\ snap[n].idx \in 0..Len(zlog)
  BY DEF Types, LogInv, Snapshots
<1>2. \A n \in Nodes : /\ DatasetsAt'[applied[n]] = DatasetsAt[applied[n]]
                       /\ DatasetsAt'[snap[n].idx] = DatasetsAt[snap[n].idx]
  BY <1>1 DEF AtKept
<1> QED
  BY <1>2 DEF DatasetInv

\* The next entry of a node.
LEMMA NextEntry ==
    ASSUME Types, LogInv, NEW n \in Nodes, Processed(n)
    PROVE  /\ applied[n] \in Nat /\ applied[n] + 1 \in 1..Len(zlog) /\ applied[n] \in 0..Len(zlog)
           /\ applied[n] + 1 <= have[n]
           /\ zlog[applied[n] + 1] \in Entries
           /\ MembersAt[applied[n] + 1] = MembersAfter(zlog[applied[n] + 1], MembersAt[applied[n]])
           /\ DatasetsAt[applied[n] + 1] = DatasetsAfter(zlog[applied[n] + 1], DatasetsAt[applied[n]])
           /\ applied' = [applied EXCEPT ![n] = applied[n] + 1]
           /\ MembersAt[0] = {} /\ DatasetsAt[0] = NoDatasets
           /\ applied[n] = 0 => zlog[applied[n] + 1] = Join(Boot)
<1>1. zlog \in Seq(Entries) /\ Len(zlog) \in Nat /\ Len(zlog) <= MaxLog /\ MaxLog \in Nat
  BY ZeroGroupAssumption DEF Types
<1>2. applied[n] \in Nat /\ have[n] \in Nat /\ have[n] <= Len(zlog) /\ applied[n] < have[n]
      /\ applied' = [applied EXCEPT ![n] = applied[n] + 1]
  BY DEF Types, LogInv, Processed
<1>3. applied[n] + 1 \in 1..Len(zlog) /\ applied[n] + 1 \in 0..MaxLog /\ applied[n] + 1 <= have[n]
      /\ applied[n] + 1 # 0 /\ applied[n] + 1 - 1 = applied[n] /\ applied[n] \in 0..Len(zlog)
  BY <1>1, <1>2
<1>4. zlog[applied[n] + 1] \in Entries
  BY <1>1, <1>3
<1>5. MembersAt[applied[n] + 1] = MembersAfter(zlog[applied[n] + 1], MembersAt[applied[n] + 1 - 1])
  BY <1>3, MembersAtIs DEF MembersRec
<1>6. DatasetsAt[applied[n] + 1] = DatasetsAfter(zlog[applied[n] + 1], DatasetsAt[applied[n] + 1 - 1])
  BY <1>3, DatasetsAtIs DEF DatasetsRec
<1>7. MembersAt[0] = {} /\ DatasetsAt[0] = NoDatasets
  BY <1>1, MembersAtIs, DatasetsAtIs DEF MembersRec, DatasetsRec
<1>8. applied[n] = 0 => zlog[applied[n] + 1] = Join(Boot)
  BY DEF LogInv
<1> QED
  BY <1>2, <1>3, <1>4, <1>5, <1>6, <1>7, <1>8

-----------------------------------------------------------------------------
(* Starting and stopping a node.                                           *)

LEMMA RestartKeeps ==
    ASSUME IInv, NEW n \in Nodes, Restart(n), crashes' \in 0..MaxCrashes
    PROVE  IInv'
<1> USE DEF IInv
<1>1. UNCHANGED <<zlog, have, snap, snapshots>>
  BY DEF Restart, logVars
<1>2. AtKept
  BY <1>1, Stays
<1>3. /\ stage' \in [Nodes -> {"dead", "group", "proxy", "serving"}]
      /\ applied' = [applied EXCEPT ![n] = 0] /\ members' = [members EXCEPT ![n] = {}]
      /\ confState' = [confState EXCEPT ![n] = {}]
      /\ datasets' = [datasets EXCEPT ![n] = NoDatasets]
      /\ addresses' = [addresses EXCEPT ![n] = [NoAddress EXCEPT ![n] = "right"]]
      /\ stream' = [stream EXCEPT ![n] = <<>>] /\ exact' = [exact EXCEPT ![n] = TRUE]
      /\ installed' = [installed EXCEPT ![n] = "no"]
      /\ introduced' = [introduced EXCEPT ![n] = FALSE]
  BY DEF Types, Restart, NoConf
<1>4. [NoAddress EXCEPT ![n] = "right"] \in AddressMaps
      /\ \A m \in Nodes : [NoAddress EXCEPT ![n] = "right"][m] = IF m = n THEN "right" ELSE "none"
  BY DEF NoAddress, AddressMaps
<1>5. NoDatasets \in DatasetMaps /\ \A d \in Datasets : NoDatasets[d] = 0
  BY DEF NoDatasets, DatasetMaps, Absent
<1>6. MembersAt'[0] = {} /\ DatasetsAt'[0] = NoDatasets
  <2>1. 0 \in 0..Len(zlog) /\ 0 \in 0..MaxLog
    BY ZeroGroupAssumption DEF Types
  <2>2. MembersAt[0] = {} /\ DatasetsAt[0] = NoDatasets
    BY <2>1, MembersAtIs, DatasetsAtIs DEF MembersRec, DatasetsRec
  <2> QED
    BY <1>2, <2>1, <2>2 DEF AtKept
<1>7. \A k \in Nodes : applied[k] \in 0..Len(zlog) /\ snap[k].idx \in 0..Len(zlog)
  BY DEF Types, LogInv, Snapshots
<1>8. \A k \in Nodes : /\ MembersAt'[applied[k]] = MembersAt[applied[k]]
                       /\ DatasetsAt'[applied[k]] = DatasetsAt[applied[k]]
                       /\ MembersAt'[snap[k].idx] = MembersAt[snap[k].idx]
                       /\ DatasetsAt'[snap[k].idx] = DatasetsAt[snap[k].idx]
  BY <1>2, <1>7 DEF AtKept
<1>9. Types'
  <2>1. addresses' \in [Nodes -> AddressMaps] /\ stream' \in [Nodes -> Seq(AddressMaps)]
    BY <1>3, <1>4 DEF Types
  <2>2. datasets' \in [Nodes -> DatasetMaps] /\ applied' \in [Nodes -> Nat]
    BY <1>3, <1>5 DEF Types
  <2>3. members' \in [Nodes -> SUBSET Nodes] /\ confState' \in [Nodes -> SUBSET Nodes]
    BY <1>3 DEF Types
  <2>4. exact' \in [Nodes -> BOOLEAN] /\ installed' \in [Nodes -> {"no", "stale", "refreshed", "wrong"}]
        /\ introduced' \in [Nodes -> BOOLEAN]
    BY <1>3 DEF Types
  <2> QED
    BY <1>1, <1>3, <2>1, <2>2, <2>3, <2>4 DEF Types
<1>10. LogInv'
  BY <1>1, <1>3, <1>5 DEF LogInv, Types
<1>11. AddressInv'
  <2>1. \A k \in Nodes : k # n => /\ addresses'[k] = addresses[k] /\ stream'[k] = stream[k]
                                  /\ applied'[k] = applied[k] /\ installed'[k] = installed[k]
                                  /\ introduced'[k] = introduced[k]
    BY <1>3 DEF Types
  <2>2. addresses'[n] = [NoAddress EXCEPT ![n] = "right"] /\ stream'[n] = <<>> /\ applied'[n] = 0
    BY <1>3 DEF Types
  <2>3. \A m \in Nodes : addresses'[n][m] = (IF m = n THEN "right" ELSE "none")
    BY <1>4, <2>2
  <2>4. ASSUME NEW k \in Nodes, NEW m \in Nodes
        PROVE  /\ addresses'[k][m] = "blank" => m = Boot
               /\ stream'[k] # <<>> /\ stream'[k][1][m] = "blank" => m = Boot
               /\ (m \in MembersAt'[applied'[k]] /\ addresses'[k][m] = "none") => installed'[k] # "no"
               /\ (k # m /\ m \notin MembersAt'[applied'[k]] /\ addresses'[k][m] # "none")
                     => introduced'[k] \/ installed'[k] # "no"
    <3>1. CASE k = n
      BY <1>6, <2>2, <2>3, <3>1
    <3>2. CASE k # n
      BY <1>8, <2>1, <3>2 DEF AddressInv
    <3> QED
      BY <3>1, <3>2
  <2> QED
    BY <2>4 DEF AddressInv
<1>12. MemberInv'
  <2>1. \A k \in Nodes : k # n => /\ members'[k] = members[k] /\ confState'[k] = confState[k]
                                  /\ applied'[k] = applied[k] /\ installed'[k] = installed[k]
    BY <1>3 DEF Types
  <2>2. members'[n] = {} /\ confState'[n] = {} /\ applied'[n] = 0
    BY <1>3 DEF Types
  <2> QED
    BY <1>1, <1>6, <1>8, <2>1, <2>2 DEF MemberInv, NoConf
<1>13. DatasetInv'
  <2>1. \A k \in Nodes : k # n => /\ exact'[k] = exact[k] /\ datasets'[k] = datasets[k]
                                  /\ applied'[k] = applied[k]
    BY <1>3 DEF Types
  <2>2. datasets'[n] = NoDatasets /\ applied'[n] = 0
    BY <1>3 DEF Types
  <2> QED
    BY <1>1, <1>6, <1>8, <2>1, <2>2 DEF DatasetInv
<1> QED
  BY <1>9, <1>10, <1>11, <1>12, <1>13

LEMMA CrashKeeps == ASSUME IInv, NEW n \in Nodes, Crash(n) PROVE IInv'
<1>1. crashes' \in 0..MaxCrashes
  BY ZeroGroupAssumption DEF IInv, Types, Crash
<1> QED
  BY <1>1, RestartKeeps DEF Crash

LEMMA ProcessNilKeeps == ASSUME IInv, NEW n \in Nodes, ProcessNil(n) PROVE IInv'
<1>1. crashes' \in 0..MaxCrashes
  BY DEF IInv, Types, ProcessNil
<1> QED
  BY <1>1, RestartKeeps DEF ProcessNil

LEMMA RegisterKeeps == ASSUME IInv, NEW n \in Nodes, Register(n) PROVE IInv'
<1> USE DEF IInv
<1>1. UNCHANGED <<zlog, have, snap, applied, members, confState, installed, datasets, addresses,
                  stream, exact, introduced, crashes, snapshots>>
  BY DEF Register, logVars, raftVars
<1>2. AtKept
  BY <1>1, Stays
<1>3. Types'
  BY <1>1 DEF Types, Register
<1>4. LogInv'
  BY <1>1 DEF LogInv
<1> QED
  BY <1>1, <1>2, <1>3, <1>4, AddressKept, MemberKept, DatasetKept

-----------------------------------------------------------------------------
(* The run loop.                                                           *)

LEMMA ProcessConfChangeKeeps ==
    ASSUME IInv, NEW n \in Nodes, ProcessConfChange(n) PROVE IInv'
<1> USE DEF IInv
<1>1. PICK e : e = zlog[applied[n] + 1]
  OBVIOUS
<1>2. PICK now : now = MembersAfter(e, members[n])
  OBVIOUS
<1>3. Processed(n) /\ IsConf(e)
  BY <1>1 DEF ProcessConfChange
<1>4. UNCHANGED <<zlog, have, snap, stream, introduced, crashes, snapshots, stage, datasets, exact>>
  BY DEF ProcessConfChange, Processed, logVars
<1>5. AtKept
  BY <1>4, Stays
<1>6. /\ applied[n] \in Nat /\ applied[n] + 1 \in 0..Len(zlog) /\ applied[n] \in 0..Len(zlog)
      /\ applied[n] + 1 <= have[n] /\ e \in Entries
      /\ MembersAt[applied[n] + 1] = MembersAfter(e, MembersAt[applied[n]])
      /\ DatasetsAt[applied[n] + 1] = DatasetsAfter(e, DatasetsAt[applied[n]])
      /\ applied' = [applied EXCEPT ![n] = applied[n] + 1]
      /\ MembersAt[0] = {} /\ (applied[n] = 0 => e = Join(Boot))
  BY <1>1, <1>3, NextEntry
<1>7. /\ MembersAt'[applied[n] + 1] = MembersAfter(e, MembersAt[applied[n]])
      /\ DatasetsAt'[applied[n] + 1] = DatasetsAt[applied[n]]
  BY <1>3, <1>5, <1>6, ConfKeepsDatasets DEF AtKept
<1>8. e.node \in Nodes /\ e.type \in {"join", "leave"}
  BY <1>3, <1>6, EntryIs DEF IsConf
<1>9. now \in SUBSET Nodes
  <2>1. members[n] \subseteq Nodes
    BY DEF Types
  <2> QED
    BY <1>2, <1>6, <2>1, MembersAfterIs
<1>10. members' = [members EXCEPT ![n] = now]
  BY <1>1, <1>2 DEF ProcessConfChange
<1>11. members'[n] = now
  BY <1>10 DEF Types
<1>12. confState' = [confState EXCEPT ![n] = now]
  BY <1>11 DEF ProcessConfChange
<1>13. installed' = [installed EXCEPT ![n] = IF installed[n] = "stale" THEN "refreshed" ELSE installed[n]]
  BY DEF ProcessConfChange
<1>14. PICK a : /\ a = "none" => e.type = "leave"
                /\ a = "blank" => e = Join(Boot) \/ addresses[n][e.node] = "blank"
                /\ e.type = "leave" => a = "none"
                /\ a \in {"none", "blank", "right"}
                /\ addresses' = [addresses EXCEPT ![n][e.node] = a]
  <2>1. CASE e.type = "join"
    <3>1. addresses' = [addresses EXCEPT ![n][e.node] =
                IF addresses[n][e.node] = "none" THEN (IF applied[n] = 0 THEN "blank" ELSE "right")
                ELSE addresses[n][e.node]]
      BY <1>1, <2>1 DEF ProcessConfChange, Learn
    <3>2. addresses[n][e.node] \in {"none", "blank", "right"}
      BY <1>8 DEF Types, AddressMaps
    <3> QED
      BY <1>6, <2>1, <3>1, <3>2
  <2>2. CASE e.type = "leave"
    <3>1. addresses' = [addresses EXCEPT ![n][e.node] = "none"]
      BY <1>1, <2>2 DEF ProcessConfChange
    <3> QED
      BY <2>2, <3>1
  <2> QED
    BY <1>8, <2>1, <2>2
<1>15. \A k \in Nodes : applied[k] \in 0..Len(zlog) /\ snap[k].idx \in 0..Len(zlog)
  BY DEF Types, LogInv, Snapshots
<1>16. \A k \in Nodes : /\ MembersAt'[applied[k]] = MembersAt[applied[k]]
                        /\ DatasetsAt'[applied[k]] = DatasetsAt[applied[k]]
                        /\ MembersAt'[snap[k].idx] = MembersAt[snap[k].idx]
                        /\ DatasetsAt'[snap[k].idx] = DatasetsAt[snap[k].idx]
  BY <1>5, <1>15 DEF AtKept
<1>17. Types'
  <2>1. members' \in [Nodes -> SUBSET Nodes] /\ confState' \in [Nodes -> SUBSET Nodes]
    BY <1>9, <1>10, <1>12 DEF Types
  <2>2. addresses' \in [Nodes -> AddressMaps]
    BY <1>8, <1>14 DEF Types, AddressMaps
  <2>3. installed' \in [Nodes -> {"no", "stale", "refreshed", "wrong"}]
    BY <1>13 DEF Types
  <2>4. applied' \in [Nodes -> Nat]
    BY <1>6 DEF Types
  <2> QED
    BY <1>4, <2>1, <2>2, <2>3, <2>4 DEF Types
<1>18. LogInv'
  <2>1. \A k \in Nodes : k # n => applied'[k] = applied[k]
    BY <1>6 DEF Types
  <2>2. applied'[n] = applied[n] + 1
    BY <1>6 DEF Types
  <2>3. \A k \in Nodes, d \in Datasets : datasets[k][d] \in Nat
    BY DEF Types, DatasetMaps
  <2>4. \A d \in Datasets : datasets[n][d] <= applied[n] + 1
    BY <1>6, <2>3 DEF LogInv
  <2> QED
    BY <1>4, <1>6, <2>1, <2>2, <2>4 DEF LogInv
<1>19. AddressInv'
  <2>1. \A k \in Nodes : k # n => /\ addresses'[k] = addresses[k] /\ applied'[k] = applied[k]
                                  /\ installed'[k] = installed[k]
    BY <1>6, <1>13, <1>14 DEF Types
  <2>2. /\ applied'[n] = applied[n] + 1 /\ (installed[n] # "no" => installed'[n] # "no")
        /\ \A m \in Nodes : addresses'[n][m] = IF m = e.node THEN a ELSE addresses[n][m]
    BY <1>6, <1>8, <1>13, <1>14 DEF Types, AddressMaps
  <2>3. \A m \in Nodes : m # e.node => (m \in MembersAt'[applied'[n]] <=> m \in MembersAt[applied[n]])
    BY <1>3, <1>6, <1>7, <2>2, MembersAfterIs
  <2>4. (e.type = "join" => e.node \in MembersAt'[applied'[n]])
        /\ (e.type = "leave" => e.node \notin MembersAt'[applied'[n]])
    BY <1>6, <1>7, <2>2, MembersAfterIs
  <2>5. e = Join(Boot) => e.node = Boot
    BY DEF Join
  <2>6. ASSUME NEW m \in Nodes
        PROVE  /\ addresses'[n][m] = "blank" => m = Boot
               /\ (m \in MembersAt'[applied'[n]] /\ addresses'[n][m] = "none") => installed'[n] # "no"
               /\ (n # m /\ m \notin MembersAt'[applied'[n]] /\ addresses'[n][m] # "none")
                     => introduced'[n] \/ installed'[n] # "no"
    <3>1. CASE m = e.node
      BY <1>8, <1>14, <2>2, <2>4, <2>5, <3>1 DEF AddressInv
    <3>2. CASE m # e.node
      BY <1>4, <2>2, <2>3, <3>2 DEF AddressInv
    <3> QED
      BY <3>1, <3>2
  <2>7. \A k, m \in Nodes : stream'[k] # <<>> /\ stream'[k][1][m] = "blank" => m = Boot
    BY <1>4 DEF AddressInv
  <2>8. ASSUME NEW k \in Nodes, k # n, NEW m \in Nodes
        PROVE  /\ addresses'[k][m] = "blank" => m = Boot
               /\ (m \in MembersAt'[applied'[k]] /\ addresses'[k][m] = "none") => installed'[k] # "no"
               /\ (k # m /\ m \notin MembersAt'[applied'[k]] /\ addresses'[k][m] # "none")
                     => introduced'[k] \/ installed'[k] # "no"
    BY <1>4, <1>16, <2>1, <2>8 DEF AddressInv
  <2> QED
    BY <2>6, <2>7, <2>8 DEF AddressInv
<1>20. MemberInv'
  <2>1. \A k \in Nodes : k # n => /\ members'[k] = members[k] /\ confState'[k] = confState[k]
                                  /\ applied'[k] = applied[k] /\ installed'[k] = installed[k]
    BY <1>6, <1>10, <1>12, <1>13 DEF Types
  <2>2. /\ members'[n] = now /\ confState'[n] = now /\ applied'[n] = applied[n] + 1
        /\ installed'[n] = IF installed[n] = "stale" THEN "refreshed" ELSE installed[n]
    BY <1>6, <1>11, <1>12, <1>13 DEF Types
  <2>3. installed[n] # "wrong" => now = MembersAt'[applied[n] + 1]
    <3>1. CASE members[n] = MembersAt[applied[n]]
      BY <1>2, <1>7, <3>1
    <3>2. CASE applied[n] = 0 /\ members[n] \subseteq {Boot}
      BY <1>2, <1>6, <1>7, <3>2, MembersAfterIs
    <3> QED
      BY <3>1, <3>2 DEF MemberInv
  <2>4. ASSUME NEW k \in Nodes
        PROVE  /\ installed'[k] # "wrong" =>
                    \/ members'[k] = MembersAt'[applied'[k]]
                    \/ applied'[k] = 0 /\ members'[k] \subseteq {Boot}
               /\ installed'[k] \in {"no", "refreshed"} /\ confState'[k] # NoConf
                    => confState'[k] = MembersAt'[applied'[k]]
               /\ ~snap'[k].stale => snap'[k].members = MembersAt'[snap'[k].idx]
    <3>1. CASE k = n
      BY <1>4, <1>16, <2>2, <2>3, <3>1 DEF MemberInv
    <3>2. CASE k # n
      BY <1>4, <1>16, <2>1, <3>2 DEF MemberInv
    <3> QED
      BY <3>1, <3>2
  <2> QED
    BY <2>4 DEF MemberInv, NoConf
<1>21. DatasetInv'
  <2>1. \A k \in Nodes : k # n => applied'[k] = applied[k]
    BY <1>6 DEF Types
  <2>2. applied'[n] = applied[n] + 1
    BY <1>6 DEF Types
  <2> QED
    BY <1>4, <1>7, <1>16, <2>1, <2>2 DEF DatasetInv
<1> QED
  BY <1>17, <1>18, <1>19, <1>20, <1>21

\* An entry that is no change of members, processed or dropped.
LEMMA ProcessKeeps ==
    ASSUME IInv, NEW n \in Nodes, DropEntry(n) \/ Process(n) PROVE IInv'
<1> USE DEF IInv
<1>1. PICK e : e = zlog[applied[n] + 1]
  OBVIOUS
<1>2. Processed(n) /\ ~IsConf(e)
  BY <1>1 DEF DropEntry, Process
<1>3. UNCHANGED <<zlog, have, snap, stream, introduced, crashes, snapshots, stage, members, confState,
                  installed, addresses>>
  BY DEF DropEntry, Process, Processed, logVars
<1>4. AtKept
  BY <1>3, Stays
<1>5. /\ applied[n] \in Nat /\ applied[n] + 1 \in 0..Len(zlog) /\ applied[n] \in 0..Len(zlog)
      /\ applied[n] + 1 <= have[n] /\ e \in Entries
      /\ MembersAt[applied[n] + 1] = MembersAfter(e, MembersAt[applied[n]])
      /\ DatasetsAt[applied[n] + 1] = DatasetsAfter(e, DatasetsAt[applied[n]])
      /\ applied' = [applied EXCEPT ![n] = applied[n] + 1]
      /\ MembersAt[0] = {} /\ (applied[n] = 0 => e = Join(Boot))
  BY <1>1, <1>2, NextEntry
<1>6. /\ MembersAt'[applied[n] + 1] = MembersAt[applied[n]]
      /\ DatasetsAt'[applied[n] + 1] = DatasetsAfter(e, DatasetsAt[applied[n]])
      /\ applied[n] # 0
  <2>1. IsConf(Join(Boot))
    BY DEF IsConf, Join
  <2> QED
    BY <1>2, <1>4, <1>5, <2>1, MembersAfterIs DEF AtKept
<1>7. PICK ds : /\ datasets' = [datasets EXCEPT ![n] = ds]
                /\ \/ ds = datasets[n] /\ exact' = [exact EXCEPT ![n] = FALSE]
                   \/ ds = DatasetsAfter(e, datasets[n]) /\ exact' = exact
  <2>1. CASE DropEntry(n)
    <3>1. datasets' = datasets /\ exact' = [exact EXCEPT ![n] = FALSE]
      BY <2>1 DEF DropEntry
    <3>2. datasets' = [datasets EXCEPT ![n] = datasets[n]]
      BY <3>1 DEF Types
    <3> QED
      BY <3>1, <3>2
  <2>2. CASE Process(n)
    <3>1. datasets' = [datasets EXCEPT ![n] = DatasetsAfter(e, datasets[n])] /\ exact' = exact
      BY <1>1, <2>2 DEF Process
    <3> QED
      BY <3>1
  <2> QED
    BY <2>1, <2>2
<1>8. datasets[n] \in DatasetMaps /\ \A d \in Datasets : datasets[n][d] \in Nat
  BY DEF Types, DatasetMaps
<1>9. ds \in DatasetMaps /\ \A d \in Datasets : ds[d] <= datasets[n][d] + 1
  BY <1>5, <1>7, <1>8, DatasetsAfterIs
<1>10. \A k \in Nodes : k # n => applied'[k] = applied[k] /\ datasets'[k] = datasets[k] /\ exact'[k] = exact[k]
  BY <1>5, <1>7 DEF Types
<1>11. applied'[n] = applied[n] + 1 /\ datasets'[n] = ds
  BY <1>5, <1>7 DEF Types
<1>12. \A k \in Nodes : applied[k] \in 0..Len(zlog) /\ snap[k].idx \in 0..Len(zlog)
  BY DEF Types, LogInv, Snapshots
<1>13. \A k \in Nodes : /\ MembersAt'[applied[k]] = MembersAt[applied[k]]
                        /\ DatasetsAt'[applied[k]] = DatasetsAt[applied[k]]
                        /\ MembersAt'[snap[k].idx] = MembersAt[snap[k].idx]
                        /\ DatasetsAt'[snap[k].idx] = DatasetsAt[snap[k].idx]
  BY <1>4, <1>12 DEF AtKept
<1>14. \A k \in Nodes : MembersAt'[applied'[k]] = MembersAt[applied[k]]
  BY <1>6, <1>10, <1>11, <1>13
<1>15. Types'
  <2>1. datasets' \in [Nodes -> DatasetMaps] /\ applied' \in [Nodes -> Nat]
    BY <1>5, <1>7, <1>9 DEF Types
  <2>2. exact' \in [Nodes -> BOOLEAN]
    BY <1>7 DEF Types
  <2> QED
    BY <1>3, <2>1, <2>2 DEF Types
<1>16. LogInv'
  <2>1. \A d \in Datasets : ds[d] <= applied[n] + 1
    <3>1. \A d \in Datasets : datasets[n][d] <= applied[n] /\ ds[d] \in Nat
      BY <1>9 DEF LogInv, DatasetMaps
    <3> QED
      BY <1>5, <1>8, <1>9, <3>1
  <2> QED
    BY <1>3, <1>5, <1>10, <1>11, <2>1 DEF LogInv
<1>17. AddressInv'
  BY <1>3, <1>14 DEF AddressInv
<1>18. MemberInv'
  <2>1. \A k \in Nodes : applied'[k] = 0 <=> (k # n /\ applied[k] = 0)
    BY <1>5, <1>10, <1>11
  <2>2. members[n] = MembersAt[applied[n]] \/ installed[n] = "wrong"
    BY <1>6 DEF MemberInv
  <2> QED
    BY <1>3, <1>13, <1>14, <2>1, <2>2 DEF MemberInv, NoConf
<1>19. DatasetInv'
  <2>1. exact'[n] => ds = DatasetsAfter(e, datasets[n]) /\ exact[n]
    BY <1>7 DEF Types
  <2>2. exact'[n] => ds = DatasetsAt'[applied'[n]]
    BY <1>6, <1>11, <2>1 DEF DatasetInv
  <2>3. \A k \in Nodes : k # n => (exact'[k] => datasets'[k] = DatasetsAt'[applied'[k]])
    BY <1>10, <1>13 DEF DatasetInv
  <2>4. \A k \in Nodes : exact'[k] => datasets'[k] = DatasetsAt'[applied'[k]]
    BY <1>11, <2>2, <2>3
  <2>5. \A k \in Nodes : snap'[k].exact => snap'[k].datasets = DatasetsAt'[snap'[k].idx]
    BY <1>3, <1>13 DEF DatasetInv
  <2> QED
    BY <2>4, <2>5 DEF DatasetInv
<1> QED
  BY <1>15, <1>16, <1>17, <1>18, <1>19

LEMMA TrySnapshotKeeps == ASSUME IInv, NEW n \in Nodes, TrySnapshot(n) PROVE IInv'
<1> USE DEF IInv
<1>1. UNCHANGED <<zlog, have, applied, members, confState, installed, stage, datasets, addresses,
                  stream, exact, introduced, crashes>>
  BY DEF TrySnapshot, raftVars
<1>2. AtKept
  BY <1>1, Stays
<1>3. PICK s : /\ s = [idx |-> applied[n], members |-> confState[n], datasets |-> datasets[n],
                       exact |-> exact[n], stale |-> installed[n] \in {"stale", "wrong"}]
               /\ snap' = [snap EXCEPT ![n] = s]
  BY DEF TrySnapshot
<1>4. s \in Snapshots
  <2>1. applied[n] \in Nat /\ confState[n] \in SUBSET Nodes /\ datasets[n] \in DatasetMaps
        /\ exact[n] \in BOOLEAN
    BY DEF Types
  <2>2. (installed[n] \in {"stale", "wrong"}) \in BOOLEAN
    OBVIOUS
  <2> QED
    BY <1>3, <2>1, <2>2 DEF Snapshots
<1>5. \A k \in Nodes : snap'[k] = IF k = n THEN s ELSE snap[k]
  BY <1>3 DEF Types
<1>6. s.idx = applied[n] /\ s.members = confState[n] /\ s.datasets = datasets[n]
      /\ (s.exact = exact[n]) /\ (s.stale <=> installed[n] \in {"stale", "wrong"})
  BY <1>3
<1>7. \A k \in Nodes : applied[k] \in 0..Len(zlog) /\ snap[k].idx \in 0..Len(zlog)
  BY DEF Types, LogInv, Snapshots
<1>8. \A k \in Nodes : /\ MembersAt'[applied[k]] = MembersAt[applied[k]]
                       /\ DatasetsAt'[applied[k]] = DatasetsAt[applied[k]]
                       /\ MembersAt'[snap[k].idx] = MembersAt[snap[k].idx]
                       /\ DatasetsAt'[snap[k].idx] = DatasetsAt[snap[k].idx]
  BY <1>2, <1>7 DEF AtKept
<1>9. Types'
  <2>1. snap' \in [Nodes -> Snapshots]
    BY <1>3, <1>4 DEF Types
  <2>2. snapshots' \in 0..MaxSnapshots
    BY ZeroGroupAssumption DEF TrySnapshot, Types
  <2> QED
    BY <1>1, <2>1, <2>2 DEF Types
<1>10. LogInv'
  BY <1>1, <1>5, <1>6 DEF LogInv
<1>11. AddressInv'
  BY <1>1, <1>2, AddressKept
<1>12. MemberInv'
  <2>1. ~s.stale => s.members = MembersAt'[s.idx]
    <3>1. ~s.stale => installed[n] \in {"no", "refreshed"}
      BY <1>6 DEF Types
    <3>2. confState[n] # NoConf
      BY DEF TrySnapshot
    <3> QED
      BY <1>6, <1>8, <3>1, <3>2 DEF MemberInv
  <2>2. \A k \in Nodes : ~snap'[k].stale => snap'[k].members = MembersAt'[snap'[k].idx]
    BY <1>5, <1>8, <2>1 DEF MemberInv
  <2> QED
    BY <1>1, <1>8, <2>2 DEF MemberInv, NoConf
<1>13. DatasetInv'
  <2>1. s.exact => s.datasets = DatasetsAt'[s.idx]
    BY <1>6, <1>8 DEF DatasetInv
  <2>2. \A k \in Nodes : snap'[k].exact => snap'[k].datasets = DatasetsAt'[snap'[k].idx]
    BY <1>5, <1>8, <2>1 DEF DatasetInv
  <2> QED
    BY <1>1, <1>8, <2>2 DEF DatasetInv
<1> QED
  BY <1>9, <1>10, <1>11, <1>12, <1>13

-----------------------------------------------------------------------------
(* Raft: what reaches another node.                                        *)

LEMMA DeliverKeeps == ASSUME IInv, NEW n \in Nodes, Deliver(n) PROVE IInv'
<1> USE DEF IInv
<1>1. UNCHANGED <<zlog, snap, applied, members, confState, installed, stage, datasets, addresses,
                  stream, exact, introduced, crashes, snapshots>>
  BY DEF Deliver, raftVars
<1>2. AtKept
  BY <1>1, Stays
<1>3. have' = [have EXCEPT ![n] = have[n] + 1]
  BY DEF Deliver
<1>4. PICK m \in Nodes : have[m] > have[n]
  BY DEF Deliver
<1>5. \A k \in Nodes : have[k] \in Nat /\ applied[k] \in Nat /\ snap[k].idx \in Nat
                       /\ applied[k] <= have[k] /\ snap[k].idx <= have[k]
  BY DEF Types, LogInv, Snapshots
<1>6. Types'
  BY <1>1, <1>3, <1>5 DEF Types
<1>7. LogInv'
  <2>1. have[n] + 1 <= Len(zlog)
    <3>1. have[m] <= Len(zlog) /\ Len(zlog) \in Nat
      BY DEF Types, LogInv
    <3> QED
      BY <1>4, <1>5, <3>1
  <2>2. \A k \in Nodes : have'[k] = IF k = n THEN have[n] + 1 ELSE have[k]
    BY <1>3 DEF Types
  <2>3. \A k \in Nodes : applied'[k] <= have'[k] /\ snap'[k].idx <= have'[k] /\ have'[k] <= Len(zlog)
    BY <1>1, <1>5, <2>1, <2>2 DEF LogInv
  <2> QED
    BY <1>1, <2>3 DEF LogInv
<1> QED
  BY <1>1, <1>2, <1>6, <1>7, AddressKept, MemberKept, DatasetKept

LEMMA InstallSnapshotKeeps == ASSUME IInv, NEW n \in Nodes, InstallSnapshot(n) PROVE IInv'
<1> USE DEF IInv
<1>1. UNCHANGED <<zlog, stage, confState, addresses, stream, introduced, crashes, snapshots>>
  BY DEF InstallSnapshot
<1>2. AtKept
  BY <1>1, Stays
<1>3. PICK m \in Nodes :
         /\ snap[m].idx > have[n]
         /\ snap' = [snap EXCEPT ![n] = snap[m]]
         /\ have' = [have EXCEPT ![n] = snap[m].idx]
         /\ applied' = [applied EXCEPT ![n] = snap[m].idx]
         /\ members' = [members EXCEPT ![n] = snap[m].members]
         /\ datasets' = [datasets EXCEPT ![n] = [d \in Datasets |->
                IF datasets[n][d] = Absent THEN snap[m].datasets[d] ELSE datasets[n][d]]]
         /\ exact' = [exact EXCEPT ![n] = snap[m].exact /\ (exact[n] /\ datasets[n] = NoDatasets)]
         /\ installed' = [installed EXCEPT ![n] = IF snap[m].stale THEN "wrong" ELSE "stale"]
  BY DEF InstallSnapshot
<1>4. PICK ds : ds = [d \in Datasets |->
                        IF datasets[n][d] = Absent THEN snap[m].datasets[d] ELSE datasets[n][d]]
  OBVIOUS
<1>5. PICK ex : ex = (snap[m].exact /\ (exact[n] /\ datasets[n] = NoDatasets))
  OBVIOUS
<1>6. datasets' = [datasets EXCEPT ![n] = ds] /\ exact' = [exact EXCEPT ![n] = ex]
  BY <1>3, <1>4, <1>5
<1>7. snap[m] \in Snapshots /\ snap[m].idx \in Nat /\ snap[m].members \in SUBSET Nodes
      /\ snap[m].datasets \in DatasetMaps
  <2>1. snap[m] \in Snapshots
    BY DEF Types
  <2> QED
    BY <2>1 DEF Snapshots
<1>8. ds \in DatasetMaps
  <2>1. datasets[n] \in DatasetMaps
    BY DEF Types
  <2> QED
    BY <1>4, <1>7, <2>1 DEF DatasetMaps
<1>9. \A k \in Nodes :
         /\ snap'[k] = (IF k = n THEN snap[m] ELSE snap[k])
         /\ have'[k] = (IF k = n THEN snap[m].idx ELSE have[k])
         /\ applied'[k] = (IF k = n THEN snap[m].idx ELSE applied[k])
         /\ members'[k] = (IF k = n THEN snap[m].members ELSE members[k])
         /\ datasets'[k] = (IF k = n THEN ds ELSE datasets[k])
  BY <1>3, <1>6 DEF Types
<1>10. /\ \A k \in Nodes : k # n => installed'[k] = installed[k] /\ exact'[k] = exact[k]
       /\ installed'[n] = (IF snap[m].stale THEN "wrong" ELSE "stale")
       /\ exact'[n] = ex
  BY <1>3, <1>6 DEF Types
<1>11. \A k \in Nodes : applied[k] \in 0..Len(zlog) /\ snap[k].idx \in 0..Len(zlog)
  BY DEF Types, LogInv, Snapshots
<1>12. \A k \in Nodes : /\ MembersAt'[applied[k]] = MembersAt[applied[k]]
                        /\ DatasetsAt'[applied[k]] = DatasetsAt[applied[k]]
                        /\ MembersAt'[snap[k].idx] = MembersAt[snap[k].idx]
                        /\ DatasetsAt'[snap[k].idx] = DatasetsAt[snap[k].idx]
  BY <1>2, <1>11 DEF AtKept
<1>13. Types'
  <2>1. snap' \in [Nodes -> Snapshots] /\ have' \in [Nodes -> Nat] /\ applied' \in [Nodes -> Nat]
    BY <1>3, <1>7 DEF Types
  <2>2. members' \in [Nodes -> SUBSET Nodes]
    BY <1>3, <1>7 DEF Types
  <2>3. datasets' \in [Nodes -> DatasetMaps]
    BY <1>6, <1>8 DEF Types
  <2>4. exact' \in [Nodes -> BOOLEAN]
    <3>1. ex \in BOOLEAN
      BY <1>5
    <3> QED
      BY <1>6, <3>1 DEF Types
  <2>5. installed' \in [Nodes -> {"no", "stale", "refreshed", "wrong"}]
    BY <1>3 DEF Types
  <2> QED
    BY <1>1, <2>1, <2>2, <2>3, <2>4, <2>5 DEF Types
<1>14. LogInv'
  <2>1. \A d \in Datasets : ds[d] <= snap[m].idx
    <3>1. \A d \in Datasets : datasets[n][d] \in Nat /\ datasets[n][d] <= applied[n]
                              /\ snap[m].datasets[d] <= snap[m].idx
      BY DEF LogInv, Types, DatasetMaps
    <3>2. applied[n] \in Nat /\ have[n] \in Nat /\ applied[n] <= have[n]
      BY DEF LogInv, Types
    <3>3. \A d \in Datasets : datasets[n][d] <= snap[m].idx
      BY <1>3, <1>7, <3>1, <3>2
    <3> QED
      BY <1>4, <3>1, <3>3
  <2>2. \A d \in Datasets : snap[m].datasets[d] <= snap[m].idx
    BY DEF LogInv
  <2>3. snap[m].idx <= Len(zlog) /\ snap[m].idx <= snap[m].idx
    BY <1>7, <1>11
  <2> QED
    BY <1>1, <1>9, <2>1, <2>2, <2>3 DEF LogInv
<1>15. AddressInv'
  <2>1. installed'[n] # "no"
    BY <1>10
  <2> QED
    BY <1>1, <1>9, <1>10, <1>12, <2>1 DEF AddressInv
<1>16. MemberInv'
  <2>1. installed'[n] # "wrong" => snap[m].members = MembersAt'[snap[m].idx]
    BY <1>10, <1>12 DEF MemberInv
  <2>2. installed'[n] \notin {"no", "refreshed"}
    BY <1>10
  <2>3. \A k \in Nodes : ~snap'[k].stale => snap'[k].members = MembersAt'[snap'[k].idx]
    BY <1>9, <1>12 DEF MemberInv
  <2> QED
    BY <1>1, <1>9, <1>10, <1>12, <2>1, <2>2, <2>3 DEF MemberInv, NoConf
<1>17. DatasetInv'
  <2>1. ex => ds = snap[m].datasets
    <3> SUFFICES ASSUME ex PROVE ds = snap[m].datasets
      OBVIOUS
    <3>1. \A d \in Datasets : datasets[n][d] = Absent
      BY <1>5 DEF NoDatasets
    <3> QED
      BY <1>4, <1>7, <3>1 DEF DatasetMaps
  <2>2. ex => ds = DatasetsAt'[snap[m].idx]
    BY <1>5, <1>12, <2>1 DEF DatasetInv
  <2>3. \A k \in Nodes : exact'[k] => datasets'[k] = DatasetsAt'[applied'[k]]
    BY <1>9, <1>10, <1>12, <2>2 DEF DatasetInv
  <2>4. \A k \in Nodes : snap'[k].exact => snap'[k].datasets = DatasetsAt'[snap'[k].idx]
    BY <1>9, <1>12 DEF DatasetInv
  <2> QED
    BY <2>3, <2>4 DEF DatasetInv
<1> QED
  BY <1>13, <1>14, <1>15, <1>16, <1>17

-----------------------------------------------------------------------------
(* Proposals, and the stream of a join.                                    *)

\* The log grows by one entry; the invariant's other parts are kept by what else the
\* action does.
LEMMA CommitKeepsTypes ==
    ASSUME IInv, NEW n \in Nodes, NEW e \in Entries, Commit(n, e),
           UNCHANGED <<snap, stage, applied, members, confState, installed, datasets, addresses,
                       exact, introduced, crashes, snapshots>>,
           stream' \in [Nodes -> Seq(AddressMaps)]
    PROVE  Types' /\ LogInv' /\ MemberInv' /\ DatasetInv' /\ AtKept
<1> USE DEF IInv
<1>1. /\ zlog' = Append(zlog, e) /\ zlog' \in Seq(Entries) /\ Len(zlog') = Len(zlog) + 1
      /\ Len(zlog') <= MaxLog /\ zlog'[1] = zlog[1]
      /\ have' = [have EXCEPT ![n] = Len(zlog) + 1]
  BY Committed
<1>2. AtKept
  BY <1>1, Stays
<1>3. Len(zlog) \in Nat /\ \A k \in Nodes : /\ have[k] \in Nat /\ applied[k] \in Nat /\ snap[k].idx \in Nat
                                            /\ applied[k] <= have[k] /\ snap[k].idx <= have[k]
                                            /\ have[k] <= Len(zlog)
  BY DEF Types, LogInv, Snapshots
<1>4. Types'
  <2>1. have' \in [Nodes -> Nat]
    BY <1>1, <1>3 DEF Types
  <2> QED
    BY <1>1, <2>1 DEF Types
<1>5. LogInv'
  <2>1. \A k \in Nodes : have'[k] = IF k = n THEN Len(zlog) + 1 ELSE have[k]
    BY <1>1 DEF Types
  <2>2. \A k \in Nodes : applied'[k] <= have'[k] /\ snap'[k].idx <= have'[k] /\ have'[k] <= Len(zlog')
    BY <1>1, <1>3, <2>1
  <2>3. Len(zlog') >= 1 /\ zlog'[1] = Join(Boot)
    BY <1>1, <1>3 DEF LogInv
  <2> QED
    BY <2>2, <2>3 DEF LogInv, Join
<1> QED
  BY <1>2, <1>4, <1>5, MemberKept, DatasetKept

LEMMA ProposeChangeKeeps == ASSUME IInv, NEW n \in Nodes, ProposeChange(n) PROVE IInv'
<1> USE DEF IInv
<1>1. UNCHANGED <<snap, stage, applied, members, confState, installed, datasets, addresses, stream,
                  exact, introduced, crashes, snapshots>>
  BY DEF ProposeChange, raftVars
<1>2. PICK d \in Datasets : Commit(n, Create(d)) \/ Commit(n, Delete(d)) \/ Commit(n, Move(d))
  BY DEF ProposeChange
<1>3. Create(d) \in Entries /\ Delete(d) \in Entries /\ Move(d) \in Entries
  BY DEF Entries
<1>4. PICK e \in Entries : Commit(n, e)
  BY <1>2, <1>3
<1>5. stream' \in [Nodes -> Seq(AddressMaps)]
  BY <1>1 DEF Types
<1> QED
  BY <1>1, <1>4, <1>5, CommitKeepsTypes, AddressKept

LEMMA RemoveNodeKeeps ==
    ASSUME IInv, NEW n \in Nodes, NEW m \in Nodes, RemoveNode(n, m) PROVE IInv'
<1> USE DEF IInv
<1>1. UNCHANGED <<snap, stage, applied, members, confState, installed, datasets, addresses, stream,
                  exact, introduced, crashes, snapshots>>
  BY DEF RemoveNode, raftVars
<1>2. LeaveEntry(m) \in Entries /\ Commit(n, LeaveEntry(m))
  BY DEF Entries, RemoveNode
<1>3. stream' \in [Nodes -> Seq(AddressMaps)]
  BY <1>1 DEF Types
<1> QED
  BY <1>1, <1>2, <1>3, CommitKeepsTypes, AddressKept

LEMMA AddNodeKeeps ==
    ASSUME IInv, NEW n \in Nodes, NEW m \in Nodes, AddNode(n, m) PROVE IInv'
<1> USE DEF IInv
<1>1. UNCHANGED <<snap, stage, applied, members, confState, installed, datasets, addresses,
                  exact, introduced, crashes, snapshots>>
  BY DEF AddNode, raftVars
<1>2. PICK taker \in Nodes : Join(n) \in Entries /\ Commit(taker, Join(n))
  BY DEF Entries, AddNode
<1>3. PICK f : f = [addresses[m] EXCEPT ![n] = "right"] /\ stream' = [stream EXCEPT ![n] = <<f>>]
  BY DEF AddNode
<1>4. f \in AddressMaps /\ \A k \in Nodes : f[k] = "blank" => k = Boot
  <2>1. addresses[m] \in AddressMaps
    BY DEF Types
  <2>2. \A k \in Nodes : addresses[m][k] = "blank" => k = Boot
    BY DEF AddressInv
  <2> QED
    BY <1>3, <2>1, <2>2 DEF AddressMaps
<1>5. stream' \in [Nodes -> Seq(AddressMaps)]
  <2>1. <<f>> \in Seq(AddressMaps)
    BY <1>4
  <2> QED
    BY <1>3, <2>1 DEF Types
<1>6. Types' /\ LogInv' /\ MemberInv' /\ DatasetInv' /\ AtKept
  BY <1>1, <1>2, <1>5, CommitKeepsTypes
<1>7. AddressInv'
  <2>1. \A k \in Nodes : stream'[k] = IF k = n THEN <<f>> ELSE stream[k]
    BY <1>3 DEF Types
  <2>2. <<f>>[1] = f
    OBVIOUS
  <2>3. \A k, j \in Nodes : stream'[k] # <<>> /\ stream'[k][1][j] = "blank" => j = Boot
    BY <1>4, <2>1, <2>2 DEF AddressInv
  <2>4. \A k \in Nodes : MembersAt'[applied[k]] = MembersAt[applied[k]]
    <3>1. \A k \in Nodes : applied[k] \in 0..Len(zlog)
      BY DEF Types, LogInv
    <3> QED
      BY <1>6, <3>1 DEF AtKept
  <2> QED
    BY <1>1, <2>3, <2>4 DEF AddressInv
<1> QED
  BY <1>6, <1>7

LEMMA ReadStreamKeeps == ASSUME IInv, NEW n \in Nodes, ReadStream(n) PROVE IInv'
<1> USE DEF IInv
<1>1. UNCHANGED <<zlog, have, snap, stage, applied, members, confState, installed, datasets, exact,
                  crashes, snapshots>>
  BY DEF ReadStream, logVars, raftVars
<1>2. AtKept
  BY <1>1, Stays
<1>3. stream[n] # <<>> /\ stream[n] \in Seq(AddressMaps)
  BY DEF ReadStream, Types
<1>4. stream[n][1] \in AddressMaps
  BY <1>3
<1>5. PICK f : /\ f = [m \in Nodes |-> IF addresses[n][m] = "none" THEN stream[n][1][m] ELSE addresses[n][m]]
               /\ addresses' = [addresses EXCEPT ![n] = f]
  BY DEF ReadStream
<1>6. f \in AddressMaps
  <2>1. addresses[n] \in AddressMaps
    BY DEF Types
  <2> QED
    BY <1>4, <1>5, <2>1 DEF AddressMaps
<1>7. \A k \in Nodes : /\ addresses'[k] = (IF k = n THEN f ELSE addresses[k])
                       /\ stream'[k] = (IF k = n THEN <<>> ELSE stream[k])
                       /\ introduced'[k] = (IF k = n THEN TRUE ELSE introduced[k])
  BY <1>5 DEF ReadStream, Types
<1>8. Types'
  <2>1. addresses' \in [Nodes -> AddressMaps]
    BY <1>5, <1>6 DEF Types
  <2>2. stream' \in [Nodes -> Seq(AddressMaps)] /\ introduced' \in [Nodes -> BOOLEAN]
    BY DEF Types, ReadStream
  <2> QED
    BY <1>1, <2>1, <2>2 DEF Types
<1>9. LogInv'
  BY <1>1 DEF LogInv
<1>10. AddressInv'
  <2>1. \A k \in Nodes : MembersAt'[applied[k]] = MembersAt[applied[k]]
    <3>1. \A k \in Nodes : applied[k] \in 0..Len(zlog)
      BY DEF Types, LogInv
    <3> QED
      BY <1>2, <3>1 DEF AtKept
  <2>2. \A m \in Nodes : f[m] = IF addresses[n][m] = "none" THEN stream[n][1][m] ELSE addresses[n][m]
    BY <1>5
  <2>3. ASSUME NEW k \in Nodes, NEW m \in Nodes
        PROVE  /\ addresses'[k][m] = "blank" => m = Boot
               /\ stream'[k] # <<>> /\ stream'[k][1][m] = "blank" => m = Boot
               /\ (m \in MembersAt'[applied'[k]] /\ addresses'[k][m] = "none") => installed'[k] # "no"
               /\ (k # m /\ m \notin MembersAt'[applied'[k]] /\ addresses'[k][m] # "none")
                     => introduced'[k] \/ installed'[k] # "no"
    <3>1. CASE k = n
      <4>1. addresses'[k][m] = f[m] /\ stream'[k] = <<>> /\ introduced'[k]
        BY <1>7, <3>1
      <4>2. f[m] = "blank" => m = Boot
        BY <1>3, <2>2 DEF AddressInv
      <4>3. f[m] = "none" => addresses[n][m] = "none"
        BY <2>2
      <4> QED
        BY <1>1, <2>1, <3>1, <4>1, <4>2, <4>3 DEF AddressInv
    <3>2. CASE k # n
      <4>1. addresses'[k] = addresses[k] /\ stream'[k] = stream[k] /\ introduced'[k] = introduced[k]
        BY <1>7, <3>2
      <4>2. MembersAt'[applied'[k]] = MembersAt[applied[k]] /\ installed'[k] = installed[k]
        BY <1>1, <2>1
      <4> QED
        BY <4>1, <4>2 DEF AddressInv
    <3> QED
      BY <3>1, <3>2
  <2> QED
    BY <2>3 DEF AddressInv
<1> QED
  BY <1>1, <1>2, <1>8, <1>9, <1>10, MemberKept, DatasetKept

-----------------------------------------------------------------------------
(* The theorems.                                                           *)

LEMMA StepKeeps == ASSUME IInv, [Next]_vars PROVE IInv'
<1>1. CASE Next
  <2>1. PICK n \in Nodes :
          \/ Crash(n) \/ Register(n)
          \/ ProcessConfChange(n) \/ DropEntry(n) \/ ProcessNil(n) \/ Process(n) \/ TrySnapshot(n)
          \/ Deliver(n) \/ InstallSnapshot(n) \/ ProposeChange(n) \/ ReadStream(n)
          \/ \E m \in Nodes : AddNode(n, m) \/ RemoveNode(n, m)
    BY <1>1 DEF Next
  <2>2. CASE Crash(n)
    BY <2>2, CrashKeeps
  <2>3. CASE Register(n)
    BY <2>3, RegisterKeeps
  <2>4. CASE ProcessConfChange(n)
    BY <2>4, ProcessConfChangeKeeps
  <2>5. CASE DropEntry(n) \/ Process(n)
    BY <2>5, ProcessKeeps
  <2>6. CASE ProcessNil(n)
    BY <2>6, ProcessNilKeeps
  <2>7. CASE TrySnapshot(n)
    BY <2>7, TrySnapshotKeeps
  <2>8. CASE Deliver(n)
    BY <2>8, DeliverKeeps
  <2>9. CASE InstallSnapshot(n)
    BY <2>9, InstallSnapshotKeeps
  <2>10. CASE ProposeChange(n)
    BY <2>10, ProposeChangeKeeps
  <2>11. CASE ReadStream(n)
    BY <2>11, ReadStreamKeeps
  <2>12. CASE \E m \in Nodes : AddNode(n, m) \/ RemoveNode(n, m)
    BY <2>12, AddNodeKeeps, RemoveNodeKeeps
  <2> QED
    BY <2>1, <2>2, <2>3, <2>4, <2>5, <2>6, <2>7, <2>8, <2>9, <2>10, <2>11, <2>12
<1>2. CASE UNCHANGED vars
  <2> USE DEF IInv
  <2>1. UNCHANGED <<zlog, have, snap, stage, applied, members, confState, installed, datasets,
                    addresses, stream, exact, introduced, crashes, snapshots>>
    BY <1>2 DEF vars, logVars, raftVars
  <2>2. AtKept
    BY <2>1, Stays
  <2>3. Types'
    BY <2>1 DEF Types
  <2>4. LogInv'
    BY <2>1 DEF LogInv
  <2> QED
    BY <2>1, <2>2, <2>3, <2>4, AddressKept, MemberKept, DatasetKept
<1> QED
  BY <1>1, <1>2

\* Every reachable state satisfies the inductive invariant.
THEOREM Invariance == Spec => []IInv
<1>1. Init => IInv
  BY Initially
<1>2. IInv /\ [Next]_vars => IInv'
  BY StepKeeps
<1> QED
  BY <1>1, <1>2, PTL DEF Spec

\* The state's types, and what a node knows of the others' addresses: only Boot's can be
\* blank, none is missing but after a snapshot was installed, and none is left of a node
\* that is no member but after a stream or a snapshot.
THEOREM MembersKnown == Spec => []ZeroInvariant
<1>1. IInv => ZeroInvariant
  <2> SUFFICES ASSUME IInv PROVE ZeroInvariant
    OBVIOUS
  <2> USE DEF IInv
  <2>1. Len(zlog) \in Nat /\ Len(zlog) <= MaxLog /\ MaxLog \in Nat
    BY ZeroGroupAssumption DEF Types
  <2>2. ASSUME NEW n \in Nodes
        PROVE  /\ have[n] \in 0..Len(zlog) /\ applied[n] \in 0..have[n]
               /\ snap[n].idx \in 0..have[n]
               /\ members[n] \subseteq Nodes /\ confState[n] \subseteq Nodes
               /\ \A d \in Datasets : datasets[n][d] \in 0..MaxLog
               /\ (stream[n] # <<>> => stream[n][1] \in [Nodes -> {"none", "blank", "right"}])
    <3>1. /\ have[n] \in Nat /\ applied[n] \in Nat /\ snap[n].idx \in Nat
          /\ applied[n] <= have[n] /\ snap[n].idx <= have[n] /\ have[n] <= Len(zlog)
      BY DEF Types, LogInv, Snapshots
    <3>2. members[n] \subseteq Nodes /\ confState[n] \subseteq Nodes
      BY DEF Types
    <3>3. \A d \in Datasets : datasets[n][d] \in Nat /\ datasets[n][d] <= applied[n]
      BY DEF Types, LogInv, DatasetMaps
    <3>4. stream[n] \in Seq(AddressMaps)
      BY DEF Types
    <3>5. stream[n] # <<>> => stream[n][1] \in AddressMaps
      BY <3>4
    <3>6. \A d \in Datasets : datasets[n][d] \in 0..MaxLog
      BY <2>1, <3>1, <3>3
    <3> QED
      BY <3>1, <3>2, <3>5, <3>6 DEF AddressMaps
  <2>3. TypeOK
    <3>1. addresses \in [Nodes -> [Nodes -> {"none", "blank", "right"}]]
      BY DEF Types, AddressMaps
    <3> QED
      BY <2>2, <3>1 DEF Types, TypeOK
  <2>4. AddressesFollow
    BY DEF AddressInv, AddressesFollow
  <2> QED
    BY <2>3, <2>4 DEF ZeroInvariant
<1> QED
  BY <1>1, Invariance, PTL

\* A node's datasets and placements are those of the log it has applied, unless an entry
\* was dropped before its function was registered, or a snapshot was installed over
\* datasets or came from such a node.
THEOREM DatasetsAreTheLogs == Spec => []DatasetsFollow
<1>1. IInv => DatasetsFollow
  BY DEF IInv, DatasetInv, DatasetsFollow
<1> QED
  BY <1>1, Invariance, PTL

\* A snapshot carries the members of the log at its index, unless its maker had installed
\* a snapshot and has seen no change of members since.
THEOREM SnapshotsCarryMembers == Spec => []SnapshotMembers
<1>1. IInv => SnapshotMembers
  BY DEF IInv, MemberInv, SnapshotMembers
<1> QED
  BY <1>1, Invariance, PTL

=============================================================================
