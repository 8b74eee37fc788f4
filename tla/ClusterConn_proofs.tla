-------------------------- MODULE ClusterConn_proofs --------------------------
(***************************************************************************)
(* Proof, for every number of nodes, goroutines, owners and subscribers,   *)
(* that the connections of a node are never leaked and lead where the map  *)
(* says (ConnInvariant of ClusterConn), and that subscribers are told of   *)
(* every change (SubscribersFollow).                                       *)
(***************************************************************************)
EXTENDS ClusterConn, SequenceTheorems, WellFoundedInduction, TLAPS

\* What the records of getters and changers are, taken apart by their pc.
LEMMA Records ==
    ASSUME TypeOK
    PROVE  /\ \A g \in Getters :
                /\ getter[g].pc \in {"idle", "cached", "address", "dial", "store", "client"}
                /\ getter[g].pc = "idle" => getter[g] = Idle
                /\ getter[g].pc # "idle" => getter[g].owner \in Owners /\ getter[g].node \in Nodes
                /\ getter[g].pc = "dial" => getter[g].address \in Addresses
                /\ getter[g].pc \in {"store", "client"} => getter[g].conn \in Conns
                /\ getter[g].pc = "cached" =>
                     getter[g] = [pc |-> "cached", owner |-> getter[g].owner,
                                  node |-> getter[g].node]
                /\ getter[g].pc = "store" =>
                     getter[g] = [pc |-> "store", owner |-> getter[g].owner,
                                  node |-> getter[g].node, conn |-> getter[g].conn]
           /\ \A c \in Changers : Holds(c) =>
                /\ changer[c].type \in {"add", "remove"} /\ changer[c].node \in Nodes
                /\ changer[c].left \subseteq Subscribers
                /\ changer[c] = [pc |-> "sending", type |-> changer[c].type,
                                 node |-> changer[c].node, left |-> changer[c].left]
<1>1. ASSUME NEW g \in Getters
      PROVE  /\ getter[g].pc \in {"idle", "cached", "address", "dial", "store", "client"}
             /\ getter[g].pc = "idle" => getter[g] = Idle
             /\ getter[g].pc # "idle" => getter[g].owner \in Owners /\ getter[g].node \in Nodes
             /\ getter[g].pc = "dial" => getter[g].address \in Addresses
             /\ getter[g].pc \in {"store", "client"} => getter[g].conn \in Conns
             /\ getter[g].pc = "cached" =>
                  getter[g] = [pc |-> "cached", owner |-> getter[g].owner, node |-> getter[g].node]
             /\ getter[g].pc = "store" =>
                  getter[g] = [pc |-> "store", owner |-> getter[g].owner,
                               node |-> getter[g].node, conn |-> getter[g].conn]
  <2>1. getter[g] \in GetterStates
    BY DEF TypeOK
  <2> QED
    BY <2>1 DEF GetterStates, Idle
<1>2. ASSUME NEW c \in Changers, Holds(c)
      PROVE  /\ changer[c].type \in {"add", "remove"} /\ changer[c].node \in Nodes
             /\ changer[c].left \subseteq Subscribers
             /\ changer[c] = [pc |-> "sending", type |-> changer[c].type,
                              node |-> changer[c].node, left |-> changer[c].left]
  <2>1. changer[c] \in ChangerStates
    BY DEF TypeOK
  <2> QED
    BY <2>1, <1>2 DEF ChangerStates, Idle, Holds
<1> QED
  BY <1>1, <1>2

MadeConns == [node : Nodes, address : Addresses, open : BOOLEAN]

\* What the connections are.
LEMMA MadeType ==
    ASSUME TypeOK, NEW i \in DOMAIN made
    PROVE  /\ made[i].node \in Nodes /\ made[i].address \in Addresses /\ made[i].open \in BOOLEAN
           /\ i \in Conns /\ i # None
<1>1. made \in Seq(MadeConns) /\ Len(made) \in Nat /\ DOMAIN made = 1..Len(made)
  BY DEF TypeOK, MadeConns
<1>2. made[i] \in MadeConns
  BY <1>1
<1>3. Len(made) <= MaxConns /\ MaxConns \in Nat
  BY ConnAssumption DEF TypeOK
<1>4. i \in Conns
  BY <1>1, <1>3 DEF Conns
<1> QED
  BY <1>2, <1>4, ConnAssumption DEF MadeConns, Conns

\* Closing connections changes nothing else of them.
LEMMA ClosedMade ==
    ASSUME TypeOK, NEW cs
    PROVE  /\ Closed(cs) \in Seq(MadeConns) /\ Len(Closed(cs)) = Len(made)
           /\ DOMAIN Closed(cs) = DOMAIN made
           /\ \A i \in DOMAIN made :
                /\ Closed(cs)[i].node = made[i].node /\ Closed(cs)[i].address = made[i].address
                /\ Closed(cs)[i].open <=> made[i].open /\ i \notin cs
<1>1. made \in Seq(MadeConns) /\ DOMAIN made = 1..Len(made) /\ Len(made) \in Nat
  BY DEF TypeOK, MadeConns
<1>2. \A i \in DOMAIN made : made[i] \in MadeConns
  BY <1>1
<1>3. \A i \in DOMAIN made :
        /\ Closed(cs)[i] \in MadeConns
        /\ Closed(cs)[i].node = made[i].node /\ Closed(cs)[i].address = made[i].address
        /\ Closed(cs)[i].open <=> made[i].open /\ i \notin cs
  BY <1>2 DEF Closed, MadeConns
<1>4. Closed(cs) \in [1..Len(made) -> MadeConns]
  BY <1>1, <1>3 DEF Closed
<1>5. Closed(cs) \in Seq(MadeConns) /\ Len(Closed(cs)) = Len(made)
  BY <1>1, <1>4
<1> QED
  BY <1>1, <1>3, <1>4, <1>5

\* A new connection comes after the others, and is open.
LEMMA AppendMade ==
    ASSUME TypeOK, NEW n \in Nodes, NEW a \in Addresses, Len(made) < MaxConns,
           made' = Append(made, [node |-> n, address |-> a, open |-> TRUE])
    PROVE  /\ made' \in Seq(MadeConns) /\ Len(made') = Len(made) + 1 /\ Len(made') <= MaxConns
           /\ Len(made) + 1 \in Conns
           /\ DOMAIN made' = DOMAIN made \cup {Len(made) + 1}
           /\ Len(made) + 1 \notin DOMAIN made
           /\ \A i \in DOMAIN made : made'[i] = made[i]
           /\ made'[Len(made) + 1] = [node |-> n, address |-> a, open |-> TRUE]
<1>1. made \in Seq(MadeConns) /\ DOMAIN made = 1..Len(made) /\ Len(made) \in Nat
  BY DEF TypeOK, MadeConns
<1>2. [node |-> n, address |-> a, open |-> TRUE] \in MadeConns
  BY DEF MadeConns
<1>3. /\ made' \in Seq(MadeConns) /\ Len(made') = Len(made) + 1
      /\ DOMAIN made' = 1..Len(made) + 1
      /\ \A i \in 1..Len(made) : made'[i] = made[i]
      /\ made'[Len(made) + 1] = [node |-> n, address |-> a, open |-> TRUE]
  BY <1>1, <1>2, AppendProperties
<1>4. MaxConns \in Nat
  BY ConnAssumption
<1> QED
  BY <1>1, <1>3, <1>4 DEF Conns

\* A step of a getter leaves the other getters alone.
LEMMA GoesTo ==
    ASSUME TypeOK, NEW g \in Getters, NEW r, Goes(g, r)
    PROVE  /\ getter'[g] = r
           /\ \A h \in Getters \ {g} : getter'[h] = getter[h]
           /\ r \in GetterStates => getter' \in [Getters -> GetterStates]
BY DEF Goes, TypeOK

-----------------------------------------------------------------------------
\* Adding a node: it has no connection and nobody dials it, unless a removal overtook a Dial.
LEMMA AddNodeStep ==
    ASSUME ConnInvariant, NEW c \in Changers, NEW n \in Nodes, NEW a \in Addresses,
           AddNode(c, n, a)
    PROVE  ConnInvariant'
<1> USE DEF ConnInvariant
<1>1. /\ UNCHANGED <<conns, made, clients, getter, channel, view, asking, removed, overtaken>>
      /\ addresses' = [addresses EXCEPT ![n] = a]
      /\ changer' = [changer EXCEPT ![c] =
                       [pc |-> "sending", type |-> "add", node |-> n, left |-> Subscribers]]
      /\ addresses[n] = None /\ AddressesFree
  BY DEF AddNode, Begin, told, past
<1>2. TypeOK'
  <2>1. [pc |-> "sending", type |-> "add", node |-> n, left |-> Subscribers] \in ChangerStates
    BY DEF ChangerStates
  <2>2. changer' \in [Changers -> ChangerStates]
    BY <1>1, <2>1 DEF TypeOK
  <2>3. addresses' \in [Nodes -> Addresses \cup {None}]
    BY <1>1 DEF TypeOK
  <2> QED
    BY <1>1, <2>2, <2>3 DEF TypeOK
<1>3. OneChanger'
  BY <1>1 DEF OneChanger, AddressesFree, Holds, TypeOK
<1>4. NoConnLeaked' /\ MapHoldsOpen' /\ DialOwned'
  BY <1>1 DEF NoConnLeaked, MapHoldsOpen, DialOwned
<1>5. ConnCurrent'
  <2>1. n \notin overtaken => conns[n] = None
    <3> SUFFICES ASSUME n \notin overtaken, conns[n] # None PROVE FALSE
      OBVIOUS
    <3>1. made[conns[n]].address = None
      BY <1>1 DEF ConnCurrent
    <3>2. conns[n] \in DOMAIN made
      BY DEF MapHoldsOpen
    <3>3. made[conns[n]].address \in Addresses
      BY <3>2, MadeType
    <3> QED
      BY <3>1, <3>3, ConnAssumption
  <2>2. \A g \in Getters :
           getter[g].pc \in {"dial", "store"} /\ getter[g].node = n => n \in overtaken
    <3> SUFFICES ASSUME NEW g \in Getters, getter[g].pc \in {"dial", "store"},
                        getter[g].node = n, n \notin overtaken
                 PROVE  FALSE
      OBVIOUS
    <3>1. CASE getter[g].pc = "dial"
      <4>1. getter[g].address \in Addresses
        BY <3>1, Records
      <4> QED
        BY <1>1, <3>1, <4>1, ConnAssumption DEF ConnCurrent
    <3>2. CASE getter[g].pc = "store"
      <4>1. getter[g].conn \in DOMAIN made
        BY <3>2 DEF DialOwned
      <4>2. made[getter[g].conn].address \in Addresses
        BY <4>1, MadeType
      <4> QED
        BY <1>1, <3>2, <4>2, ConnAssumption DEF ConnCurrent
    <3> QED
      BY <3>1, <3>2
  <2> QED
    BY <1>1, <2>1, <2>2 DEF ConnCurrent, TypeOK
<1>6. ClientsUsable'
  BY <1>1 DEF ClientsUsable
<1> QED
  BY <1>2, <1>3, <1>4, <1>5, <1>6

\* Removing a node closes its connection, and no other.
LEMMA RemoveNodeStep ==
    ASSUME ConnInvariant, NEW c \in Changers, NEW n \in Nodes, RemoveNode(c, n)
    PROVE  ConnInvariant'
<1> USE DEF ConnInvariant
<1>1. /\ UNCHANGED <<clients, getter, channel, view, asking>>
      /\ addresses' = [addresses EXCEPT ![n] = None]
      /\ made' = IF conns[n] = None THEN made ELSE Closed({conns[n]})
      /\ conns' = [conns EXCEPT ![n] = None]
      /\ overtaken' = IF Dialling(n) = {} THEN overtaken ELSE overtaken \cup {n}
      /\ removed' = removed \cup {n}
      /\ changer' = [changer EXCEPT ![c] =
                       [pc |-> "sending", type |-> "remove", node |-> n, left |-> Subscribers]]
      /\ AddressesFree
  BY DEF RemoveNode, Begin, told
<1>2. /\ made' \in Seq(MadeConns) /\ Len(made') = Len(made) /\ DOMAIN made' = DOMAIN made
      /\ \A i \in DOMAIN made :
           /\ made'[i].node = made[i].node /\ made'[i].address = made[i].address
           /\ made'[i].open <=> made[i].open /\ ~(conns[n] # None /\ i = conns[n])
  <2>1. CASE conns[n] = None
    BY <1>1, <2>1 DEF TypeOK, MadeConns
  <2>2. CASE conns[n] # None
    BY <1>1, <2>2, ClosedMade
  <2> QED
    BY <2>1, <2>2
<1>3. \A m \in Nodes : conns'[m] = IF m = n THEN None ELSE conns[m]
  BY <1>1 DEF TypeOK
<1>4. TypeOK'
  <2>1. [pc |-> "sending", type |-> "remove", node |-> n, left |-> Subscribers] \in ChangerStates
    BY DEF ChangerStates
  <2>2. changer' \in [Changers -> ChangerStates]
    BY <1>1, <2>1 DEF TypeOK
  <2>3. /\ addresses' \in [Nodes -> Addresses \cup {None}]
        /\ conns' \in [Nodes -> Conns \cup {None}]
    BY <1>1 DEF TypeOK
  <2>4. overtaken' \subseteq removed' /\ removed' \subseteq Nodes
    BY <1>1 DEF TypeOK
  <2> QED
    BY <1>1, <1>2, <2>2, <2>3, <2>4 DEF TypeOK, MadeConns
<1>5. OneChanger'
  BY <1>1 DEF OneChanger, AddressesFree, Holds, TypeOK
<1>6. NoConnLeaked'
  <2> SUFFICES ASSUME NEW i \in DOMAIN made', made'[i].open
               PROVE  \/ conns'[made'[i].node] = i
                      \/ \E g \in Getters : getter'[g].pc = "store" /\ getter'[g].conn = i
    BY DEF NoConnLeaked
  <2>1. i \in DOMAIN made /\ made[i].open /\ ~(conns[n] # None /\ i = conns[n])
        /\ made'[i].node = made[i].node /\ made[i].node \in Nodes /\ i # None
    BY <1>2, MadeType
  <2>2. CASE conns[made[i].node] = i
    BY <1>3, <2>1, <2>2
  <2>3. CASE \E g \in Getters : getter[g].pc = "store" /\ getter[g].conn = i
    BY <1>1, <2>3
  <2> QED
    BY <2>1, <2>2, <2>3 DEF NoConnLeaked
<1>7. MapHoldsOpen'
  <2> SUFFICES ASSUME NEW m \in Nodes, conns'[m] # None
               PROVE  /\ conns'[m] \in DOMAIN made'
                      /\ made'[conns'[m]].open /\ made'[conns'[m]].node = m
    BY DEF MapHoldsOpen
  <2>1. m # n /\ conns'[m] = conns[m] /\ conns[m] # None
    BY <1>3
  <2>2. conns[m] \in DOMAIN made /\ made[conns[m]].open /\ made[conns[m]].node = m
    BY <2>1 DEF MapHoldsOpen
  <2>3. conns[n] # None => conns[m] # conns[n]
    BY <2>1, <2>2 DEF MapHoldsOpen
  <2> QED
    BY <1>2, <2>1, <2>2, <2>3
<1>8. DialOwned'
  <2> SUFFICES ASSUME NEW g \in Getters, getter[g].pc = "store"
               PROVE  /\ getter[g].conn \in DOMAIN made'
                      /\ made'[getter[g].conn].open /\ made'[getter[g].conn].node = getter[g].node
                      /\ conns'[getter[g].node] # getter[g].conn
                      /\ \A h \in Getters :
                           getter[h].pc = "store" /\ getter[h].conn = getter[g].conn => h = g
    BY <1>1 DEF DialOwned
  <2>1. /\ getter[g].conn \in DOMAIN made
        /\ made[getter[g].conn].open /\ made[getter[g].conn].node = getter[g].node
        /\ conns[getter[g].node] # getter[g].conn
        /\ \A h \in Getters : getter[h].pc = "store" /\ getter[h].conn = getter[g].conn => h = g
    BY DEF DialOwned
  <2>2. getter[g].node \in Nodes /\ getter[g].conn \in Conns /\ getter[g].conn # None
    BY Records, ConnAssumption DEF Conns
  <2>3. conns[n] # None => getter[g].conn # conns[n]
    BY <2>1 DEF MapHoldsOpen
  <2> QED
    BY <1>2, <1>3, <2>1, <2>2, <2>3
<1>9. ConnCurrent'
  <2>1. \A m \in Nodes \ overtaken' :
          conns'[m] # None => made'[conns'[m]].address = addresses'[m]
    <3> SUFFICES ASSUME NEW m \in Nodes, m \notin overtaken', conns'[m] # None
                 PROVE  made'[conns'[m]].address = addresses'[m]
      OBVIOUS
    <3>1. m # n /\ conns'[m] = conns[m] /\ conns[m] # None /\ m \notin overtaken
      BY <1>1, <1>3
    <3>2. addresses'[m] = addresses[m]
      BY <1>1, <3>1 DEF TypeOK
    <3>3. conns[m] \in DOMAIN made /\ made[conns[m]].address = addresses[m]
      BY <3>1 DEF MapHoldsOpen, ConnCurrent
    <3> QED
      BY <1>2, <3>1, <3>2, <3>3
  <2>2. ASSUME NEW g \in Getters, getter[g].pc \in {"dial", "store"},
               getter[g].node \notin overtaken'
        PROVE  addresses'[getter[g].node] = addresses[getter[g].node]
               /\ getter[g].node \notin overtaken
    <3>1. g \in Dialling(getter[g].node)
      BY <2>2 DEF Dialling
    <3>2. getter[g].node # n
      BY <1>1, <2>2, <3>1
    <3> QED
      BY <1>1, <2>2, <3>2 DEF TypeOK
  <2>3. \A g \in Getters : getter[g].pc = "store" =>
          made'[getter[g].conn].address = made[getter[g].conn].address
    BY <1>2 DEF DialOwned
  <2>4. ASSUME NEW g \in Getters, getter'[g].pc = "dial", getter'[g].node \notin overtaken'
        PROVE  getter'[g].address = addresses'[getter'[g].node]
    BY <1>1, <2>2, <2>4 DEF ConnCurrent
  <2>5. ASSUME NEW g \in Getters, getter'[g].pc = "store", getter'[g].node \notin overtaken'
        PROVE  made'[getter'[g].conn].address = addresses'[getter'[g].node]
    <3>1. getter[g].pc = "store" /\ getter[g].node \notin overtaken'
      BY <1>1, <2>5
    <3>2. /\ addresses'[getter[g].node] = addresses[getter[g].node]
          /\ getter[g].node \notin overtaken
      BY <2>2, <3>1
    <3>3. made[getter[g].conn].address = addresses[getter[g].node]
      BY <3>1, <3>2 DEF ConnCurrent
    <3> QED
      BY <1>1, <2>3, <3>1, <3>2, <3>3
  <2> QED
    BY <2>1, <2>4, <2>5 DEF ConnCurrent
<1>10. ClientsUsable'
  <2>1. \A m \in Nodes \ removed' : m \notin removed /\ conns'[m] = conns[m]
    BY <1>1, <1>3
  <2>2. \A g \in Getters : getter[g].pc = "client" => getter[g].node \in Nodes
    BY Records
  <2> QED
    BY <1>1, <2>1, <2>2 DEF ClientsUsable
<1> QED
  BY <1>4, <1>5, <1>6, <1>7, <1>8, <1>9, <1>10

-----------------------------------------------------------------------------
\* A step that changes nothing of the connections but one getter, which neither comes to
\* hold a connection nor to dial (GetClient, and GetAddress of a node that is not known).
LEMMA HarmlessStep ==
    ASSUME ConnInvariant, NEW g \in Getters, NEW r \in GetterStates, Goes(g, r),
           getter[g].pc # "store", r.pc \notin {"dial", "store", "client"},
           UNCHANGED <<addresses, conns, made, clients, changer, told, past>>
    PROVE  ConnInvariant'
<1> USE DEF ConnInvariant, told, past
<1>1. /\ getter'[g] = r
      /\ \A h \in Getters \ {g} : getter'[h] = getter[h]
      /\ getter' \in [Getters -> GetterStates]
  BY GoesTo
<1>2. TypeOK' /\ OneChanger' /\ MapHoldsOpen'
  BY <1>1 DEF TypeOK, OneChanger, Holds, MapHoldsOpen
<1>3. NoConnLeaked'
  BY <1>1 DEF NoConnLeaked
<1>4. DialOwned'
  BY <1>1 DEF DialOwned
<1>5. ConnCurrent'
  BY <1>1 DEF ConnCurrent
<1>6. ClientsUsable'
  BY <1>1 DEF ClientsUsable
<1> QED
  BY <1>2, <1>3, <1>4, <1>5, <1>6

LEMMA GetClientStep ==
    ASSUME ConnInvariant, NEW g \in Getters, NEW o \in Owners, NEW n \in Nodes,
           GetClient(g, o, n)
    PROVE  ConnInvariant'
<1>1. [pc |-> "cached", owner |-> o, node |-> n] \in GetterStates
  BY DEF GetterStates
<1>2. getter[g].pc # "store"
  BY DEF GetClient, Idle
<1> QED
  BY <1>1, <1>2, HarmlessStep DEF GetClient, told, past

LEMMA GetCachedConnStep ==
    ASSUME ConnInvariant, NEW g \in Getters, GetCachedConn(g)
    PROVE  ConnInvariant'
<1> DEFINE n == getter[g].node
<1> USE DEF ConnInvariant, told, past
<1>1. /\ getter[g].pc = "cached" /\ n \in Nodes /\ getter[g].owner \in Owners
      /\ UNCHANGED <<addresses, conns, made, clients, changer, told, past>>
  BY Records DEF GetCachedConn
<1>2. CASE conns[n] = None
  <2>1. getter[g] = [pc |-> "cached", owner |-> getter[g].owner, node |-> n]
    BY <1>1, Records
  <2>2. [getter[g] EXCEPT !.pc = "address"]
          = [pc |-> "address", owner |-> getter[g].owner, node |-> n]
    BY <2>1
  <2>3. Goes(g, [getter[g] EXCEPT !.pc = "address"])
    BY <1>2 DEF GetCachedConn
  <2>4. [getter[g] EXCEPT !.pc = "address"] \in GetterStates
    BY <1>1, <2>2 DEF GetterStates
  <2>5. [getter[g] EXCEPT !.pc = "address"].pc = "address"
    BY <2>2
  <2> QED
    BY <1>1, <2>3, <2>4, <2>5, HarmlessStep
<1>3. CASE conns[n] # None
  <2> DEFINE r == [pc |-> "client", owner |-> getter[g].owner, node |-> n, conn |-> conns[n]]
  <2>1. r \in GetterStates /\ Goes(g, r)
    BY <1>1, <1>3 DEF GetterStates, TypeOK, GetCachedConn
  <2>2. r.pc = "client" /\ r.node = n /\ r.conn = conns[n]
    OBVIOUS
  <2> HIDE DEF r
  <2>3. /\ getter'[g] = r
        /\ \A h \in Getters \ {g} : getter'[h] = getter[h]
        /\ getter' \in [Getters -> GetterStates]
    BY <2>1, GoesTo
  <2>4. TypeOK' /\ OneChanger' /\ MapHoldsOpen'
    BY <1>1, <2>3 DEF TypeOK, OneChanger, Holds, MapHoldsOpen
  <2>5. NoConnLeaked'
    BY <1>1, <2>2, <2>3 DEF NoConnLeaked
  <2>6. DialOwned'
    BY <1>1, <2>2, <2>3 DEF DialOwned
  <2>7. ConnCurrent'
    BY <1>1, <2>2, <2>3 DEF ConnCurrent
  <2>8. ClientsUsable'
    BY <1>1, <2>2, <2>3 DEF ClientsUsable
  <2> QED
    BY <2>4, <2>5, <2>6, <2>7, <2>8
<1> QED
  BY <1>2, <1>3

LEMMA GetAddressStep ==
    ASSUME ConnInvariant, NEW g \in Getters, GetAddress(g)
    PROVE  ConnInvariant'
<1> DEFINE n == getter[g].node
<1> USE DEF ConnInvariant, told, past
<1>1. /\ getter[g].pc = "address" /\ n \in Nodes /\ getter[g].owner \in Owners
      /\ UNCHANGED <<addresses, conns, made, clients, changer, told, past>>
  BY Records DEF GetAddress
<1>2. CASE addresses[n] = None
  <2>1. Goes(g, Idle) /\ Idle \in GetterStates /\ Idle.pc = "idle"
    BY <1>2 DEF GetAddress, Returns, GetterStates, Idle
  <2> QED
    BY <1>1, <2>1, HarmlessStep
<1>3. CASE addresses[n] # None
  <2> DEFINE r == [pc |-> "dial", owner |-> getter[g].owner, node |-> n, address |-> addresses[n]]
  <2>1. r \in GetterStates /\ Goes(g, r)
    BY <1>1, <1>3 DEF GetterStates, TypeOK, GetAddress
  <2>2. r.pc = "dial" /\ r.node = n /\ r.address = addresses[n]
    OBVIOUS
  <2> HIDE DEF r
  <2>3. /\ getter'[g] = r
        /\ \A h \in Getters \ {g} : getter'[h] = getter[h]
        /\ getter' \in [Getters -> GetterStates]
    BY <2>1, GoesTo
  <2>4. TypeOK' /\ OneChanger' /\ MapHoldsOpen'
    BY <1>1, <2>3 DEF TypeOK, OneChanger, Holds, MapHoldsOpen
  <2>5. NoConnLeaked'
    BY <1>1, <2>2, <2>3 DEF NoConnLeaked
  <2>6. DialOwned'
    BY <1>1, <2>2, <2>3 DEF DialOwned
  <2>7. ConnCurrent'
    BY <1>1, <2>2, <2>3 DEF ConnCurrent
  <2>8. ClientsUsable'
    BY <1>1, <2>2, <2>3 DEF ClientsUsable
  <2> QED
    BY <2>4, <2>5, <2>6, <2>7, <2>8
<1> QED
  BY <1>2, <1>3

-----------------------------------------------------------------------------
\* A new connection is the getter's own, and leads to the address it had read.
LEMMA GrpcDialStep ==
    ASSUME ConnInvariant, NEW g \in Getters, GrpcDial(g)
    PROVE  ConnInvariant'
<1> DEFINE n == getter[g].node
           a == getter[g].address
           i == Len(made) + 1
           r == [pc |-> "store", owner |-> getter[g].owner, node |-> n, conn |-> i]
<1> USE DEF ConnInvariant, told, past
<1>1. /\ getter[g].pc = "dial" /\ n \in Nodes /\ getter[g].owner \in Owners /\ a \in Addresses
      /\ Goes(g, r)
      /\ UNCHANGED <<addresses, conns, clients, changer, told, past>>
      /\ Len(made) < MaxConns
      /\ made' = Append(made, [node |-> n, address |-> a, open |-> TRUE])
  BY Records DEF GrpcDial
<1>2. r.pc = "store" /\ r.node = n /\ r.conn = i
  OBVIOUS
<1>3. /\ made' \in Seq(MadeConns) /\ Len(made') <= MaxConns /\ i \in Conns
      /\ DOMAIN made' = DOMAIN made \cup {i} /\ i \notin DOMAIN made
      /\ \A j \in DOMAIN made : made'[j] = made[j]
      /\ made'[i].node = n /\ made'[i].address = a /\ made'[i].open
  <2> HIDE DEF n, a, ConnInvariant, told, past
  <2>1. TypeOK
    BY DEF ConnInvariant
  <2>2. /\ made' \in Seq(MadeConns) /\ Len(made') <= MaxConns /\ i \in Conns
        /\ DOMAIN made' = DOMAIN made \cup {i} /\ i \notin DOMAIN made
        /\ \A j \in DOMAIN made : made'[j] = made[j]
        /\ made'[i] = [node |-> n, address |-> a, open |-> TRUE]
    BY <1>1, <2>1, AppendMade
  <2> QED
    BY <2>2
<1>4. r \in GetterStates
  BY <1>1, <1>3 DEF GetterStates
<1> HIDE DEF n, a, i, r
<1>5. /\ getter'[g] = r
      /\ \A h \in Getters \ {g} : getter'[h] = getter[h]
      /\ getter' \in [Getters -> GetterStates]
  BY <1>1, <1>4, GoesTo
<1>6. TypeOK' /\ OneChanger'
  BY <1>1, <1>3, <1>5 DEF TypeOK, OneChanger, Holds, MadeConns
<1>7. MapHoldsOpen'
  BY <1>1, <1>3 DEF MapHoldsOpen
<1>8. NoConnLeaked'
  <2> SUFFICES ASSUME NEW j \in DOMAIN made', made'[j].open
               PROVE  \/ conns'[made'[j].node] = j
                      \/ \E h \in Getters : getter'[h].pc = "store" /\ getter'[h].conn = j
    BY DEF NoConnLeaked
  <2>1. CASE j = i
    BY <1>2, <1>5, <2>1
  <2>2. CASE j \in DOMAIN made
    <3>1. made'[j] = made[j]
      BY <1>3, <2>2
    <3>2. CASE conns[made[j].node] = j
      BY <1>1, <3>1, <3>2
    <3>3. ASSUME NEW h \in Getters, getter[h].pc = "store", getter[h].conn = j
          PROVE  getter'[h].pc = "store" /\ getter'[h].conn = j
      BY <1>1, <1>5, <3>3
    <3> QED
      BY <2>2, <3>1, <3>2, <3>3 DEF NoConnLeaked
  <2> QED
    BY <1>3, <2>1, <2>2
<1>9. DialOwned'
  <2>1. conns[n] # i
    <3> SUFFICES ASSUME conns[n] = i PROVE FALSE
      OBVIOUS
    <3>1. i # None
      BY <1>3, ConnAssumption DEF Conns
    <3> QED
      BY <1>1, <1>3, <3>1 DEF MapHoldsOpen, n
  <2>2. \A h \in Getters : getter[h].pc = "store" => getter[h].conn # i
    BY <1>3 DEF DialOwned
  <2> SUFFICES ASSUME NEW h \in Getters, getter'[h].pc = "store"
               PROVE  /\ getter'[h].conn \in DOMAIN made'
                      /\ made'[getter'[h].conn].open
                      /\ made'[getter'[h].conn].node = getter'[h].node
                      /\ conns'[getter'[h].node] # getter'[h].conn
                      /\ \A k \in Getters :
                           getter'[k].pc = "store" /\ getter'[k].conn = getter'[h].conn => k = h
    BY DEF DialOwned
  <2>3. CASE h = g
    BY <1>1, <1>2, <1>3, <1>5, <2>1, <2>2, <2>3
  <2>4. CASE h # g
    <3>1. getter'[h] = getter[h] /\ getter[h].pc = "store"
      BY <1>5, <2>4
    <3>2. /\ getter[h].conn \in DOMAIN made /\ getter[h].conn # i
          /\ made'[getter[h].conn] = made[getter[h].conn]
      BY <1>3, <2>2, <3>1 DEF DialOwned
    <3>3. \A k \in Getters :
            getter'[k].pc = "store" /\ getter'[k].conn = getter[h].conn => k = h
      BY <1>2, <1>5, <3>1, <3>2 DEF DialOwned
    <3> QED
      BY <1>1, <1>3, <3>1, <3>2, <3>3 DEF DialOwned
  <2> QED
    BY <2>3, <2>4
<1>10. ConnCurrent'
  <2>1. \A m \in Nodes : conns[m] # None => made'[conns[m]] = made[conns[m]]
    BY <1>3 DEF MapHoldsOpen
  <2>2. \A h \in Getters : getter[h].pc = "store" => made'[getter[h].conn] = made[getter[h].conn]
    BY <1>3 DEF DialOwned
  <2>3. n \notin overtaken => a = addresses[n]
    BY <1>1 DEF ConnCurrent, n, a
  <2>4. \A m \in Nodes \ overtaken : conns[m] # None => made'[conns[m]].address = addresses[m]
    BY <2>1 DEF ConnCurrent
  <2>5. ASSUME NEW h \in Getters, getter'[h].node \notin overtaken
        PROVE  /\ getter'[h].pc = "dial" => getter'[h].address = addresses[getter'[h].node]
               /\ getter'[h].pc = "store" =>
                    made'[getter'[h].conn].address = addresses[getter'[h].node]
    <3>1. CASE h = g
      BY <1>2, <1>3, <1>5, <2>3, <2>5, <3>1
    <3>2. CASE h # g
      BY <1>5, <2>2, <2>5, <3>2 DEF ConnCurrent
    <3> QED
      BY <3>1, <3>2
  <2> QED
    BY <1>1, <2>4, <2>5 DEF ConnCurrent
<1>11. ClientsUsable'
  BY <1>1, <1>2, <1>5 DEF ClientsUsable
<1> QED
  BY <1>6, <1>7, <1>8, <1>9, <1>10, <1>11

\* The getter's own connection goes into the map, or is closed.
LEMMA StoreConnStep ==
    ASSUME ConnInvariant, NEW g \in Getters, StoreConn(g)
    PROVE  ConnInvariant'
<1> DEFINE n == getter[g].node
           i == getter[g].conn
<1> USE DEF ConnInvariant, told, past
<1>1. /\ getter[g].pc = "store" /\ n \in Nodes /\ getter[g].owner \in Owners /\ i \in Conns
      /\ getter[g] = [pc |-> "store", owner |-> getter[g].owner, node |-> n, conn |-> i]
      /\ UNCHANGED <<addresses, clients, changer, told, past>>
  BY Records DEF StoreConn
<1>2. i \in DOMAIN made /\ made[i].open /\ made[i].node = n /\ conns[n] # i /\ i # None
  BY <1>1, MadeType DEF DialOwned
<1>3. \A h \in Getters : getter[h].pc = "store" /\ getter[h].conn = i => h = g
  BY <1>1 DEF DialOwned
<1>4. CASE conns[n] # None
  <2> DEFINE r == [pc |-> "client", owner |-> getter[g].owner, node |-> n, conn |-> conns[n]]
  <2>2. made' = Closed({i}) /\ Goes(g, r) /\ conns' = conns
    BY <1>4 DEF StoreConn
  <2>3. r.pc = "client" /\ r.node = n /\ r.conn = conns[n]
    OBVIOUS
  <2>4. r \in GetterStates
    BY <1>1, <1>4 DEF GetterStates, TypeOK
  <2> HIDE DEF n, i, r
  <2>5. /\ getter'[g] = r
        /\ \A h \in Getters \ {g} : getter'[h] = getter[h]
        /\ getter' \in [Getters -> GetterStates]
    BY <2>2, <2>4, GoesTo
  <2>6. /\ made' \in Seq(MadeConns) /\ Len(made') = Len(made) /\ DOMAIN made' = DOMAIN made
        /\ \A j \in DOMAIN made :
             /\ made'[j].node = made[j].node /\ made'[j].address = made[j].address
             /\ made'[j].open <=> made[j].open /\ j # i
    BY <2>2, ClosedMade
  <2>7. TypeOK' /\ OneChanger'
    BY <1>1, <2>2, <2>5, <2>6 DEF TypeOK, OneChanger, Holds, MadeConns
  <2>8. \A m \in Nodes : conns[m] # None =>
          conns[m] \in DOMAIN made /\ conns[m] # i /\ made[conns[m]].open /\ made[conns[m]].node = m
    BY <1>2 DEF MapHoldsOpen
  <2>9. MapHoldsOpen'
    BY <2>2, <2>6, <2>8 DEF MapHoldsOpen
  <2>10. NoConnLeaked'
    <3> SUFFICES ASSUME NEW j \in DOMAIN made', made'[j].open
                 PROVE  \/ conns'[made'[j].node] = j
                        \/ \E h \in Getters : getter'[h].pc = "store" /\ getter'[h].conn = j
      BY DEF NoConnLeaked
    <3>1. j \in DOMAIN made /\ made[j].open /\ j # i /\ made'[j].node = made[j].node
      BY <2>6
    <3>2. CASE conns[made[j].node] = j
      BY <2>2, <3>1, <3>2
    <3>3. ASSUME NEW h \in Getters, getter[h].pc = "store", getter[h].conn = j
          PROVE  getter'[h].pc = "store" /\ getter'[h].conn = j
      <4>1. h # g
        BY <3>1, <3>3 DEF i
      <4> QED
        BY <2>5, <3>3, <4>1
    <3> QED
      BY <3>1, <3>2, <3>3 DEF NoConnLeaked
  <2>11. DialOwned'
    <3> SUFFICES ASSUME NEW h \in Getters, getter'[h].pc = "store"
                 PROVE  /\ getter'[h].conn \in DOMAIN made'
                        /\ made'[getter'[h].conn].open
                        /\ made'[getter'[h].conn].node = getter'[h].node
                        /\ conns'[getter'[h].node] # getter'[h].conn
                        /\ \A k \in Getters :
                             getter'[k].pc = "store" /\ getter'[k].conn = getter'[h].conn => k = h
      BY DEF DialOwned
    <3>1. h # g /\ getter'[h] = getter[h] /\ getter[h].pc = "store"
      BY <2>3, <2>5
    <3>2. getter[h].conn # i
      BY <1>3, <3>1
    <3>3. \A k \in Getters :
            getter'[k].pc = "store" => k # g /\ getter'[k] = getter[k]
      BY <2>3, <2>5
    <3>4. /\ getter[h].conn \in DOMAIN made
          /\ made[getter[h].conn].open
          /\ made[getter[h].conn].node = getter[h].node
          /\ conns[getter[h].node] # getter[h].conn
          /\ \A k \in Getters :
               getter[k].pc = "store" /\ getter[k].conn = getter[h].conn => k = h
      BY <3>1 DEF DialOwned
    <3> QED
      BY <2>2, <2>6, <3>1, <3>2, <3>3, <3>4
  <2>12. ConnCurrent'
    <3>1. \A m \in Nodes : conns[m] # None => made'[conns[m]].address = made[conns[m]].address
      BY <2>6, <2>8
    <3>2. \A h \in Getters : getter[h].pc = "store" =>
            made'[getter[h].conn].address = made[getter[h].conn].address
      BY <2>6 DEF DialOwned
    <3>3. \A m \in Nodes \ overtaken : conns[m] # None => made'[conns[m]].address = addresses[m]
      BY <3>1 DEF ConnCurrent
    <3>4. ASSUME NEW h \in Getters, getter'[h].node \notin overtaken
          PROVE  /\ getter'[h].pc = "dial" => getter'[h].address = addresses[getter'[h].node]
                 /\ getter'[h].pc = "store" =>
                      made'[getter'[h].conn].address = addresses[getter'[h].node]
      <4>1. CASE h = g
        BY <2>3, <2>5, <4>1
      <4>2. CASE h # g
        BY <2>5, <3>2, <3>4, <4>2 DEF ConnCurrent
      <4> QED
        BY <4>1, <4>2
    <3> QED
      BY <1>1, <2>2, <3>3, <3>4 DEF ConnCurrent
  <2>13. ClientsUsable'
    BY <1>1, <2>2, <2>3, <2>5 DEF ClientsUsable
  <2> QED
    BY <2>7, <2>9, <2>10, <2>11, <2>12, <2>13
<1>5. CASE conns[n] = None
  <2> DEFINE r == [pc |-> "client", owner |-> getter[g].owner, node |-> n, conn |-> i]
  <2>1. [getter[g] EXCEPT !.pc = "client"] = r
    BY <1>1
  <2>2. conns' = [conns EXCEPT ![n] = i] /\ Goes(g, r) /\ made' = made
    BY <1>5, <2>1 DEF StoreConn
  <2>3. r.pc = "client" /\ r.node = n /\ r.conn = i
    OBVIOUS
  <2>4. r \in GetterStates
    BY <1>1 DEF GetterStates
  <2>5. \A m \in Nodes : conns'[m] = IF m = n THEN i ELSE conns[m]
    BY <1>1, <2>2 DEF TypeOK
  <2>6. n \notin overtaken => made[i].address = addresses[n]
    BY <1>1 DEF ConnCurrent
  <2>7. conns' \in [Nodes -> Conns \cup {None}]
    BY <1>1, <2>2 DEF TypeOK
  <2>8. n \in Nodes
    BY <1>1
  <2> HIDE DEF n, i, r
  <2>9. /\ getter'[g] = r
        /\ \A h \in Getters \ {g} : getter'[h] = getter[h]
        /\ getter' \in [Getters -> GetterStates]
    BY <2>2, <2>4, GoesTo
  <2>10. TypeOK' /\ OneChanger'
    BY <1>1, <2>2, <2>7, <2>9 DEF TypeOK, OneChanger, Holds
  <2>11. MapHoldsOpen'
    BY <1>2, <2>2, <2>5 DEF MapHoldsOpen
  <2>12. NoConnLeaked'
    <3> SUFFICES ASSUME NEW j \in DOMAIN made, made[j].open
                 PROVE  \/ conns'[made[j].node] = j
                        \/ \E h \in Getters : getter'[h].pc = "store" /\ getter'[h].conn = j
      BY <2>2 DEF NoConnLeaked
    <3>1. j # None /\ made[j].node \in Nodes
      BY MadeType
    <3>2. CASE j = i
      BY <1>2, <2>5, <2>8, <3>2
    <3>3. CASE conns[made[j].node] = j
      BY <1>5, <2>5, <3>1, <3>3 DEF n
    <3>4. ASSUME NEW h \in Getters, getter[h].pc = "store", getter[h].conn = j, j # i
          PROVE  getter'[h].pc = "store" /\ getter'[h].conn = j
      <4>1. h # g
        BY <3>4 DEF i
      <4> QED
        BY <2>9, <3>4, <4>1
    <3> QED
      BY <3>2, <3>3, <3>4 DEF NoConnLeaked
  <2>13. DialOwned'
    <3> SUFFICES ASSUME NEW h \in Getters, getter'[h].pc = "store"
                 PROVE  /\ getter'[h].conn \in DOMAIN made
                        /\ made[getter'[h].conn].open
                        /\ made[getter'[h].conn].node = getter'[h].node
                        /\ conns'[getter'[h].node] # getter'[h].conn
                        /\ \A k \in Getters :
                             getter'[k].pc = "store" /\ getter'[k].conn = getter'[h].conn => k = h
      BY <2>2 DEF DialOwned
    <3>1. h # g /\ getter'[h] = getter[h] /\ getter[h].pc = "store"
      BY <2>3, <2>9
    <3>2. getter[h].conn # i /\ getter[h].node \in Nodes
      BY <1>3, <3>1, Records
    <3>3. \A k \in Getters : getter'[k].pc = "store" => k # g /\ getter'[k] = getter[k]
      BY <2>3, <2>9
    <3>4. /\ getter[h].conn \in DOMAIN made
          /\ made[getter[h].conn].open
          /\ made[getter[h].conn].node = getter[h].node
          /\ conns[getter[h].node] # getter[h].conn
          /\ \A k \in Getters :
               getter[k].pc = "store" /\ getter[k].conn = getter[h].conn => k = h
      BY <3>1 DEF DialOwned
    <3> QED
      BY <2>5, <3>1, <3>2, <3>3, <3>4
  <2>14. ConnCurrent'
    <3>1. \A m \in Nodes \ overtaken : conns'[m] # None => made[conns'[m]].address = addresses[m]
      BY <2>5, <2>6 DEF ConnCurrent
    <3> QED
      BY <1>1, <2>2, <2>3, <2>9, <3>1 DEF ConnCurrent
  <2>15. ClientsUsable'
    <3>1. \A o \in Owners : n \notin removed => clients[o][n] = None
      BY <1>5, <2>8 DEF ClientsUsable, n
    <3>2. \A h \in Getters : getter[h].pc = "client" /\ getter[h].node = n => n \in removed
      <4> SUFFICES ASSUME NEW h \in Getters, getter[h].pc = "client", getter[h].node = n,
                          n \notin removed
                   PROVE  FALSE
        OBVIOUS
      <4>1. getter[h].conn = None
        BY <1>5 DEF ClientsUsable, n
      <4>2. getter[h].conn \in Conns
        BY Records
      <4> QED
        BY <4>1, <4>2, ConnAssumption DEF Conns
    <3>3. \A o \in Owners, m \in Nodes \ removed : clients[o][m] # None => clients[o][m] = conns'[m]
      BY <2>5, <3>1 DEF ClientsUsable
    <3>4. \A h \in Getters :
            getter'[h].pc = "client" /\ getter'[h].node \notin removed
              => getter'[h].conn = conns'[getter'[h].node]
      <4> SUFFICES ASSUME NEW h \in Getters, getter'[h].pc = "client",
                          getter'[h].node \notin removed
                   PROVE  getter'[h].conn = conns'[getter'[h].node]
        OBVIOUS
      <4>1. CASE h = g
        BY <2>3, <2>5, <2>8, <2>9, <4>1
      <4>2. CASE h # g
        <5>1. getter'[h] = getter[h]
          BY <2>9, <4>2
        <5>2. getter[h].node \in Nodes /\ getter[h].node # n
          BY <3>2, <5>1, Records
        <5> QED
          BY <2>5, <5>1, <5>2 DEF ClientsUsable
      <4> QED
        BY <4>1, <4>2
    <3> QED
      BY <1>1, <3>3, <3>4 DEF ClientsUsable
  <2> QED
    BY <2>10, <2>11, <2>12, <2>13, <2>14, <2>15
<1> QED
  BY <1>4, <1>5

LEMMA StoreClientStep ==
    ASSUME ConnInvariant, NEW g \in Getters, StoreClient(g)
    PROVE  ConnInvariant'
<1> USE DEF ConnInvariant, told, past
<1>1. /\ getter[g].pc = "client" /\ getter[g].node \in Nodes /\ getter[g].owner \in Owners
      /\ getter[g].conn \in Conns
      /\ UNCHANGED <<addresses, conns, made, changer, told, past>>
      /\ clients' = [clients EXCEPT ![getter[g].owner][getter[g].node] = getter[g].conn]
      /\ Goes(g, Idle)
  BY Records DEF StoreClient, Returns
<1>2. Idle.pc = "idle" /\ Idle \in GetterStates
  BY DEF Idle, GetterStates
<1>3. /\ getter'[g] = Idle
      /\ \A h \in Getters \ {g} : getter'[h] = getter[h]
      /\ getter' \in [Getters -> GetterStates]
  BY <1>1, <1>2, GoesTo
<1>4. clients' \in [Owners -> [Nodes -> Conns \cup {None}]]
  BY <1>1 DEF TypeOK
<1>5. \A o \in Owners, n \in Nodes :
        clients'[o][n] = IF o = getter[g].owner /\ n = getter[g].node
                         THEN getter[g].conn ELSE clients[o][n]
  BY <1>1 DEF TypeOK
<1>6. TypeOK' /\ OneChanger' /\ MapHoldsOpen'
  BY <1>1, <1>3, <1>4 DEF TypeOK, OneChanger, Holds, MapHoldsOpen
<1>7. NoConnLeaked'
  BY <1>1, <1>3 DEF NoConnLeaked
<1>8. DialOwned'
  BY <1>1, <1>2, <1>3 DEF DialOwned
<1>9. ConnCurrent'
  BY <1>1, <1>2, <1>3 DEF ConnCurrent
<1>10. ClientsUsable'
  BY <1>1, <1>2, <1>3, <1>5 DEF ClientsUsable
<1> QED
  BY <1>6, <1>7, <1>8, <1>9, <1>10

-----------------------------------------------------------------------------
\* The notifications and the end of a change are about the changer and the channels alone.
LEMMA ChangerStepKeeps ==
    ASSUME ConnInvariant, NEW c \in Changers, ChangerStep(c)
    PROVE  ConnInvariant'
<1> USE DEF ConnInvariant, told, past
<1>1. /\ UNCHANGED <<addresses, conns, made, clients, getter, view, asking, removed, overtaken>>
      /\ Holds(c)
  BY DEF ChangerStep, Notify, EndChange
<1>2. /\ changer' \in [Changers -> ChangerStates] /\ channel' \in [Subscribers -> Seq(Notes)]
      /\ \A s \in Subscribers : Len(channel'[s]) <= Places
      /\ \A d \in Changers : Holds(d)' => Holds(d)
  <2>1. CASE Notify(c)
    <3>1. PICK s \in changer[c].left :
            /\ Len(channel[s]) < Places
            /\ channel' = [channel EXCEPT ![s] =
                             Append(@, [type |-> changer[c].type, node |-> changer[c].node])]
            /\ changer' = [changer EXCEPT ![c].left = @ \ {s}]
      BY <2>1 DEF Notify
    <3>2. /\ changer[c].type \in {"add", "remove"} /\ changer[c].node \in Nodes
          /\ changer[c].left \subseteq Subscribers /\ s \in Subscribers
          /\ changer[c] = [pc |-> "sending", type |-> changer[c].type,
                           node |-> changer[c].node, left |-> changer[c].left]
      BY <1>1, <3>1, Records
    <3>3. [changer[c] EXCEPT !.left = @ \ {s}]
            = [pc |-> "sending", type |-> changer[c].type,
               node |-> changer[c].node, left |-> changer[c].left \ {s}]
      BY <3>2
    <3>4. [changer[c] EXCEPT !.left = @ \ {s}] \in ChangerStates
      BY <3>2, <3>3 DEF ChangerStates
    <3>5. changer' = [changer EXCEPT ![c] = [changer[c] EXCEPT !.left = @ \ {s}]]
      BY <3>1
    <3>6. changer' \in [Changers -> ChangerStates]
          /\ \A d \in Changers : Holds(d)' => Holds(d)
      BY <1>1, <3>4, <3>5 DEF TypeOK, Holds
    <3>7. channel[s] \in Seq(Notes) /\ [type |-> changer[c].type, node |-> changer[c].node] \in Notes
      BY <3>2 DEF TypeOK, Notes
    <3> DEFINE queue == Append(channel[s], [type |-> changer[c].type, node |-> changer[c].node])
    <3>8. queue \in Seq(Notes) /\ Len(queue) = Len(channel[s]) + 1
      BY <3>7
    <3>9. channel' = [channel EXCEPT ![s] = queue]
      BY <3>1
    <3> HIDE DEF queue
    <3>10. Len(queue) <= Places
      <4>1. Len(channel[s]) \in Nat /\ Places \in Nat
        BY <3>7, ConnAssumption
      <4> QED
        BY <3>1, <3>8, <4>1
    <3> QED
      BY <3>2, <3>6, <3>8, <3>9, <3>10 DEF TypeOK
  <2>2. CASE EndChange(c)
    <3>1. channel' = channel /\ changer' = [changer EXCEPT ![c] = Idle]
      BY <2>2 DEF EndChange
    <3>2. Idle \in ChangerStates /\ Idle.pc = "idle"
      BY DEF Idle, ChangerStates
    <3> QED
      BY <1>1, <3>1, <3>2 DEF TypeOK, Holds
  <2> QED
    BY <2>1, <2>2 DEF ChangerStep
<1>3. TypeOK'
  BY <1>1, <1>2 DEF TypeOK
<1>4. OneChanger'
  BY <1>2 DEF OneChanger
<1>5. NoConnLeaked' /\ MapHoldsOpen' /\ DialOwned' /\ ConnCurrent' /\ ClientsUsable'
  BY <1>1 DEF NoConnLeaked, MapHoldsOpen, DialOwned, ConnCurrent, ClientsUsable
<1> QED
  BY <1>3, <1>4, <1>5

LEMMA SubscriberStepKeeps ==
    ASSUME ConnInvariant, NEW s \in Subscribers, SubscriberStep(s)
    PROVE  ConnInvariant'
<1> USE DEF ConnInvariant, told, past
<1>1. UNCHANGED <<addresses, conns, made, clients, changer, getter, removed, overtaken>>
  BY DEF SubscriberStep, Receive, NodeIds
<1>2. /\ channel' \in [Subscribers -> Seq(Notes)] /\ view' \in [Subscribers -> SUBSET Nodes]
      /\ asking' \subseteq Subscribers /\ \A t \in Subscribers : Len(channel'[t]) <= Places
  <2>1. CASE Receive(s)
    <3>1. channel[s] \in Seq(Notes) /\ channel[s] # <<>> /\ channel' = [channel EXCEPT ![s] = Tail(@)]
          /\ view' = [view EXCEPT ![s] = Told(@, Head(channel[s]))]
          /\ asking' \in {asking, asking \cup {s}}
      BY <2>1 DEF Receive, TypeOK
    <3>2. Tail(channel[s]) \in Seq(Notes) /\ Len(Tail(channel[s])) = Len(channel[s]) - 1
          /\ Head(channel[s]) \in Notes /\ Len(channel[s]) \in Nat
      BY <3>1
    <3>3. Told(view[s], Head(channel[s])) \in SUBSET Nodes
      BY <3>2 DEF Told, Notes, TypeOK
    <3>4. Len(Tail(channel[s])) <= Places
      <4>1. Len(channel[s]) <= Places /\ Places \in Nat
        BY ConnAssumption DEF TypeOK
      <4> QED
        BY <3>2, <4>1
    <3>5. view' = [view EXCEPT ![s] = Told(view[s], Head(channel[s]))]
      BY <3>1
    <3> QED
      BY <3>1, <3>2, <3>3, <3>4, <3>5 DEF TypeOK
  <2>2. CASE NodeIds(s)
    BY <2>2 DEF NodeIds, TypeOK
  <2> QED
    BY <2>1, <2>2 DEF SubscriberStep
<1>3. TypeOK' /\ OneChanger'
  BY <1>1, <1>2 DEF TypeOK, OneChanger, Holds
<1>4. NoConnLeaked' /\ MapHoldsOpen' /\ DialOwned' /\ ConnCurrent' /\ ClientsUsable'
  BY <1>1 DEF NoConnLeaked, MapHoldsOpen, DialOwned, ConnCurrent, ClientsUsable
<1> QED
  BY <1>3, <1>4

-----------------------------------------------------------------------------
(***************************************************************************)
(* Whatever goroutines add, remove and dial nodes at once (AddNode,        *)
(* RemoveNode, Dial and the three getters of clients): one of them changes *)
(* the members at a time, a connection that is open is in the map or about *)
(* to be put there, the map holds one open connection of each node, which  *)
(* leads to the address of now unless a removal overtook a Dial, and an    *)
(* owner's client is of that connection until its node is removed.         *)
(***************************************************************************)
THEOREM ConnCorrect == Spec => []ConnInvariant
<1>1. Init => ConnInvariant
  <2> SUFFICES ASSUME Init PROVE ConnInvariant
    OBVIOUS
  <2>1. TypeOK
    BY ConnAssumption DEF Init, TypeOK, ChangerStates, GetterStates
  <2>2. \A g \in Getters : getter[g].pc = "idle"
    BY DEF Init, Idle
  <2>3. \A c \in Changers : ~Holds(c)
    BY DEF Init, Idle, Holds
  <2>4. DOMAIN made = {}
    BY DEF Init
  <2> QED
    BY <2>1, <2>2, <2>3, <2>4 DEF Init, ConnInvariant, OneChanger, NoConnLeaked, MapHoldsOpen,
       DialOwned, ConnCurrent, ClientsUsable
<1>2. ConnInvariant /\ [Next]_vars => ConnInvariant'
  <2> SUFFICES ASSUME ConnInvariant, [Next]_vars PROVE ConnInvariant'
    OBVIOUS
  <2>1. ASSUME NEW c \in Changers, NEW n \in Nodes, RemoveNode(c, n) PROVE ConnInvariant'
    BY <2>1, RemoveNodeStep
  <2>2. ASSUME NEW c \in Changers, NEW n \in Nodes, NEW a \in Addresses, AddNode(c, n, a)
        PROVE  ConnInvariant'
    BY <2>2, AddNodeStep
  <2>3. ASSUME NEW c \in Changers, ChangerStep(c) PROVE ConnInvariant'
    BY <2>3, ChangerStepKeeps
  <2>4. ASSUME NEW s \in Subscribers, SubscriberStep(s) PROVE ConnInvariant'
    BY <2>4, SubscriberStepKeeps
  <2>5. ASSUME NEW g \in Getters, NEW o \in Owners, NEW n \in Nodes, GetClient(g, o, n)
        PROVE  ConnInvariant'
    BY <2>5, GetClientStep
  <2>6. ASSUME NEW g \in Getters, GetterStep(g) PROVE ConnInvariant'
    BY <2>6, GetCachedConnStep, GetAddressStep, GrpcDialStep, StoreConnStep, StoreClientStep
       DEF GetterStep
  <2>7. CASE UNCHANGED vars
    BY <2>7 DEF vars, told, past, ConnInvariant, TypeOK, OneChanger, Holds, NoConnLeaked,
       MapHoldsOpen, DialOwned, ConnCurrent, ClientsUsable
  <2> QED
    BY <2>1, <2>2, <2>3, <2>4, <2>5, <2>6, <2>7 DEF Next
<1> QED
  BY <1>1, <1>2, PTL DEF Spec
-----------------------------------------------------------------------------
(* What a subscriber knows once it has received a sequence of notifications. *)

LessThan == {r \in Nat \X Nat : r[1] < r[2]}

\* Induction, for a set of naturals.
LEMMA NatInduct ==
    ASSUME NEW S, 0 \in S, \A n \in Nat : n \in S => n + 1 \in S
    PROVE  Nat \subseteq S
<1> DEFINE T == Nat \ S
<1> SUFFICES ASSUME T # {} PROVE FALSE
  OBVIOUS
<1>1. LessThan = OpToRel(<, Nat)
  BY DEF LessThan, OpToRel
<1>2. PICK x \in T : \A y \in T : <<y, x>> \notin LessThan
  BY <1>1, NatLessThanWellFounded, WFMin
<1>3. x # 0 /\ x - 1 \in Nat /\ x - 1 \in T
  BY <1>2
<1>4. <<x - 1, x>> \in LessThan
  <2>1. <<x - 1, x>> \in Nat \X Nat /\ <<x - 1, x>>[1] < <<x - 1, x>>[2]
    BY <1>3
  <2> QED
    BY <2>1 DEF LessThan
<1> QED
  BY <1>2, <1>3, <1>4

Views(v, q) ==
    LET known[i \in 0..Len(q)] == IF i = 0 THEN v ELSE Told(known[i - 1], q[i])
    IN  known

AfterAll(v, q) == Views(v, q)[Len(q)]

LEMMA ViewsAre ==
    ASSUME NEW v, NEW q, Len(q) \in Nat
    PROVE  \A k \in 0..Len(q) :
              Views(v, q)[k] = IF k = 0 THEN v ELSE Told(Views(v, q)[k - 1], q[k])
<1> DEFINE Def(f, m) == f = [i \in 0..m |-> IF i = 0 THEN v ELSE Told(f[i - 1], q[i])]
           S == {m \in Nat : \E f : Def(f, m)}
<1>1. 0 \in S
  <2>1. Def([i \in 0..0 |-> v], 0)
    OBVIOUS
  <2> QED
    BY <2>1
<1>2. ASSUME NEW m \in Nat, m \in S PROVE m + 1 \in S
  <2>1. PICK f : Def(f, m)
    BY <1>2
  <2> DEFINE h == [i \in 0..m + 1 |-> IF i = m + 1 THEN Told(f[m], q[m + 1]) ELSE f[i]]
  <2>2. ASSUME NEW i \in 0..m + 1
        PROVE  h[i] = IF i = 0 THEN v ELSE Told(h[i - 1], q[i])
    <3>1. CASE i = m + 1
      <4>1. h[i] = Told(f[m], q[i]) /\ i - 1 = m /\ h[m] = f[m] /\ i # 0
        BY <3>1
      <4> QED
        BY <4>1
    <3>2. CASE i # m + 1
      <4>1. i \in 0..m /\ h[i] = f[i]
        BY <3>2
      <4>2. i # 0 => h[i - 1] = f[i - 1]
        BY <3>2
      <4>3. f[i] = IF i = 0 THEN v ELSE Told(f[i - 1], q[i])
        BY <2>1, <4>1
      <4> HIDE DEF h
      <4> QED
        BY <4>1, <4>2, <4>3
    <3> QED
      BY <3>1, <3>2
  <2>3. Def(h, m + 1)
    <3>1. h = [i \in 0..m + 1 |-> h[i]]
      OBVIOUS
    <3> HIDE DEF h
    <3> QED
      BY <2>2, <3>1
  <2>4. \E f2 : Def(f2, m + 1)
    <3> HIDE DEF h, Def
    <3> QED
      BY <2>3
  <2> HIDE DEF Def
  <2> QED
    BY <2>4
<1>3. Nat \subseteq S
  <2> HIDE DEF S
  <2> QED
    BY <1>1, <1>2, NatInduct
<1>4. \E f : Def(f, Len(q))
  BY <1>3
<1> DEFINE chosen == CHOOSE f : Def(f, Len(q))
<1>5. Def(chosen, Len(q))
  <2> HIDE DEF Def
  <2> QED
    BY <1>4
<1>6. Views(v, q) = chosen
  BY DEF Views
<1> HIDE DEF chosen
<1> QED
  BY <1>5, <1>6

\* Nothing received, nothing learned.
LEMMA AfterNone == ASSUME NEW v, NEW q, Len(q) = 0 PROVE AfterAll(v, q) = v
<1>1. Len(q) \in Nat /\ 0 \in 0..Len(q)
  OBVIOUS
<1>2. Views(v, q)[0] = v
  BY <1>1, ViewsAre
<1> QED
  BY <1>2 DEF AfterAll

\* A notification that comes last takes effect last.
LEMMA AfterLast ==
    ASSUME NEW v, NEW q \in Seq(Notes), NEW note \in Notes
    PROVE  AfterAll(v, Append(q, note)) = Told(AfterAll(v, q), note)
<1>1. PICK t : t = Append(q, note)
  OBVIOUS
<1>2. /\ Len(q) \in Nat /\ Len(t) = Len(q) + 1 /\ Len(t) \in Nat /\ t[Len(q) + 1] = note
      /\ \A i \in 1..Len(q) : t[i] = q[i]
  BY <1>1
<1> DEFINE S == {m \in Nat : m <= Len(q) => Views(v, t)[m] = Views(v, q)[m]}
<1>3. 0 \in S
  <2>1. 0 \in 0..Len(q) /\ 0 \in 0..Len(t)
    BY <1>2
  <2>2. Views(v, q)[0] = v /\ Views(v, t)[0] = v
    BY <1>2, <2>1, ViewsAre
  <2> QED
    BY <2>2
<1>4. ASSUME NEW m \in Nat, m \in S PROVE m + 1 \in S
  <2> SUFFICES ASSUME m + 1 <= Len(q) PROVE Views(v, t)[m + 1] = Views(v, q)[m + 1]
    OBVIOUS
  <2>1. /\ m + 1 \in 0..Len(q) /\ m + 1 \in 0..Len(t) /\ m + 1 \in 1..Len(q)
        /\ m + 1 # 0 /\ m + 1 - 1 = m /\ m <= Len(q)
    BY <1>2
  <2>2. Views(v, q)[m + 1] = Told(Views(v, q)[m + 1 - 1], q[m + 1])
    BY <1>2, <2>1, ViewsAre
  <2>3. Views(v, t)[m + 1] = Told(Views(v, t)[m + 1 - 1], t[m + 1])
    BY <1>2, <2>1, ViewsAre
  <2>4. Views(v, t)[m] = Views(v, q)[m] /\ t[m + 1] = q[m + 1]
    BY <1>2, <1>4, <2>1
  <2> QED
    BY <2>1, <2>2, <2>3, <2>4
<1>5. Nat \subseteq S
  <2> HIDE DEF S
  <2> QED
    BY <1>3, <1>4, NatInduct
<1>6. Views(v, t)[Len(q)] = Views(v, q)[Len(q)]
  BY <1>2, <1>5
<1>7. Len(q) + 1 \in 0..Len(t) /\ Len(q) + 1 # 0 /\ Len(q) + 1 - 1 = Len(q)
  BY <1>2
<1>8. Views(v, t)[Len(q) + 1] = Told(Views(v, t)[Len(q) + 1 - 1], t[Len(q) + 1])
  BY <1>2, <1>7, ViewsAre
<1>9. AfterAll(v, t) = Told(Views(v, q)[Len(q)], note)
  BY <1>2, <1>6, <1>7, <1>8 DEF AfterAll
<1> QED
  BY <1>1, <1>9 DEF AfterAll

\* Whoever has received the first notification has the others before it.
LEMMA AfterFirst ==
    ASSUME NEW v, NEW q \in Seq(Notes), q # <<>>
    PROVE  AfterAll(Told(v, Head(q)), Tail(q)) = AfterAll(v, q)
<1>1. PICK t : t = Tail(q)
  OBVIOUS
<1>2. PICK w : w = Told(v, Head(q))
  OBVIOUS
<1>3. /\ Len(q) \in Nat /\ Len(q) > 0 /\ Len(t) = Len(q) - 1 /\ Len(t) \in Nat /\ Head(q) = q[1]
      /\ \A i \in 1..Len(t) : t[i] = q[i + 1]
  BY <1>1
<1> DEFINE S == {m \in Nat : m <= Len(t) => Views(w, t)[m] = Views(v, q)[m + 1]}
<1>4. 0 \in S
  <2>1. 0 \in 0..Len(q) /\ 0 \in 0..Len(t) /\ 1 \in 0..Len(q) /\ 1 - 1 = 0 /\ 1 # 0 /\ 0 + 1 = 1
    BY <1>3
  <2>2. Views(w, t)[0] = w
    BY <1>3, <2>1, ViewsAre
  <2>3. Views(v, q)[0] = v
    BY <1>3, <2>1, ViewsAre
  <2>4. Views(v, q)[1] = Told(Views(v, q)[1 - 1], q[1])
    BY <1>3, <2>1, ViewsAre
  <2>5. Views(w, t)[0] = Views(v, q)[0 + 1]
    BY <1>2, <1>3, <2>1, <2>2, <2>3, <2>4
  <2> QED
    BY <2>5
<1>5. ASSUME NEW m \in Nat, m \in S PROVE m + 1 \in S
  <2> SUFFICES ASSUME m + 1 <= Len(t) PROVE Views(w, t)[m + 1] = Views(v, q)[m + 1 + 1]
    OBVIOUS
  <2>1. /\ m + 1 \in 0..Len(t) /\ m + 1 + 1 \in 0..Len(q) /\ m + 1 \in 1..Len(t)
        /\ m + 1 # 0 /\ m + 1 + 1 # 0 /\ m + 1 - 1 = m /\ m + 1 + 1 - 1 = m + 1 /\ m <= Len(t)
    BY <1>3
  <2>2. Views(v, q)[m + 1 + 1] = Told(Views(v, q)[m + 1 + 1 - 1], q[m + 1 + 1])
    BY <1>3, <2>1, ViewsAre
  <2>3. Views(w, t)[m + 1] = Told(Views(w, t)[m + 1 - 1], t[m + 1])
    BY <1>3, <2>1, ViewsAre
  <2>4. Views(w, t)[m] = Views(v, q)[m + 1] /\ t[m + 1] = q[m + 1 + 1]
    BY <1>3, <1>5, <2>1
  <2> QED
    BY <2>1, <2>2, <2>3, <2>4
<1>6. Nat \subseteq S
  <2> HIDE DEF S
  <2> QED
    BY <1>4, <1>5, NatInduct
<1>7. Views(w, t)[Len(t)] = Views(v, q)[Len(t) + 1] /\ Len(t) + 1 = Len(q)
  BY <1>3, <1>6
<1>8. AfterAll(w, t) = AfterAll(v, q)
  BY <1>7 DEF AfterAll
<1> QED
  BY <1>1, <1>2, <1>8

-----------------------------------------------------------------------------
(* What is on its way to a subscriber, and what it will know.              *)

NoteOf(r) == [type |-> r.type, node |-> r.node]

PendingOf(chg, q, s) ==
    LET sending == {c \in Changers : chg[c].pc = "sending" /\ s \in chg[c].left}
    IN  IF sending = {} THEN q
        ELSE LET c == CHOOSE c \in sending : TRUE
             IN  Append(q, [type |-> chg[c].type, node |-> chg[c].node])

LEMMA PendingNone ==
    ASSUME NEW chg, NEW q, NEW s, \A c \in Changers : ~(chg[c].pc = "sending" /\ s \in chg[c].left)
    PROVE  PendingOf(chg, q, s) = q
BY DEF PendingOf

LEMMA PendingOne ==
    ASSUME NEW chg, NEW q, NEW s, NEW c \in Changers, chg[c].pc = "sending", s \in chg[c].left,
           \A d \in Changers : chg[d].pc = "sending" => d = c
    PROVE  PendingOf(chg, q, s) = Append(q, NoteOf(chg[c]))
<1> DEFINE sending == {d \in Changers : chg[d].pc = "sending" /\ s \in chg[d].left}
<1>1. sending = {c}
  OBVIOUS
<1>2. (CHOOSE d \in sending : TRUE) = c
  BY <1>1
<1>3. sending # {}
  BY <1>1
<1>4. PendingOf(chg, q, s)
        = Append(q, [type |-> chg[CHOOSE d \in sending : TRUE].type,
                     node |-> chg[CHOOSE d \in sending : TRUE].node])
  BY <1>3 DEF PendingOf
<1> HIDE DEF sending
<1> QED
  BY <1>2, <1>4 DEF NoteOf

Members == {n \in Nodes : addresses[n] # None}

LEMMA KnownIs ==
    /\ \A s : Known(s) = AfterAll(view[s], PendingOf(changer, channel[s], s))
    /\ \A s : Known(s)' = AfterAll(view'[s], PendingOf(changer', channel'[s], s))
<1>1. /\ \A s : Pending(s) = PendingOf(changer, channel[s], s)
      /\ \A s : Pending(s)' = PendingOf(changer', channel'[s], s)
  BY DEF Pending, PendingOf, Holds
<1>2. \A s : Known(s) = AfterAll(view[s], Pending(s))
  BY DEF Known, AfterAll, Views
<1>3. \A s : Known(s)' = AfterAll(view'[s], Pending(s)')
  BY DEF Known, AfterAll, Views
<1> QED
  BY <1>1, <1>2, <1>3

\* A change that begins is on its way to every subscriber, whose channels held the rest.
LEMMA BeginFollows ==
    ASSUME ConnInvariant, SubscribersFollow, NEW c \in Changers, NEW n \in Nodes,
           NEW type \in {"add", "remove"}, AddressesFree,
           changer' = [changer EXCEPT ![c] =
                         [pc |-> "sending", type |-> type, node |-> n, left |-> Subscribers]],
           Members' = Told(Members, [type |-> type, node |-> n]),
           channel' = channel, view' = view
    PROVE  SubscribersFollow'
<1> SUFFICES ASSUME NEW s \in Subscribers PROVE Known(s)' = Members'
  BY DEF SubscribersFollow, Members
<1>1. channel[s] \in Seq(Notes) /\ [type |-> type, node |-> n] \in Notes /\ changer \in [Changers -> ChangerStates]
  BY DEF ConnInvariant, TypeOK, Notes
<1>2. PendingOf(changer, channel[s], s) = channel[s]
  BY PendingNone DEF AddressesFree, Holds
<1>3. /\ changer'[c].pc = "sending" /\ s \in changer'[c].left
      /\ NoteOf(changer'[c]) = [type |-> type, node |-> n]
      /\ \A d \in Changers : changer'[d].pc = "sending" => d = c
  <2> DEFINE r == [pc |-> "sending", type |-> type, node |-> n, left |-> Subscribers]
  <2>1. r.pc = "sending" /\ s \in r.left /\ NoteOf(r) = [type |-> type, node |-> n]
    BY DEF NoteOf
  <2>2. \A d \in Changers : changer[d].pc # "sending"
    BY DEF AddressesFree, Holds
  <2> HIDE DEF r
  <2>3. changer'[c] = r /\ \A d \in Changers : d # c => changer'[d] = changer[d]
    BY <1>1 DEF r
  <2> QED
    BY <2>1, <2>2, <2>3
<1>4. PendingOf(changer', channel[s], s) = Append(channel[s], [type |-> type, node |-> n])
  <2>1. PendingOf(changer', channel[s], s) = Append(channel[s], NoteOf(changer'[c]))
    BY <1>3, PendingOne
  <2> QED
    BY <1>3, <2>1
<1>5. AfterAll(view[s], Append(channel[s], [type |-> type, node |-> n]))
        = Told(AfterAll(view[s], channel[s]), [type |-> type, node |-> n])
  BY <1>1, AfterLast
<1>6. AfterAll(view[s], channel[s]) = Members
  BY <1>2, KnownIs DEF SubscribersFollow, Members
<1> QED
  BY <1>4, <1>5, <1>6, KnownIs

LEMMA AddNodeFollows ==
    ASSUME ConnInvariant, SubscribersFollow, NEW c \in Changers, NEW n \in Nodes,
           NEW a \in Addresses, AddNode(c, n, a)
    PROVE  SubscribersFollow'
<1>1. /\ AddressesFree /\ channel' = channel /\ view' = view
      /\ addresses' = [addresses EXCEPT ![n] = a]
      /\ changer' = [changer EXCEPT ![c] =
                       [pc |-> "sending", type |-> "add", node |-> n, left |-> Subscribers]]
  BY DEF AddNode, Begin, told
<1>2. addresses \in [Nodes -> Addresses \cup {None}] /\ a # None
  BY ConnAssumption DEF ConnInvariant, TypeOK
<1>3. Members' = Members \cup {n}
  BY <1>1, <1>2 DEF Members
<1>4. Members' = Told(Members, [type |-> "add", node |-> n])
  BY <1>3 DEF Told
<1> QED
  BY <1>1, <1>4, BeginFollows

LEMMA RemoveNodeFollows ==
    ASSUME ConnInvariant, SubscribersFollow, NEW c \in Changers, NEW n \in Nodes, RemoveNode(c, n)
    PROVE  SubscribersFollow'
<1>1. /\ AddressesFree /\ channel' = channel /\ view' = view
      /\ addresses' = [addresses EXCEPT ![n] = None]
      /\ changer' = [changer EXCEPT ![c] =
                       [pc |-> "sending", type |-> "remove", node |-> n, left |-> Subscribers]]
  BY DEF RemoveNode, Begin, told
<1>2. addresses \in [Nodes -> Addresses \cup {None}]
  BY DEF ConnInvariant, TypeOK
<1>3. Members' = Members \ {n}
  BY <1>1, <1>2 DEF Members
<1>4. Members' = Told(Members, [type |-> "remove", node |-> n])
  BY <1>3 DEF Told
<1> QED
  BY <1>1, <1>4, BeginFollows

\* What is sent goes from the hands of the changer to the end of the channel.
LEMMA NotifyFollows ==
    ASSUME ConnInvariant, SubscribersFollow, NEW c \in Changers, Notify(c)
    PROVE  SubscribersFollow'
<1>1. PICK t \in changer[c].left :
        /\ channel' = [channel EXCEPT ![t] =
                         Append(@, [type |-> changer[c].type, node |-> changer[c].node])]
        /\ changer' = [changer EXCEPT ![c].left = @ \ {t}]
  BY DEF Notify
<1>2. addresses' = addresses /\ view' = view /\ Holds(c)
  BY DEF Notify
<1>3. changer \in [Changers -> ChangerStates] /\ channel \in [Subscribers -> Seq(Notes)]
  BY DEF ConnInvariant, TypeOK
<1>4. \A d \in Changers : changer[d].pc = "sending" => d = c
  BY <1>2 DEF ConnInvariant, OneChanger, Holds
<1>5. changer[c] = [pc |-> "sending", type |-> changer[c].type, node |-> changer[c].node,
                    left |-> changer[c].left] /\ changer[c].left \subseteq Subscribers
  BY <1>2, Records DEF ConnInvariant
<1>6. /\ changer'[c].pc = "sending" /\ changer'[c].left = changer[c].left \ {t}
      /\ NoteOf(changer'[c]) = NoteOf(changer[c])
      /\ \A d \in Changers : d # c => changer'[d] = changer[d]
  BY <1>1, <1>3, <1>5 DEF NoteOf
<1>7. \A d \in Changers : changer'[d].pc = "sending" => d = c
  BY <1>4, <1>6
<1>8. ASSUME NEW s \in Subscribers
      PROVE  PendingOf(changer', channel'[s], s) = PendingOf(changer, channel[s], s)
  <2>1. CASE s = t
    <3>1. channel'[s] = Append(channel[s], NoteOf(changer[c]))
      BY <1>1, <1>3, <2>1 DEF NoteOf
    <3>2. PendingOf(changer', channel'[s], s) = channel'[s]
      BY <1>6, <1>7, <2>1, PendingNone
    <3>3. PendingOf(changer, channel[s], s) = Append(channel[s], NoteOf(changer[c]))
      BY <1>2, <1>4, <2>1, PendingOne DEF Holds
    <3> QED
      BY <3>1, <3>2, <3>3
  <2>2. CASE s # t /\ s \in changer[c].left
    <3>1. channel'[s] = channel[s]
      BY <1>1, <1>3, <2>2
    <3>2. PendingOf(changer', channel'[s], s) = Append(channel'[s], NoteOf(changer'[c]))
      <4>1. changer'[c].pc = "sending" /\ s \in changer'[c].left
        BY <1>6, <2>2
      <4> QED
        BY <1>7, <4>1, PendingOne
    <3>3. PendingOf(changer, channel[s], s) = Append(channel[s], NoteOf(changer[c]))
      BY <1>2, <1>4, <2>2, PendingOne DEF Holds
    <3> QED
      BY <1>6, <3>1, <3>2, <3>3
  <2>3. CASE s # t /\ s \notin changer[c].left
    <3>1. channel'[s] = channel[s]
      BY <1>1, <1>3, <2>3
    <3>2. PendingOf(changer', channel'[s], s) = channel'[s]
      BY <1>6, <1>7, <2>3, PendingNone
    <3>3. PendingOf(changer, channel[s], s) = channel[s]
      BY <1>4, <2>3, PendingNone
    <3> QED
      BY <3>1, <3>2, <3>3
  <2> QED
    BY <2>1, <2>2, <2>3
<1>9. \A s \in Subscribers : Known(s)' = Known(s)
  BY <1>2, <1>8, KnownIs
<1> QED
  BY <1>2, <1>9 DEF SubscribersFollow

\* A change ends when everybody is told.
LEMMA EndChangeFollows ==
    ASSUME ConnInvariant, SubscribersFollow, NEW c \in Changers, EndChange(c)
    PROVE  SubscribersFollow'
<1>1. /\ Holds(c) /\ changer[c].left = {} /\ changer' = [changer EXCEPT ![c] = Idle]
      /\ UNCHANGED <<addresses, channel, view>>
  BY DEF EndChange, told
<1>2. changer \in [Changers -> ChangerStates] /\ Idle.pc # "sending"
  BY DEF ConnInvariant, TypeOK, Idle
<1>3. \A d \in Changers : changer[d].pc = "sending" => d = c
  BY <1>1 DEF ConnInvariant, OneChanger, Holds
<1>4. \A d \in Changers : changer'[d].pc # "sending"
  BY <1>1, <1>2, <1>3
<1>5. \A s \in Subscribers :
        PendingOf(changer', channel[s], s) = channel[s] /\ PendingOf(changer, channel[s], s) = channel[s]
  BY <1>1, <1>3, <1>4, PendingNone
<1>6. \A s \in Subscribers : Known(s)' = Known(s)
  BY <1>1, <1>5, KnownIs
<1> QED
  BY <1>1, <1>6 DEF SubscribersFollow

\* What is received was the next notification.
LEMMA ReceiveFollows ==
    ASSUME ConnInvariant, SubscribersFollow, NEW t \in Subscribers, Receive(t)
    PROVE  SubscribersFollow'
<1>1. /\ channel[t] # <<>> /\ channel' = [channel EXCEPT ![t] = Tail(@)]
      /\ view' = [view EXCEPT ![t] = Told(@, Head(channel[t]))]
      /\ UNCHANGED <<addresses, changer>>
  BY DEF Receive
<1>2. channel \in [Subscribers -> Seq(Notes)] /\ view \in [Subscribers -> SUBSET Nodes]
  BY DEF ConnInvariant, TypeOK
<1>3. ASSUME NEW s \in Subscribers, s # t PROVE Known(s)' = Known(s)
  <2>1. channel'[s] = channel[s] /\ view'[s] = view[s]
    BY <1>1, <1>2, <1>3
  <2> QED
    BY <1>1, <2>1, KnownIs
<1>4. Known(t)' = Known(t)
  <2> DEFINE q == channel[t]
             v == view[t]
             w == Told(v, Head(q))
  <2>1. channel'[t] = Tail(q) /\ view'[t] = w
    BY <1>1, <1>2
  <2>2. q \in Seq(Notes) /\ q # <<>> /\ Tail(q) \in Seq(Notes)
    BY <1>1, <1>2
  <2>3. AfterAll(w, Tail(q)) = AfterAll(v, q)
    BY <2>2, AfterFirst
  <2>4. Known(t) = AfterAll(v, PendingOf(changer, q, t))
        /\ Known(t)' = AfterAll(w, PendingOf(changer, Tail(q), t))
    BY <1>1, <2>1, KnownIs
  <2> HIDE DEF q, v, w
  <2>5. CASE \A c \in Changers : ~(changer[c].pc = "sending" /\ t \in changer[c].left)
    <3>1. PendingOf(changer, q, t) = q /\ PendingOf(changer, Tail(q), t) = Tail(q)
      BY <2>5, PendingNone
    <3> QED
      BY <2>3, <2>4, <3>1
  <2>6. ASSUME NEW c \in Changers, changer[c].pc = "sending", t \in changer[c].left
        PROVE  Known(t)' = Known(t)
    <3>1. \A d \in Changers : changer[d].pc = "sending" => d = c
      BY <2>6 DEF ConnInvariant, OneChanger, Holds
    <3>2. PendingOf(changer, q, t) = Append(q, NoteOf(changer[c]))
      BY <2>6, <3>1, PendingOne
    <3>3. PendingOf(changer, Tail(q), t) = Append(Tail(q), NoteOf(changer[c]))
      BY <2>6, <3>1, PendingOne
    <3>4. NoteOf(changer[c]) \in Notes
      BY <2>6, Records DEF ConnInvariant, Holds, NoteOf, Notes
    <3>5. AfterAll(v, Append(q, NoteOf(changer[c]))) = Told(AfterAll(v, q), NoteOf(changer[c]))
      BY <2>2, <3>4, AfterLast
    <3>6. AfterAll(w, Append(Tail(q), NoteOf(changer[c])))
            = Told(AfterAll(w, Tail(q)), NoteOf(changer[c]))
      BY <2>2, <3>4, AfterLast
    <3> QED
      BY <2>3, <2>4, <3>2, <3>3, <3>5, <3>6
  <2> QED
    BY <2>5, <2>6
<1>5. \A s \in Subscribers : Known(s)' = Known(s)
  BY <1>3, <1>4
<1> QED
  BY <1>1, <1>5 DEF SubscribersFollow

\* All other steps leave the members, the changers, the channels and the views alone.
LEMMA OthersFollow ==
    ASSUME SubscribersFollow, UNCHANGED <<addresses, changer, channel, view>>
    PROVE  SubscribersFollow'
<1>1. \A s : Known(s)' = Known(s)
  BY KnownIs
<1> QED
  BY <1>1 DEF SubscribersFollow

(***************************************************************************)
(* A subscriber (the allocator) hears of every change of the members, once *)
(* and in the order in which they were made, however many goroutines make  *)
(* them and however small its channel is (sendNodesChangeNotification, in  *)
(* AddNode and RemoveNode under addressesMu).                              *)
(***************************************************************************)
THEOREM NotifiedOfAll == Spec => []SubscribersFollow
<1>1. Init => SubscribersFollow
  <2> SUFFICES ASSUME Init, NEW s \in Subscribers PROVE Known(s) = {n \in Nodes : addresses[n] # None}
    BY DEF SubscribersFollow
  <2>1. \A c \in Changers : changer[c].pc # "sending"
    BY DEF Init, Idle
  <2>2. channel[s] = <<>> /\ view[s] = {} /\ {n \in Nodes : addresses[n] # None} = {}
    BY DEF Init
  <2>3. PendingOf(changer, channel[s], s) = <<>> /\ Len(<<>>) = 0
    BY <2>1, <2>2, PendingNone
  <2>4. AfterAll({}, <<>>) = {}
    BY <2>3, AfterNone
  <2> QED
    BY <2>2, <2>3, <2>4, KnownIs
<1>2. ConnInvariant /\ SubscribersFollow /\ [Next]_vars => SubscribersFollow'
  <2> SUFFICES ASSUME ConnInvariant, SubscribersFollow, [Next]_vars PROVE SubscribersFollow'
    OBVIOUS
  <2>1. ASSUME NEW c \in Changers, NEW n \in Nodes, RemoveNode(c, n) PROVE SubscribersFollow'
    BY <2>1, RemoveNodeFollows
  <2>2. ASSUME NEW c \in Changers, NEW n \in Nodes, NEW a \in Addresses, AddNode(c, n, a)
        PROVE  SubscribersFollow'
    BY <2>2, AddNodeFollows
  <2>3. ASSUME NEW c \in Changers, ChangerStep(c) PROVE SubscribersFollow'
    BY <2>3, NotifyFollows, EndChangeFollows DEF ChangerStep
  <2>4. ASSUME NEW s \in Subscribers, Receive(s) PROVE SubscribersFollow'
    BY <2>4, ReceiveFollows
  <2>5. ASSUME NEW s \in Subscribers, NodeIds(s) PROVE SubscribersFollow'
    BY <2>5, OthersFollow DEF NodeIds
  <2>6. ASSUME NEW g \in Getters, NEW o \in Owners, NEW n \in Nodes, GetClient(g, o, n)
        PROVE  SubscribersFollow'
    BY <2>6, OthersFollow DEF GetClient, told
  <2>7. ASSUME NEW g \in Getters, GetterStep(g) PROVE SubscribersFollow'
    <3>1. UNCHANGED <<addresses, changer, channel, view>>
      BY <2>7 DEF GetterStep, GetCachedConn, GetAddress, GrpcDial, StoreConn, StoreClient, told
    <3> QED
      BY <3>1, OthersFollow
  <2>8. CASE UNCHANGED vars
    BY <2>8, OthersFollow DEF vars, told
  <2> QED
    BY <2>1, <2>2, <2>3, <2>4, <2>5, <2>6, <2>7, <2>8 DEF Next, SubscriberStep
<1> QED
  BY <1>1, <1>2, ConnCorrect, PTL DEF Spec

=============================================================================
