----------------------------- MODULE ClusterConn -----------------------------
(***************************************************************************)
(* The connections of one node (cluster/conn.go) and the clients made of   *)
(* them, which the raft transport and every dataset keep in maps of their  *)
(* own (storage/raft/transport.go, storage/dataset.go).                    *)
(*                                                                         *)
(* Members come and go by AddNode and RemoveNode, called by the run loop   *)
(* of the zero group and by a node that joins; getters dial; subscribers   *)
(* (the allocator) are told of changes over channels of a few places.  A   *)
(* step is what happens under a lock.                                      *)
(***************************************************************************)
EXTENDS Integers, Sequences, FiniteSets

CONSTANTS
    Nodes,         \* the other nodes
    Addresses,     \* the addresses a node may have
    Changers,      \* the goroutines that call AddNode and RemoveNode
    Getters,       \* the goroutines that want a client
    Owners,        \* the owners of a map of clients
    Subscribers,
    Places,        \* how many notifications a channel holds
    MaxChanges,    \* bound: the number of calls of AddNode and RemoveNode
    MaxConns,      \* bound: the number of connections dialled
    None

ASSUME ConnAssumption ==
    /\ None \notin Addresses \cup Nodes \cup (1..MaxConns)
    /\ Places \in Nat \ {0} /\ MaxChanges \in Nat /\ MaxConns \in Nat

VARIABLES
    addresses,     \* [Nodes -> Addresses \cup {None}]
    conns,         \* [Nodes -> connections \cup {None}]
    made,          \* every connection made so far: its node, its address, whether it is open
    clients,       \* [Owners -> [Nodes -> connections \cup {None}]]
    changer,       \* [Changers -> what the goroutine does]
    getter,        \* [Getters -> what the goroutine does]
    channel,       \* [Subscribers -> notifications not yet received]
    view,          \* [Subscribers -> the nodes it was told of]
    changes,       \* the number of calls of AddNode and RemoveNode
    asking,        \* the subscribers that ask for the members while they handle a change
    removed,       \* the nodes that have ever been removed, and
    overtaken      \* those of which a removal overtook a Dial; for the properties alone

past == <<removed, overtaken>>
told == <<channel, view, asking>>
vars == <<addresses, conns, made, clients, changer, getter, told, changes, past>>

Conns == 1..MaxConns
Idle == [pc |-> "idle"]

Holds(c) == changer[c].pc = "sending"

\* addressesMu is held to the end of a change; a removal holds connsMu as well.
AddressesFree == \A c \in Changers : ~Holds(c)
ConnsFree == \A c \in Changers : Holds(c) => changer[c].type = "add"

Closed(cs) == [i \in DOMAIN made |-> IF i \in cs THEN [made[i] EXCEPT !.open = FALSE] ELSE made[i]]

-----------------------------------------------------------------------------
(***************************************************************************)
(* AddNode and RemoveNode, and the notification of each subscriber.        *)
(***************************************************************************)
Begin(c) ==
    /\ changer[c] = Idle /\ AddressesFree
    /\ changes < MaxChanges /\ changes' = changes + 1

\* A call for a node that is already known, or not known, changes nothing.
AddNode(c, n, a) ==
    /\ Begin(c)
    /\ addresses[n] = None
    /\ addresses' = [addresses EXCEPT ![n] = a]
    /\ changer' = [changer EXCEPT ![c] =
                    [pc |-> "sending", type |-> "add", node |-> n, left |-> Subscribers]]
    /\ UNCHANGED <<conns, made, clients, getter, told, past>>

\* The getters that have an address and not yet a connection in the map.
Dialling(n) == {g \in Getters : getter[g].pc \in {"dial", "store"} /\ getter[g].node = n}

RemoveNode(c, n) ==
    /\ Begin(c)
    /\ addresses[n] # None
    /\ addresses' = [addresses EXCEPT ![n] = None]
    /\ made' = IF conns[n] = None THEN made ELSE Closed({conns[n]})
    /\ conns' = [conns EXCEPT ![n] = None]
    /\ overtaken' = IF Dialling(n) = {} THEN overtaken ELSE overtaken \cup {n}
    /\ removed' = removed \cup {n}
    /\ changer' = [changer EXCEPT ![c] =
                    [pc |-> "sending", type |-> "remove", node |-> n, left |-> Subscribers]]
    /\ UNCHANGED <<clients, getter, told>>

\* sendNodesChangeNotification, to one subscriber: it waits while the channel is full.
NotifyOrDrop(c) ==    \* mutant
    /\ Holds(c)
    /\ \E s \in changer[c].left :
          /\ channel' = IF Len(channel[s]) = Places THEN channel
                        ELSE [channel EXCEPT ![s] =
                                Append(@, [type |-> changer[c].type, node |-> changer[c].node])]
          /\ changer' = [changer EXCEPT ![c].left = @ \ {s}]
    /\ UNCHANGED <<addresses, conns, made, clients, getter, view, asking, changes, past>>
Notify(c) ==
    /\ Holds(c)
    /\ \E s \in changer[c].left :
          /\ Len(channel[s]) < Places
          /\ channel' = [channel EXCEPT ![s] =
                            Append(@, [type |-> changer[c].type, node |-> changer[c].node])]
          /\ changer' = [changer EXCEPT ![c].left = @ \ {s}]
    /\ UNCHANGED <<addresses, conns, made, clients, getter, view, asking, changes, past>>

EndChange(c) ==
    /\ Holds(c) /\ changer[c].left = {}
    /\ changer' = [changer EXCEPT ![c] = Idle]
    /\ UNCHANGED <<addresses, conns, made, clients, getter, told, changes, past>>

Told(known, note) ==
    IF note.type = "add" THEN known \cup {note.node} ELSE known \ {note.node}

\* The allocator handles one change after the other, and for some it asks for the
\* members (canModifyPartition, of a partition without replicas).
Receive(s) ==
    /\ s \notin asking /\ channel[s] # <<>>
    /\ view' = [view EXCEPT ![s] = Told(@, Head(channel[s]))]
    /\ channel' = [channel EXCEPT ![s] = Tail(@)]
    /\ asking' \in {asking, asking \cup {s}}
    /\ UNCHANGED <<addresses, conns, made, clients, changer, getter, changes, past>>

NodeIds(s) ==
    /\ s \in asking /\ AddressesFree
    /\ asking' = asking \ {s}
    /\ UNCHANGED <<addresses, conns, made, clients, changer, getter, channel, view, changes, past>>

-----------------------------------------------------------------------------
(***************************************************************************)
(* A getter: getNodeRaftTransportClient, getNodeSearchClient and           *)
(* getDataManagerClient are the same code, around Dial.                    *)
(***************************************************************************)
Goes(g, r) == getter' = [getter EXCEPT ![g] = r]

Returns(g) == Goes(g, Idle)

\* The owner's cached client is used whatever has become of its connection.
GetClient(g, o, n) ==
    /\ getter[g] = Idle
    /\ clients[o][n] = None
    /\ Goes(g, [pc |-> "cached", owner |-> o, node |-> n])
    /\ UNCHANGED <<addresses, conns, made, clients, changer, told, changes, past>>

GetCachedConn(g) ==
    /\ getter[g].pc = "cached" /\ ConnsFree
    /\ LET n == getter[g].node
       IN  IF conns[n] # None
           THEN Goes(g, [pc |-> "client", owner |-> getter[g].owner, node |-> n, conn |-> conns[n]])
           ELSE Goes(g, [getter[g] EXCEPT !.pc = "address"])
    /\ UNCHANGED <<addresses, conns, made, clients, changer, told, changes, past>>

GetAddress(g) ==
    /\ getter[g].pc = "address" /\ AddressesFree
    /\ LET n == getter[g].node
       IN  IF addresses[n] = None
           THEN Returns(g)
           ELSE Goes(g, [pc |-> "dial", owner |-> getter[g].owner, node |-> n,
                         address |-> addresses[n]])
    /\ UNCHANGED <<addresses, conns, made, clients, changer, told, changes, past>>

\* grpc.Dial does not wait for the connection, and no lock is held.
GrpcDial(g) ==
    /\ getter[g].pc = "dial"
    /\ Len(made) < MaxConns
    /\ made' = Append(made, [node |-> getter[g].node, address |-> getter[g].address, open |-> TRUE])
    /\ Goes(g, [pc |-> "store", owner |-> getter[g].owner, node |-> getter[g].node,
                conn |-> Len(made) + 1])
    /\ UNCHANGED <<addresses, conns, clients, changer, told, changes, past>>

\* The connection of a getter that came first is taken and the own one is closed;
\* whether the node is still a member is not looked at.
StoreConnOver(g) ==    \* mutant
    /\ getter[g].pc = "store" /\ ConnsFree
    /\ conns' = [conns EXCEPT ![getter[g].node] = getter[g].conn]
    /\ Goes(g, [getter[g] EXCEPT !.pc = "client"])
    /\ UNCHANGED <<addresses, made, clients, changer, told, changes, past>>
StoreConn(g) ==
    /\ getter[g].pc = "store" /\ ConnsFree
    /\ LET n == getter[g].node
       IN  IF conns[n] # None
           THEN /\ made' = Closed({getter[g].conn})
                /\ Goes(g, [pc |-> "client", owner |-> getter[g].owner, node |-> n,
                            conn |-> conns[n]])
                /\ UNCHANGED conns
           ELSE /\ conns' = [conns EXCEPT ![n] = getter[g].conn]
                /\ Goes(g, [getter[g] EXCEPT !.pc = "client"])
                /\ UNCHANGED made
    /\ UNCHANGED <<addresses, clients, changer, told, changes, past>>

StoreClient(g) ==
    /\ getter[g].pc = "client"
    /\ clients' = [clients EXCEPT ![getter[g].owner][getter[g].node] = getter[g].conn]
    /\ Returns(g)
    /\ UNCHANGED <<addresses, conns, made, changer, told, changes, past>>

-----------------------------------------------------------------------------
\* A node is new, and its subscribers are there.  (The allocator subscribes in its
\* own goroutine, soon after: what was changed before, it is not told.)
Init ==
    /\ addresses = [n \in Nodes |-> None]
    /\ conns = [n \in Nodes |-> None]
    /\ made = <<>>
    /\ clients = [o \in Owners |-> [n \in Nodes |-> None]]
    /\ changer = [c \in Changers |-> Idle]
    /\ getter = [g \in Getters |-> Idle]
    /\ channel = [s \in Subscribers |-> <<>>]
    /\ view = [s \in Subscribers |-> {}]
    /\ asking = {}
    /\ changes = 0
    /\ removed = {} /\ overtaken = {}

ChangerStep(c) == Notify(c) \/ EndChange(c)
SubscriberStep(s) == Receive(s) \/ NodeIds(s)
GetterStep(g) ==
    GetCachedConn(g) \/ GetAddress(g) \/ GrpcDial(g) \/ StoreConn(g) \/ StoreClient(g)

Next ==
    \/ \E c \in Changers, n \in Nodes : RemoveNode(c, n) \/ \E a \in Addresses : AddNode(c, n, a)
    \/ \E c \in Changers : ChangerStep(c)
    \/ \E s \in Subscribers : SubscriberStep(s)
    \/ \E g \in Getters, o \in Owners, n \in Nodes : GetClient(g, o, n)
    \/ \E g \in Getters : GetterStep(g)

Spec == Init /\ [][Next]_vars

\* Goroutines are scheduled.
Fairness ==
    /\ \A c \in Changers : WF_vars(ChangerStep(c))
    /\ \A s \in Subscribers : WF_vars(SubscriberStep(s))
    /\ \A g \in Getters : WF_vars(GetterStep(g))

FairSpec == Spec /\ Fairness

-----------------------------------------------------------------------------
Notes == [type : {"add", "remove"}, node : Nodes]

ChangerStates ==
    {Idle} \cup [pc : {"sending"}, type : {"add", "remove"}, node : Nodes,
                 left : SUBSET Subscribers]

GetterStates ==
    {Idle} \cup [pc : {"cached", "address"}, owner : Owners, node : Nodes]
           \cup [pc : {"dial"}, owner : Owners, node : Nodes, address : Addresses]
           \cup [pc : {"store", "client"}, owner : Owners, node : Nodes, conn : Conns]

TypeOK ==
    /\ addresses \in [Nodes -> Addresses \cup {None}]
    /\ conns \in [Nodes -> Conns \cup {None}]
    /\ made \in Seq([node : Nodes, address : Addresses, open : BOOLEAN])
    /\ Len(made) <= MaxConns
    /\ clients \in [Owners -> [Nodes -> Conns \cup {None}]]
    /\ changer \in [Changers -> ChangerStates]
    /\ getter \in [Getters -> GetterStates]
    /\ channel \in [Subscribers -> Seq(Notes)]
    /\ \A s \in Subscribers : Len(channel[s]) <= Places
    /\ view \in [Subscribers -> SUBSET Nodes]
    /\ asking \subseteq Subscribers
    /\ overtaken \subseteq removed /\ removed \subseteq Nodes

\* Two goroutines never change the members at once (addressesMu).
OneChanger == \A c, d \in Changers : Holds(c) /\ Holds(d) => c = d

(***************************************************************************)
(* A subscriber hears of every change, once and in the order in which they *)
(* were made: what it knows, with what is in its channel and what is still *)
(* to be sent, is what the addresses are (AddNode, RemoveNode).            *)
(***************************************************************************)
Pending(s) ==
    LET sending == {c \in Changers : Holds(c) /\ s \in changer[c].left}
    IN  IF sending = {} THEN channel[s]
        ELSE LET c == CHOOSE c \in sending : TRUE
             IN  Append(channel[s], [type |-> changer[c].type, node |-> changer[c].node])

Known(s) ==
    LET known[i \in 0..Len(Pending(s))] ==
            IF i = 0 THEN view[s] ELSE Told(known[i - 1], Pending(s)[i])
    IN  known[Len(Pending(s))]

SubscribersFollow ==
    \A s \in Subscribers : Known(s) = {n \in Nodes : addresses[n] # None}

(***************************************************************************)
(* No connection is left open that nobody can close: it is in the map, or  *)
(* the getter that made it has yet to put it there.                        *)
(***************************************************************************)
NoConnLeaked ==
    \A i \in DOMAIN made :
        made[i].open => \/ conns[made[i].node] = i
                        \/ \E g \in Getters : getter[g].pc = "store" /\ getter[g].conn = i

\* The map holds open connections only, one for each node.
MapHoldsOpen ==
    \A n \in Nodes : conns[n] # None =>
        conns[n] \in DOMAIN made /\ made[conns[n]].open /\ made[conns[n]].node = n

\* A getter's new connection is its own until it is stored.
DialOwned ==
    \A g \in Getters : getter[g].pc = "store" =>
        /\ getter[g].conn \in DOMAIN made
        /\ made[getter[g].conn].open /\ made[getter[g].conn].node = getter[g].node
        /\ conns[getter[g].node] # getter[g].conn
        /\ \A h \in Getters : getter[h].pc = "store" /\ getter[h].conn = getter[g].conn => h = g

(***************************************************************************)
(* A connection in the map leads to the node's address of now, unless a    *)
(* removal overtook a Dial of that node: then the connection to the old    *)
(* address is stored after the removal, and every later Dial returns it.   *)
(***************************************************************************)
ConnCurrent ==
    /\ \A n \in Nodes \ overtaken : conns[n] # None => made[conns[n]].address = addresses[n]
    /\ \A g \in Getters :
          /\ getter[g].pc = "dial" /\ getter[g].node \notin overtaken
               => getter[g].address = addresses[getter[g].node]
          /\ getter[g].pc = "store" /\ getter[g].node \notin overtaken
               => made[getter[g].conn].address = addresses[getter[g].node]

(***************************************************************************)
(* A client that an owner keeps, or is about to keep, is one of the        *)
(* connection in the map, as long as the node has never been removed.      *)
(* (After a removal the owner keeps the client of a closed connection:     *)
(* nothing takes it out, and getters do not dial a node that came back.)   *)
(***************************************************************************)
ClientsUsable ==
    /\ \A o \in Owners, n \in Nodes \ removed : clients[o][n] # None => clients[o][n] = conns[n]
    /\ \A g \in Getters :
          getter[g].pc = "client" /\ getter[g].node \notin removed
            => getter[g].conn = conns[getter[g].node]

\* The connections, whoever adds, removes and dials at once (Dial, AddNode, RemoveNode and
\* the three getters of clients).
ConnInvariant ==
    /\ TypeOK /\ OneChanger
    /\ NoConnLeaked /\ MapHoldsOpen /\ DialOwned
    /\ ConnCurrent /\ ClientsUsable

(***************************************************************************)
(* A change waits, with addressesMu held, for a subscriber whose channel   *)
(* is full, and that subscriber waits for addressesMu.                     *)
(***************************************************************************)
WaitOnEachOther ==
    \E c \in Changers, s \in asking :
        Holds(c) /\ s \in changer[c].left /\ Len(channel[s]) = Places

=============================================================================
