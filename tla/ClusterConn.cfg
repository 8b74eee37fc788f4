CONSTANTS
    Nodes = {n1}
    Addresses = {a1, a2}
    Changers = {c1, c2}
    Getters = {g1, g2}
    Owners = {o1, o2}
    Subscribers = {s1}
    Places = 1
    MaxChanges = 3
    MaxConns = 2
    None = None
SPECIFICATION FairSpec
INVARIANTS ConnInvariant SubscribersFollow
 
CHECK_DEADLOCK FALSE
