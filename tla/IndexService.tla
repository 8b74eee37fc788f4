---------------------------- MODULE IndexService ----------------------------
(***************************************************************************)
(* What a partition promises its clients: one index, changed by one call   *)
(* at a time.  A call takes effect at most once, and a call that returns   *)
(* its result has taken effect with that very result.  A call may also     *)
(* fail without telling whether it took, or will take, effect, or be        *)
(* refused, and then it never does.  All of this is promised until the     *)
(* service breaks, and nothing after that.                                 *)
(***************************************************************************)
EXTENDS PartitionChange

CONSTANTS Nothing, Failed, Refused

VARIABLES
    items,    \* the index
    effect,   \* per call: the result with which it took effect, or Nothing
    asked,    \* per call: the change it asks for, or Nothing
    reply,    \* per call: Nothing, its result, Failed or Refused
    intact    \* does the promise stand?

vars == <<items, effect, asked, reply, intact>>

Init ==
    /\ items = NoItems
    /\ effect = [c \in Calls |-> Nothing]
    /\ asked = [c \in Calls |-> Nothing]
    /\ reply = [c \in Calls |-> Nothing]
    /\ intact = TRUE

Ask(c) ==
    /\ asked[c] = Nothing
    /\ \E ch \in {asked'[c]} :
         /\ ch # Nothing /\ ch \in Change /\ ch.call = c
         /\ asked' = [asked EXCEPT ![c] = ch]
    /\ UNCHANGED <<items, effect, reply>>

TakeEffect(c) ==
    /\ asked[c] # Nothing /\ reply[c] # Refused
    /\ UNCHANGED <<asked, reply>>
    /\ effect[c] = Nothing
    /\ \E now \in {items} :
         /\ items' = ItemsAfter(now, asked[c])
         /\ effect' = [effect EXCEPT ![c] = Result(now, asked[c])]

Reply(c) ==
    /\ reply[c] = Nothing /\ reply'[c] # Nothing
    /\ effect[c] # Nothing
    /\ reply' = [reply EXCEPT ![c] = effect[c]]
    /\ UNCHANGED <<items, effect, asked>>

\* Calls fail together when the process they run in ends.
Fail(failing) ==
    /\ \A c \in failing : reply[c] = Nothing
    /\ reply' = [c \in Calls |-> IF c \in failing THEN Failed ELSE reply[c]]
    /\ UNCHANGED <<items, effect, asked>>

Refuse(c) ==
    /\ reply[c] = Nothing /\ effect[c] = Nothing
    /\ reply' = [reply EXCEPT ![c] = Refused]
    /\ UNCHANGED <<items, effect, asked>>

Serve ==
    \/ \E c \in Calls : Ask(c) \/ TakeEffect(c) \/ Reply(c) \/ Refuse(c)
    \/ \E failing \in SUBSET Calls : Fail(failing)

\* A service that has broken stays broken.
Next ==
    \/ ~intact'
    \/ intact /\ intact' /\ Serve

Spec == Init /\ [][Next]_vars
=============================================================================
