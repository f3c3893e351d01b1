--------------------------- MODULE DeviceOwnership ---------------------------
(***************************************************************************)
(* What Server promises about devices, without lists, locks or threads: a  *)
(* device is on offer, or held by one client, or gone for good; a busid    *)
(* names one device at a time; a client holds at most one device, once.    *)
(***************************************************************************)
CONSTANTS Object, Client, BusidOf(_), None

VARIABLES
    offered,  \* devices that a client may take
    held,     \* the device of each client, or None
    known,    \* devices that ever were offered
    served    \* clients that have had their device

ownershipVars == <<offered, held, known, served>>

InPlay == offered \cup ({held[c] : c \in Client} \ {None})

Init ==
    /\ offered = {} /\ known = {} /\ served = {}
    /\ held = [c \in Client |-> None]

\* A new device, under a busid that names no other one
Offer(o) ==
    /\ o \notin known
    /\ \A x \in InPlay : BusidOf(x) # BusidOf(o)
    /\ offered' = offered \cup {o}
    /\ known' = known \cup {o}
    /\ UNCHANGED <<held, served>>

Withdraw(o) ==
    /\ o \in offered
    /\ offered' = offered \ {o}
    /\ UNCHANGED <<held, known, served>>

Take(c, o) ==
    /\ o \in offered /\ held[c] = None /\ c \notin served
    /\ offered' = offered \ {o}
    /\ held' = [held EXCEPT ![c] = o]
    /\ UNCHANGED <<known, served>>

GiveBack(c) ==
    /\ held[c] # None
    /\ offered' = offered \cup {held[c]}
    /\ held' = [held EXCEPT ![c] = None]
    /\ served' = served \cup {c}
    /\ UNCHANGED known

Discard(c) ==
    /\ held[c] # None
    /\ held' = [held EXCEPT ![c] = None]
    /\ served' = served \cup {c}
    /\ UNCHANGED <<offered, known>>

\* The server shuts down; nothing is held any more.
Close ==
    /\ \A c \in Client : held[c] = None
    /\ offered' = {}
    /\ UNCHANGED <<held, known, served>>

Next ==
    \/ \E o \in Object : Offer(o) \/ Withdraw(o)
    \/ \E c \in Client : (\E o \in Object : Take(c, o)) \/ GiveBack(c) \/ Discard(c)
    \/ Close

Spec == Init /\ [][Next]_ownershipVars
==============================================================================
