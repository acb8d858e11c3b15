------------------------------ MODULE LinkUsage ------------------------------
(***************************************************************************)
(* What the link server promises its clients, without commands, retries,   *)
(* timers or the two halves of an edge: each device has a set of users,   *)
(* and its link is held up (CONNECTING or UP) exactly while it has one.    *)
(* A client starts using a device, stops using it, or is evicted from all  *)
(* of them; a device can be dropped from under all its users (FORCE_DOWN,  *)
(* ISDOWN, retries exhausted).  Anything else the server does leaves the   *)
(* usage alone.                                                            *)
(***************************************************************************)
CONSTANTS Device, Client

VARIABLES
    users,   \* [Device -> SUBSET Client]
    active   \* [Device -> BOOLEAN]: the link is held up

vars == <<users, active>>

Init ==
    /\ users = [d \in Device |-> {}]
    /\ active = [d \in Device |-> FALSE]

\* The usage that follows from a new assignment of users.
Settle(u) == users' = u /\ active' = [d \in Device |-> u[d] # {}]

Use(c, d) == Settle([users EXCEPT ![d] = @ \cup {c}])

Release(c, d) ==
    /\ c \in users[d]
    /\ Settle([users EXCEPT ![d] = @ \ {c}])

Evict(c) == Settle([d \in Device |-> users[d] \ {c}])

Drop(d) == Settle([users EXCEPT ![d] = {}])

Next ==
    \/ \E c \in Client, d \in Device : Use(c, d) \/ Release(c, d)
    \/ \E c \in Client : Evict(c)
    \/ \E d \in Device : Drop(d)

Spec == Init /\ [][Next]_vars
=============================================================================
