------------------------------ MODULE Membership ------------------------------
(***************************************************************************)
(* What an ivshmem server promises its clients, whatever sockets, lists    *)
(* and loops it is made of.  A connection that joins holds an id of its    *)
(* own until it leaves.  Each client keeps a view of the connections it    *)
(* can ring: it lags behind, but it only ever takes in connections that    *)
(* did join, and it lets go of one only when that one has left, or when    *)
(* the client itself ends its connection, for good.                        *)
(***************************************************************************)
CONSTANTS Conns, Ids, NoId

VARIABLES
    holds,      \* holds[n]: the id of connection n, or NoId
    joined,     \* the connections that have ever joined
    view,       \* view[n]: the connections that the client of n can ring
    ended       \* the connections that their clients have ended

vars == <<holds, joined, view, ended>>

Members == {n \in Conns : holds[n] # NoId}

Init ==
    /\ holds = [n \in Conns |-> NoId]
    /\ joined = {}
    /\ view = [n \in Conns |-> {}]
    /\ ended = {}

\* Nobody joins twice: connecting again is another connection.
Join(n, i) ==
    /\ n \notin joined
    /\ \A m \in Members : holds[m] # i
    /\ holds' = [holds EXCEPT ![n] = i]
    /\ joined' = joined \cup {n}
    /\ UNCHANGED <<view, ended>>

\* One leaves, or all do when the server ends.
Leave(N) ==
    /\ holds' = [n \in Conns |-> IF n \in N THEN NoId ELSE holds[n]]
    /\ UNCHANGED <<joined, view, ended>>

Learn(n, M) ==
    /\ M \subseteq joined /\ n \notin ended
    /\ view' = [view EXCEPT ![n] = @ \cup M]
    /\ UNCHANGED <<holds, joined, ended>>

Forget(n, M) ==
    /\ M \cap Members = {}
    /\ view' = [view EXCEPT ![n] = @ \ M]
    /\ UNCHANGED <<holds, joined, ended>>

End(n) ==
    /\ view' = [view EXCEPT ![n] = {}]
    /\ ended' = ended \cup {n}
    /\ UNCHANGED <<holds, joined>>

Next ==
    \/ \E n \in Conns, i \in Ids : Join(n, i)
    \/ \E N \in SUBSET Members : Leave(N)
    \/ \E n \in Conns, M \in SUBSET joined : Learn(n, M)
    \/ \E n \in Conns : End(n) \/ \E M \in SUBSET view[n] : Forget(n, M)

Spec == Init /\ [][Next]_vars
===============================================================================
