---------------------------- MODULE OutboxPromise ----------------------------
(***************************************************************************)
(* What the projection outbox promises its destination and its own side:   *)
(* a projection reaches the destination after the one it depends on, and   *)
(* after the hosted operation it reports on is acknowledged; it is         *)
(* confirmed here only once it has arrived, and stays confirmed.           *)
(***************************************************************************)
EXTENDS Sequences, Naturals

CONSTANTS Rows, Parent, Reports

VARIABLES
    arrived,    \* projections at the destination, in the order they came
    confirmed,  \* projections known here to have arrived
    completed   \* is the hosted operation acknowledged?

Arrived == {arrived[i] : i \in DOMAIN arrived}

Init == arrived = <<>> /\ confirmed = {} /\ completed = FALSE

Arrive(p) ==
    /\ p \notin Arrived
    /\ Parent[p] \in Rows => Parent[p] \in Arrived
    /\ p \in Reports => completed
    /\ arrived' = Append(arrived, p)
    /\ UNCHANGED <<confirmed, completed>>

Confirm(p) ==
    /\ p \in Arrived \ confirmed
    /\ confirmed' = confirmed \union {p}
    /\ UNCHANGED <<arrived, completed>>

Complete == completed' = TRUE /\ UNCHANGED <<arrived, confirmed>>

Next == Complete \/ \E p \in Rows : Arrive(p) \/ Confirm(p)

Spec == Init /\ [][Next]_<<arrived, confirmed, completed>>
=============================================================================
