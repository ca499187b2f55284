-------------------------- MODULE ProjectionOutbox --------------------------
(***************************************************************************)
(* Projections of local state to the control plane: a durable outbox       *)
(* (repository.ts, control_plane_projection_outbox) and the pump that      *)
(* empties it (control-v1.ts, pumpControlPlaneProjections).  A projection  *)
(* may depend on another, and may report on a hosted completion: it is     *)
(* sent when both are acknowledged.                                        *)
(*                                                                         *)
(* The requests cross a network that loses, repeats and delays them: a     *)
(* pump that gives up cannot tell whether its request arrived, or will.    *)
(* The destination is external: it takes a projection or refuses it, for   *)
(* now or for good, and knows one it has taken before.                     *)
(***************************************************************************)
EXTENDS Naturals, Sequences

CONSTANTS
    Rows,       \* projections: an interval of numbers from 1
    Parent,     \* what each depends on, or NoParent
    Reports,    \* those that report on the hosted completion
    Pumps,      \* pumps: of this process, and of one that it replaces
    RowLease    \* ticks a pump owns a row

NoParent == 0

ASSUME OutboxAssumption ==
    /\ Rows \subseteq Nat \ {NoParent}
    /\ Parent \in [Rows -> Rows \union {NoParent}]
    /\ Reports \subseteq Rows
    /\ RowLease \in Nat \ {0}
\* A pump is told from the absence of one.
ASSUME PumpsAreNamed == <<>> \notin Pumps

VARIABLES
    row,        \* control_plane_projection_outbox
    completion, \* the hosted completion: none, open, acknowledged
    pump,       \* what each pump is at
    lateRows,   \* requests given up that may still arrive
    arrived,    \* projections at the destination, in the order they came
    steady      \* has the last fault been? (see LastFault)

outboxVars == <<row, completion, pump, lateRows, arrived, steady>>

NoRow == 0
Asleep == [at |-> "asleep", on |-> NoRow]

OutboxInit ==
    /\ row = [p \in Rows |-> [state |-> "none", due |-> FALSE, holder |-> <<>>, left |-> 0]]
    /\ completion = "none"
    /\ pump = [u \in Pumps |-> Asleep]
    /\ lateRows = {}
    /\ arrived = <<>>
    /\ steady = FALSE

Arrived == {arrived[i] : i \in DOMAIN arrived}

OutboxTypeOK ==
    /\ DOMAIN row = Rows
    /\ \A p \in Rows :
         /\ row[p].state \in {"none", "pending", "leased", "acknowledged", "attention"}
         /\ row[p].holder \in Pumps <=> row[p].state = "leased"
         /\ row[p].left \in 0..RowLease
    /\ completion \in {"none", "open", "acknowledged"}
    /\ \A u \in Pumps :
         /\ pump[u].at \in {"asleep", "claim", "send", "wait", "taken", "busy", "refused"}
         /\ pump[u].on \in Rows <=> pump[u].at \notin {"asleep", "claim"}
    /\ lateRows \subseteq Rows
    /\ Arrived \subseteq Rows
    /\ \A i, j \in DOMAIN arrived : arrived[i] = arrived[j] => i = j
    /\ steady \in BOOLEAN

----------------------------------------------------------------------------
\* A projection is written once; the one it depends on may be written later.
EnqueueRow(p) ==
    /\ row[p].state = "none"
    /\ row' = [row EXCEPT ![p].state = "pending", ![p].due = TRUE]
    /\ UNCHANGED <<completion, pump, lateRows, arrived, steady>>

\* The hosted completion is journaled, and acknowledged by the control plane.
CompletionMoves ==
    /\ completion' = CASE completion = "none" -> "open"
                       [] OTHER -> "acknowledged"
    /\ UNCHANGED <<row, pump, lateRows, arrived, steady>>

RowDue(p) ==
    /\ row[p].state = "pending" /\ ~row[p].due
    /\ row' = [row EXCEPT ![p].due = TRUE]
    /\ UNCHANGED <<completion, pump, lateRows, arrived, steady>>

Release(p, state, due) ==
    [row EXCEPT ![p] = [state |-> state, due |-> due, holder |-> <<>>, left |-> 0]]

\* (fault) Expired rows stay leased.
NeverRecovered(p) == FALSE
ExpiredRow(p) == row[p].state = "leased" /\ row[p].left = 0

\* A pump starts by making the rows whose lease ran out pending again.
WakePump(u) ==
    /\ pump[u].at = "asleep"
    /\ pump' = [pump EXCEPT ![u].at = "claim"]
    /\ row' = [p \in Rows |-> IF ExpiredRow(p) THEN Release(p, "pending", TRUE)[p] ELSE row[p]]
    /\ UNCHANGED <<completion, lateRows, arrived, steady>>

\* (fault) A row need not wait for the answer to its parent.
ParentSent(p) ==
    Parent[p] # NoParent => row[Parent[p]].state \in {"leased", "acknowledged"}

\* A row waits for what it depends on while that is there and not acknowledged;
\* where it is not there, the row is broken.
ParentAcknowledged(p) ==
    Parent[p] # NoParent => row[Parent[p]].state = "acknowledged"
ParentMissing(p) == Parent[p] # NoParent /\ row[Parent[p]].state = "none"

Due(p) == row[p].state = "pending" /\ row[p].due
Broken(p) ==
    \/ ParentMissing(p)
    \/ ParentAcknowledged(p) /\ p \in Reports /\ completion = "none"
Ready(p) ==
    /\ ParentAcknowledged(p)
    /\ p \in Reports => completion = "acknowledged"

DueRows == {p \in Rows : Due(p)}
BrokenRows == {p \in DueRows : Broken(p)}
ReadyRows == {p \in DueRows : Ready(p)}

\* The due rows are gone through in the order of their times: the broken ones
\* passed need attention, the first that is ready is leased.  With none ready
\* the pump sleeps.
Claimed(u, found, passed) ==
    [p \in Rows |->
        IF p = found THEN [row[p] EXCEPT !.state = "leased", !.holder = u, !.left = RowLease]
        ELSE IF p \in passed THEN Release(p, "attention", FALSE)[p]
        ELSE row[p]]

ClaimRow(u) ==
    /\ pump[u].at = "claim"
    /\ \/ \E p \in ReadyRows, passed \in SUBSET BrokenRows :
            /\ row' = Claimed(u, p, passed)
            /\ pump' = [pump EXCEPT ![u] = [at |-> "send", on |-> p]]
       \/ /\ ReadyRows = {}
          /\ row' = Claimed(u, NoRow, BrokenRows)
          /\ pump' = [pump EXCEPT ![u] = Asleep]
    /\ UNCHANGED <<completion, lateRows, arrived, steady>>

HoldsRow(u) ==
    LET mine == row[pump[u].on] IN
    mine.state = "leased" /\ mine.holder = u /\ mine.left > 0

PumpTo(u, stage) == pump' = [pump EXCEPT ![u].at = stage]
PumpOn(u) == pump' = [pump EXCEPT ![u] = [at |-> "claim", on |-> NoRow]]

\* The row is sent if enough of its lease is left, and given back otherwise.
SendRow(u) ==
    /\ pump[u].at = "send" /\ HoldsRow(u)
    /\ PumpTo(u, "wait")
    /\ UNCHANGED <<row, completion, lateRows, arrived, steady>>

GiveBackRow(u) ==
    /\ pump[u].at = "send"
    /\ row[pump[u].on].left < RowLease
    /\ row' = IF HoldsRow(u) THEN Release(pump[u].on, "pending", TRUE) ELSE row
    /\ PumpOn(u)
    /\ UNCHANGED <<completion, lateRows, arrived, steady>>

Taken(p) == IF p \in Arrived THEN arrived ELSE Append(arrived, p)

\* The destination takes a projection, or refuses it for now or for good.
TakeRow(u) ==
    /\ pump[u].at = "wait"
    /\ arrived' = Taken(pump[u].on)
    /\ PumpTo(u, "taken")
    /\ UNCHANGED <<row, completion, lateRows, steady>>

RefuseRow(u) ==
    /\ pump[u].at = "wait"
    /\ PumpTo(u, "refused") \/ (~steady /\ PumpTo(u, "busy"))
    /\ UNCHANGED <<row, completion, lateRows, arrived, steady>>

\* The request times out or the connection breaks: it is lost, or late.
LoseRow(u) ==
    /\ ~steady /\ pump[u].at = "wait"
    /\ lateRows' \in {lateRows, lateRows \union {pump[u].on}}
    /\ PumpTo(u, "busy")
    /\ UNCHANGED <<row, completion, arrived, steady>>

TakeLateRow(p) ==
    /\ p \in lateRows
    /\ arrived' = Taken(p)
    /\ lateRows' = lateRows \ {p}
    /\ UNCHANGED <<row, completion, pump, steady>>

\* What the pump does with an answer, if it still holds the row.  When it fails
\* to acknowledge a row that was taken, it marks that row as one it does not
\* understand the failure of.
AnswerIsGood(u) == pump[u].at = "taken"

SettleRow(u) ==
    /\ pump[u].at \in {"taken", "busy", "refused"}
    /\ LET p == pump[u].on IN
       row' \in IF ~HoldsRow(u) THEN {row}
               ELSE IF AnswerIsGood(u)
               THEN {Release(p, "acknowledged", FALSE), Release(p, "attention", FALSE)}
               ELSE IF pump[u].at = "busy" THEN {Release(p, "pending", FALSE)}
               ELSE {Release(p, "attention", FALSE)}
    /\ PumpOn(u)
    /\ UNCHANGED <<completion, lateRows, arrived, steady>>

\* A pump is cancelled, or its process stops, with its request perhaps on its way.
StopPump(u) ==
    /\ ~steady /\ pump[u].at # "asleep"
    /\ lateRows' \in IF pump[u].at = "wait"
                     THEN {lateRows, lateRows \union {pump[u].on}} ELSE {lateRows}
    /\ pump' = [pump EXCEPT ![u] = Asleep]
    /\ UNCHANGED <<row, completion, arrived, steady>>

Sending == {"send", "wait", "taken", "busy", "refused"}

RowTick ==
    /\ \E p \in Rows : row[p].left > 0
    /\ steady => \A u \in Pumps : pump[u].at \in Sending => ~HoldsRow(u)
    /\ row' = [p \in Rows |-> [row[p] EXCEPT !.left = IF @ > 0 THEN @ - 1 ELSE 0]]
    /\ UNCHANGED <<completion, pump, lateRows, arrived, steady>>

\* From some time on the processes stay up, the destination does not put a
\* projection off, and an answer comes within the lease, as the check of the
\* time left at the sending has it.  Nothing says that this time comes.
LastFault ==
    /\ steady' = TRUE
    /\ UNCHANGED <<row, completion, pump, lateRows, arrived>>

PumpStep(u) == WakePump(u) \/ ClaimRow(u) \/ SendRow(u) \/ GiveBackRow(u)

OutboxNext ==
    \/ \E p \in Rows : EnqueueRow(p) \/ RowDue(p) \/ TakeLateRow(p)
    \/ CompletionMoves
    \/ \E u \in Pumps :
         \/ PumpStep(u) \/ TakeRow(u) \/ RefuseRow(u) \/ LoseRow(u)
         \/ SettleRow(u) \/ StopPump(u)
    \/ RowTick
    \/ LastFault

OutboxSpec == OutboxInit /\ [][OutboxNext]_outboxVars

----------------------------------------------------------------------------
\* The outbox keeps its promise: see OutboxPromise.  However requests are lost,
\* repeated and delayed, a projection arrives after its parent and after the
\* completion it reports, and is acknowledged only when it has arrived.
Promise == INSTANCE OutboxPromise WITH
    confirmed <- {p \in Rows : row[p].state = "acknowledged"},
    completed <- completion = "acknowledged"
KeepsOutboxPromise == Promise!Spec

\* Once the faults are over, no projection is left behind: those that nothing
\* keeps back are in the end acknowledged or brought to somebody's attention,
\* whatever the pumps that died left leased.
NotLeftBehind ==
    []<>(steady => \A p \in Rows :
             Ready(p) => row[p].state \notin {"pending", "leased"})
=============================================================================
