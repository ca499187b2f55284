--------------------------- MODULE HostedContract ---------------------------
(***************************************************************************)
(* What hosted execution promises for each run, whatever the network and   *)
(* the runner's process do: attempts are numbered in the order they are    *)
(* handed out, only the newest one starts, it starts once, and the run is  *)
(* settled once - as completed only by an attempt that started, as rejected *)
(* only by one that never will.                                            *)
(***************************************************************************)
EXTENDS Naturals

CONSTANTS Runs, MaxAttempt

VARIABLES
    attempt,    \* number of attempts handed out
    started,    \* attempts whose executor was started
    verdict     \* how the run was settled, or "open"

contractVars == <<attempt, started, verdict>>

Verdicts == {"open", "completed", "rejected", "cancelled"}

Init ==
    /\ attempt = [r \in Runs |-> 0]
    /\ started = [r \in Runs |-> {}]
    /\ verdict = [r \in Runs |-> "open"]

\* The next attempt of an open run is handed out.
HandOut(r) ==
    /\ verdict[r] = "open"
    /\ attempt[r] < MaxAttempt
    /\ attempt' = [attempt EXCEPT ![r] = @ + 1]
    /\ UNCHANGED <<started, verdict>>

\* The newest attempt starts.  A cancellation may have come before: the runner
\* has not heard of it.
Start(r) ==
    /\ verdict[r] \in {"open", "cancelled"}
    /\ attempt[r] > 0
    /\ attempt[r] \notin started[r]
    /\ started' = [started EXCEPT ![r] = @ \cup {attempt[r]}]
    /\ UNCHANGED <<attempt, verdict>>

Settle(r, v) ==
    /\ verdict[r] = "open"
    /\ attempt[r] > 0
    /\ v = "completed" => attempt[r] \in started[r]
    /\ v = "rejected" => attempt[r] \notin started[r]
    /\ verdict' = [verdict EXCEPT ![r] = v]
    /\ UNCHANGED <<attempt, started>>

Next == \E r \in Runs : \/ HandOut(r)
                        \/ Start(r)
                        \/ \E v \in Verdicts \ {"open"} : Settle(r, v)

Spec == Init /\ [][Next]_contractVars
=============================================================================
