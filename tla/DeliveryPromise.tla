--------------------------- MODULE DeliveryPromise ---------------------------
(***************************************************************************)
(* What the delivery journal promises of each side effect: the provider    *)
(* applies it at most once, and the one verdict recorded for it is never   *)
(* wrong: "accepted" only if it was applied, "rejected" or "attention"     *)
(* only if it was not and never will be.                                   *)
(***************************************************************************)
EXTENDS Integers

CONSTANTS Intents

VARIABLES
  applied,   \* how often the provider applied the side effect
  verdict    \* "open", or how the delivery ended

vars == <<applied, verdict>>

Init ==
  /\ applied = [i \in Intents |-> 0]
  /\ verdict = [i \in Intents |-> "open"]

\* The side effect happens, possibly after everyone gave up waiting for it.
Apply(i) ==
  /\ applied[i] = 0 /\ verdict[i] \in {"open", "outcome_unknown"}
  /\ applied' = [applied EXCEPT ![i] = 1]
  /\ UNCHANGED verdict

Close(i, v) ==
  /\ verdict[i] = "open"
  /\ v = "accepted" => applied[i] = 1
  /\ v \in {"rejected", "attention"} => applied[i] = 0
  /\ verdict' = [verdict EXCEPT ![i] = v]
  /\ UNCHANGED applied

Next ==
  \E i \in Intents :
    Apply(i) \/ \E v \in {"accepted", "rejected", "outcome_unknown", "attention"} : Close(i, v)

Spec == Init /\ [][Next]_vars
=============================================================================
