----------------------------- MODULE RunContract -----------------------------
(***************************************************************************)
(* What a run promises, whoever executes it and however often: it is held  *)
(* by one attempt at a time, attempts are granted in order and never       *)
(* again, a material action that can be replayed is let loose once, only   *)
(* for the holder, and the run closes once, with one outcome.              *)
(***************************************************************************)
EXTENDS Integers

CONSTANTS
  Runs,       \* run identities
  Actions,    \* material actions whose identity outlives an attempt
  Outcomes,   \* outcomes a run may close with
  Open        \* "not closed yet", which is no outcome

VARIABLES
  holder,     \* the attempt that holds the run, 0 if none
  granted,    \* how many attempts were granted
  performed,  \* the actions let loose, each with the attempt that held the run
  outcome     \* Open, or how the run closed

vars == <<holder, granted, performed, outcome>>

ContractTypeOK ==
  /\ holder \in [Runs -> Nat]
  /\ granted \in [Runs -> Nat]
  /\ performed \in [Runs -> SUBSET (Actions \X Nat)]
  /\ outcome \in [Runs -> Outcomes \cup {Open}]

Init ==
  /\ holder = [r \in Runs |-> 0]
  /\ granted = [r \in Runs |-> 0]
  /\ performed = [r \in Runs |-> {}]
  /\ outcome = [r \in Runs |-> Open]

\* A free run is granted to a new attempt.
Grant(r) ==
  /\ outcome[r] = Open /\ holder[r] = 0
  /\ granted' = [granted EXCEPT ![r] = @ + 1]
  /\ holder' = [holder EXCEPT ![r] = granted'[r]]
  /\ UNCHANGED <<performed, outcome>>

\* The holder gives the run back, or loses it.
Release(r) ==
  /\ holder[r] # 0
  /\ holder' = [holder EXCEPT ![r] = 0]
  /\ UNCHANGED <<granted, performed, outcome>>

\* An action is let loose, for the holder and for the first time.
Perform(r, a) ==
  /\ holder[r] # 0
  /\ \A p \in performed[r] : p[1] # a
  /\ performed' = [performed EXCEPT ![r] = @ \cup {<<a, holder[r]>>}]
  /\ UNCHANGED <<holder, granted, outcome>>

\* The run closes, held or not.
Close(r, o) ==
  /\ outcome[r] = Open
  /\ outcome' = [outcome EXCEPT ![r] = o]
  /\ holder' = [holder EXCEPT ![r] = 0]
  /\ UNCHANGED <<granted, performed>>

Next ==
  \E r \in Runs :
    \/ Grant(r) \/ Release(r)
    \/ \E a \in Actions : Perform(r, a)
    \/ \E o \in Outcomes : Close(r, o)

Spec == Init /\ [][Next]_vars
=============================================================================
