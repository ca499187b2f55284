------------------------------ MODULE MCLedger ------------------------------
(* Instances of RunLedger for TLC: the runs, runners and keys of each         *)
(* configuration, the scope table, and capacities.                            *)
EXTENDS RunLedger, TLC

CONSTANTS r1, r2, w1, kA, kB, kOnce, kRead, kBlocked

\* kA and kB are two requests of one scope; the others have their own.
MCScopeOf == [k \in Keys |-> IF k \in {kA, kB} THEN kA ELSE k]

OneSlotEach == [w \in Runners |-> 1]
TwoSlotsEach == [w \in Runners |-> 2]

Symmetry == Permutations(Runs) \cup Permutations(Runners)
=============================================================================
