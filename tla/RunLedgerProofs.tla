--------------------------- MODULE RunLedgerProofs ---------------------------
(* Proofs about RunLedger, for every value of its constants.                  *)
EXTENDS RunLedger, TLAPS

USE DEF NoLease, NoAttempt

-----------------------------------------------------------------------------
(* Type correctness *)

\* The empty store has the types of its tables.
LEMMA InitTypeOK == Init => TypeOK
BY ConstantsAssumption
DEF Init, TypeOK, RunStatus, AttemptStatus, Stage, ActionStatus, Decisions, Undecided, Grant

\* Every way out of an attempt keeps the types of the run's columns.
LEMMA ReleaseRunTypes ==
  ASSUME TypeOK, NEW r \in Runs, NEW s \in RunStatus, ReleaseRun(r, s)
  PROVE  /\ runStatus' \in [Runs -> RunStatus]
         /\ runRunner' \in [Runs -> Runners \cup {NoRunner}]
         /\ runAttempt' \in [Runs -> 0..MaxAttempts]
         /\ runLease' \in [Runs -> NoLease..LeaseTicks]
BY ConstantsAssumption DEF ReleaseRun, TypeOK

\* Every conclusion a runner may report names a run status and an attempt status.
LEMMA ConclusionTypes ==
  ASSUME NEW c \in AllConclusions
  PROVE  /\ RunStatusOf(c) \in RunStatus \ {"assigned", "running", "queued", "absent"}
         /\ AttemptStatusOf(c) \in AttemptStatus \ (Live \cup {"none"})
BY DEF AllConclusions, RunStatusOf, AttemptStatusOf, RunStatus, HeldStatus, TerminalStatus,
       AttemptStatus, Live

\* Settling an action at the end of its attempt yields an action status.
LEMMA SettlementTypes ==
  ASSUME NEW s \in ActionStatus
  PROVE  /\ AfterInterruption(s) \in ActionStatus
         /\ AfterCompletion(s) \in ActionStatus
         /\ AfterCancellation(s) \in ActionStatus
BY DEF ActionStatus, AfterInterruption, AfterCompletion, AfterCancellation

\* Storing a completion keeps the types of the tables it writes.
LEMMA CompleteTypes ==
  ASSUME TypeOK, NEW r \in Runs, NEW n \in Attempts, NEW c \in AllConclusions, Complete(r, n, c)
  PROVE  /\ runStatus' \in [Runs -> RunStatus]
         /\ runRunner' \in [Runs -> Runners \cup {NoRunner}]
         /\ runAttempt' \in [Runs -> 0..MaxAttempts]
         /\ runLease' \in [Runs -> NoLease..LeaseTicks]
         /\ attStatus' \in [Runs -> [Attempts -> AttemptStatus]]
         /\ actionStatus' \in [Runs -> [Attempts -> [Keys -> ActionStatus]]]
<1>1. RunStatusOf(c) \in RunStatus /\ AttemptStatusOf(c) \in AttemptStatus
  BY ConclusionTypes
<1>2. PICK s \in RunStatus : s = RunStatusOf(c)
  BY <1>1
<1>3. /\ ReleaseRun(r, s)
      /\ attStatus' = [attStatus EXCEPT ![r][n] = AttemptStatusOf(c)]
      /\ actionStatus' = [actionStatus EXCEPT ![r][n] = [k \in Keys |-> AfterCompletion(@[k])]]
  BY <1>2 DEF Complete
<1>4. attStatus' \in [Runs -> [Attempts -> AttemptStatus]]
  BY <1>1, <1>3 DEF TypeOK
<1>5. actionStatus' \in [Runs -> [Attempts -> [Keys -> ActionStatus]]]
  <2>1. actionStatus[r][n] \in [Keys -> ActionStatus]
    BY DEF TypeOK
  <2>2. [k \in Keys |-> AfterCompletion(actionStatus[r][n][k])] \in [Keys -> ActionStatus]
    BY <2>1, SettlementTypes
  <2>3. QED BY <1>3, <2>2 DEF TypeOK
<1>6. QED BY <1>3, <1>4, <1>5, ReleaseRunTypes

\* Attempt numbers are positive numbers within the bound of the model.
LEMMA AttemptsFacts ==
  /\ NoAttempt \notin Attempts
  /\ Attempts \subseteq Nat \ {0}
  /\ \A n \in 0..MaxAttempts : n # NoAttempt => n \in Attempts
  /\ \A n \in Attempts : n \in 0..MaxAttempts
  /\ \A n \in 0..MaxAttempts : n < MaxAttempts => n + 1 \in Attempts
BY ConstantsAssumption DEF Attempts

\* Writing one action's status keeps the type of the actions table.
LEMMA SetActionTypes ==
  ASSUME TypeOK, NEW r \in Runs, NEW n \in Attempts, NEW k \in Keys, NEW s \in ActionStatus,
         SetAction(r, n, k, s)
  PROVE  actionStatus' \in [Runs -> [Attempts -> [Keys -> ActionStatus]]]
BY DEF TypeOK, SetAction

\* Counting a release, or not, keeps the counters natural numbers.
LEMMA CountReleaseTypes ==
  ASSUME TypeOK, NEW r \in Runs, NEW n \in Attempts, NEW k \in Keys,
         CountRelease(r, n, k) \/ UNCHANGED released
  PROVE  released' \in [Runs -> [Attempts -> [Keys -> Nat]]]
<1>1. released \in [Runs -> [Attempts -> [Keys -> Nat]]]
  BY DEF TypeOK
<1>2. released[r][n][k] + 1 \in Nat
  BY <1>1
<1>3. PICK c \in Nat : c = released[r][n][k] + 1
  BY <1>2
<1>4. [released EXCEPT ![r][n][k] = c] \in [Runs -> [Attempts -> [Keys -> Nat]]]
  BY <1>1
<1>5. [released EXCEPT ![r][n][k] = @ + 1] = [released EXCEPT ![r][n][k] = c]
  BY <1>1, <1>3
<1>6. released' \in {released, [released EXCEPT ![r][n][k] = c]}
  BY <1>5 DEF CountRelease
<1>7. QED BY <1>1, <1>4, <1>6

\* So does parking or resuming a run.
LEMMA RunStatusTypes ==
  ASSUME TypeOK, NEW r \in Runs, NEW s \in RunStatus,
         runStatus' = [runStatus EXCEPT ![r] = s] \/ UNCHANGED runStatus
  PROVE  runStatus' \in [Runs -> RunStatus]
<1>1. [runStatus EXCEPT ![r] = s] \in [Runs -> RunStatus]
  BY DEF TypeOK
<1>2. QED BY <1>1 DEF TypeOK

\* The claim transaction keeps the types, whether it parks or assigns.
LEMMA ClaimTypeOK ==
  ASSUME TypeOK, NEW w \in Runners, ClaimNextRun(w)
  PROVE  TypeOK'
<1>1. PICK routed \in SUBSET {r \in Queued : Eligible(r, w)}, seen \in SUBSET Queued :
        LET blocked == {r \in seen : Blocked(r, routed)} IN
        \/ ParkBlocked(blocked)
        \/ \E r \in routed : Claimable(r, routed) /\ AssignAttempt(w, r, blocked)
  BY DEF ClaimNextRun
<1> DEFINE blocked == {r \in seen : Blocked(r, routed)}
<1>2. ASSUME NEW b \in SUBSET Runs, ParkBlocked(b) PROVE TypeOK'
  <2>1. runStatus' \in [Runs -> RunStatus]
    BY <1>2 DEF ParkBlocked, TypeOK, RunStatus, HeldStatus
  <2>2. QED BY <1>2, <2>1 DEF ParkBlocked, TypeOK, attemptVars, routeVars, actionVars
<1>3. ASSUME NEW b \in SUBSET Runs, NEW r \in routed, AssignAttempt(w, r, b) PROVE TypeOK'
  <2>1. r \in Runs /\ lastNumber[r] \in 0..MaxAttempts /\ lastNumber[r] < MaxAttempts
    BY DEF Queued, Eligible, TypeOK
  <2>2. PICK n \in Attempts : n = lastNumber[r] + 1
    BY <2>1, AttemptsFacts
  <2>3. /\ lastNumber' = [lastNumber EXCEPT ![r] = n]
        /\ runAttempt' = [runAttempt EXCEPT ![r] = n]
        /\ attStatus' = [attStatus EXCEPT ![r][n] = "assigned"]
        /\ attRunner' = [attRunner EXCEPT ![r][n] = w]
        /\ attLease' = [attLease EXCEPT ![r][n] = LeaseTicks]
        /\ stage' = [stage EXCEPT ![r][n] = "offered"]
    BY <1>3, <2>2 DEF AssignAttempt, Leaves
  <2>4. /\ runStatus' = [q \in Runs |-> IF q = r THEN "assigned"
                                        ELSE IF q \in b THEN "needs_approval" ELSE runStatus[q]]
        /\ runRunner' = [runRunner EXCEPT ![r] = w]
        /\ runLease' = [runLease EXCEPT ![r] = LeaseTicks]
        /\ UNCHANGED <<routeVars, actionVars>>
    BY <1>3 DEF AssignAttempt
  <2>5. lastNumber' \in [Runs -> 0..MaxAttempts] /\ runAttempt' \in [Runs -> 0..MaxAttempts]
    BY <2>2, <2>3, AttemptsFacts DEF TypeOK
  <2>6. attStatus' \in [Runs -> [Attempts -> AttemptStatus]]
    BY <2>3 DEF TypeOK, AttemptStatus, Live
  <2>7. /\ attRunner' \in [Runs -> [Attempts -> Runners \cup {NoRunner}]]
        /\ stage' \in [Runs -> [Attempts -> Stage]]
    BY <2>3 DEF TypeOK, Stage
  <2>8. /\ attLease' \in [Runs -> [Attempts -> 0..LeaseTicks]]
        /\ runLease' \in [Runs -> NoLease..LeaseTicks]
    <3>1. LeaseTicks \in 0..LeaseTicks /\ LeaseTicks \in NoLease..LeaseTicks
      BY ConstantsAssumption
    <3>2. QED BY <2>3, <2>4, <3>1 DEF TypeOK
  <2>9. /\ runStatus' \in [Runs -> RunStatus]
        /\ runRunner' \in [Runs -> Runners \cup {NoRunner}]
    BY <2>4 DEF TypeOK, RunStatus, HeldStatus
  <2>10. QED BY <2>4, <2>5, <2>6, <2>7, <2>8, <2>9 DEF TypeOK, routeVars, actionVars
<1>4. blocked \in SUBSET Runs
  BY DEF Queued
<1>5. QED BY <1>1, <1>2, <1>3, <1>4

\* A tick of the clock keeps the types: no lease falls below zero.
LEMMA TickTypeOK ==
  ASSUME TypeOK, Tick
  PROVE  TypeOK'
<1>1. runLease' \in [Runs -> NoLease..LeaseTicks]
  BY ConstantsAssumption DEF Tick, TypeOK
<1>2. attLease' \in [Runs -> [Attempts -> 0..LeaseTicks]]
  <2>1. ASSUME NEW r \in Runs, NEW n \in Attempts
        PROVE  (IF attLease[r][n] > 0 THEN attLease[r][n] - 1 ELSE 0) \in 0..LeaseTicks
    <3>1. attLease[r][n] \in 0..LeaseTicks
      BY DEF TypeOK
    <3>2. QED BY <3>1, ConstantsAssumption
  <2>2. QED BY <2>1 DEF Tick
<1>3. QED BY <1>1, <1>2 DEF Tick, TypeOK, routeVars, actionVars

\* Admission, recovery, cancellation and the end of an access profile.
LEMMA RunOperationsTypeOK ==
  ASSUME TypeOK, NEW r \in Runs,
         CreateRun(r) \/ RecoverExpiredLease(r) \/ CancelRun(r) \/ AccessExpires(r)
  PROVE  TypeOK'
<1>1. CASE CreateRun(r)
  BY <1>1 DEF CreateRun, TypeOK, RunStatus, attemptVars, routeVars, actionVars
<1>2. CASE RecoverExpiredLease(r)
  <2>1. "queued" \in RunStatus
    BY DEF RunStatus
  <2>2. ReleaseRun(r, "queued")
    BY <1>2 DEF RecoverExpiredLease
  <2>3. attStatus' \in [Runs -> [Attempts -> AttemptStatus]]
    BY <1>2 DEF RecoverExpiredLease, TypeOK, AttemptStatus, TerminalStatus
  <2>4. actionStatus' \in [Runs -> [Attempts -> [Keys -> ActionStatus]]]
    <3>1. ASSUME runAttempt[r] \in Attempts
          PROVE  [k \in Keys |-> AfterInterruption(actionStatus[r][runAttempt[r]][k])]
                   \in [Keys -> ActionStatus]
      BY <3>1, SettlementTypes DEF TypeOK
    <3>2. QED BY <1>2, <3>1 DEF RecoverExpiredLease, TypeOK
  <2>5. UNCHANGED <<lastNumber, attRunner, attLease, routeVars, stage, decision, grants, released>>
    BY <1>2 DEF RecoverExpiredLease
  <2>6. QED BY <2>1, <2>2, <2>3, <2>4, <2>5, ReleaseRunTypes DEF TypeOK, routeVars
<1>3. CASE CancelRun(r)
  <2>1. "cancelled" \in RunStatus /\ "cancelled" \in AttemptStatus
    BY DEF RunStatus, AttemptStatus, TerminalStatus
  <2>2. ReleaseRun(r, "cancelled")
    BY <1>3 DEF CancelRun
  <2>3. attStatus' \in [Runs -> [Attempts -> AttemptStatus]]
    BY <1>3, <2>1 DEF CancelRun, TypeOK
  <2>4. actionStatus' \in [Runs -> [Attempts -> [Keys -> ActionStatus]]]
    <3>1. [m \in Attempts |-> [k \in Keys |-> AfterCancellation(actionStatus[r][m][k])]]
            \in [Attempts -> [Keys -> ActionStatus]]
      BY SettlementTypes DEF TypeOK
    <3>2. QED BY <1>3, <3>1 DEF CancelRun, TypeOK
  <2>5. UNCHANGED <<lastNumber, attRunner, attLease, routeVars, stage, decision, grants, released>>
    BY <1>3 DEF CancelRun
  <2>6. QED BY <2>1, <2>2, <2>3, <2>4, <2>5, ReleaseRunTypes DEF TypeOK, routeVars
<1>4. CASE AccessExpires(r)
  BY <1>4 DEF AccessExpires, TypeOK, runVars, attemptVars, actionVars
<1>5. QED BY <1>1, <1>2, <1>3, <1>4

\* What a runner does with its attempt.
LEMMA AttemptStepTypeOK ==
  ASSUME TypeOK, OneLeasedAttempt, NEW r \in Runs, NEW n \in Attempts, AttemptStep(r, n)
  PROVE  TypeOK'
<1>1. CASE RunnerStops(r, n)
  BY <1>1 DEF RunnerStops, Leaves, TypeOK, Stage, runVars, attemptVars, routeVars, actionVars
<1>2. CASE RejectAttemptStart(r, n)
  <2>1. "queued" \in RunStatus
    BY DEF RunStatus
  <2>2. ReleaseRun(r, "queued")
    BY <1>2 DEF RejectAttemptStart
  <2>3. /\ attStatus' \in [Runs -> [Attempts -> AttemptStatus]]
        /\ stage' \in [Runs -> [Attempts -> Stage]]
    BY <1>2 DEF RejectAttemptStart, Leaves, TypeOK, AttemptStatus, TerminalStatus, Stage
  <2>4. rejected' \in [Runs -> SUBSET Runners]
    <3>1. attRunner[r][n] \in Runners \cup {NoRunner} /\ attRunner[r][n] = runRunner[r]
      BY <1>2 DEF RejectAttemptStart, ActiveAttemptLease, TypeOK
    <3>2. rejected' = [rejected EXCEPT ![r] = @ \cup {attRunner[r][n]}]
      BY <1>2 DEF RejectAttemptStart
    <3>3. attRunner[r][n] # NoRunner
      <4>1. runAttempt[r] = n /\ n # NoAttempt
        BY <1>2, AttemptsFacts DEF RejectAttemptStart, ActiveAttemptLease
      <4>2. QED BY <3>1, <4>1 DEF OneLeasedAttempt, LeaseColumns
    <3>4. QED BY <3>1, <3>2, <3>3 DEF TypeOK
  <2>5. QED BY <1>2, <2>1, <2>2, <2>3, <2>4, ReleaseRunTypes DEF RejectAttemptStart, TypeOK, actionVars
<1>3. CASE MarkRunning(r, n)
  <2>1. /\ runStatus' = [runStatus EXCEPT ![r] = "running"] \/ runStatus' = runStatus
        /\ attStatus' = [attStatus EXCEPT ![r][n] = "running"] \/ attStatus' = attStatus
        /\ \/ runningEvents' = [runningEvents EXCEPT ![r] = @ \cup {n}]
           \/ runningEvents' = runningEvents
        /\ Leaves(r, n, "executing") \/ Leaves(r, n, "done")
    BY <1>3 DEF MarkRunning
  <2>2. "running" \in RunStatus /\ "running" \in AttemptStatus /\ {"executing", "done"} \subseteq Stage
    BY DEF RunStatus, HeldStatus, AttemptStatus, Live, Stage
  <2>3. runStatus' \in [Runs -> RunStatus]
    <3>1. [runStatus EXCEPT ![r] = "running"] \in [Runs -> RunStatus]
      BY <2>2 DEF TypeOK
    <3>2. QED BY <2>1, <3>1 DEF TypeOK
  <2>4. attStatus' \in [Runs -> [Attempts -> AttemptStatus]]
    <3>1. [attStatus EXCEPT ![r][n] = "running"] \in [Runs -> [Attempts -> AttemptStatus]]
      BY <2>2 DEF TypeOK
    <3>2. QED BY <2>1, <3>1 DEF TypeOK
  <2>5. stage' \in [Runs -> [Attempts -> Stage]]
    <3>1. ASSUME NEW s \in Stage, Leaves(r, n, s) PROVE stage' \in [Runs -> [Attempts -> Stage]]
      BY <3>1 DEF TypeOK, Leaves
    <3>2. QED BY <2>1, <2>2, <3>1
  <2>6. runningEvents' \in [Runs -> SUBSET Attempts]
    <3>1. [runningEvents EXCEPT ![r] = @ \cup {n}] \in [Runs -> SUBSET Attempts]
      BY DEF TypeOK
    <3>2. QED BY <2>1, <3>1 DEF TypeOK
  <2>7. UNCHANGED <<runRunner, runAttempt, runLease, lastNumber, attRunner, attLease,
                    rejected, accessExpired, actionVars>>
    BY <1>3 DEF MarkRunning
  <2>8. QED BY <2>3, <2>4, <2>5, <2>6, <2>7 DEF TypeOK, actionVars
<1>4. CASE Heartbeat(r, n)
  <2>1. LeaseTicks \in 0..LeaseTicks /\ LeaseTicks \in NoLease..LeaseTicks
    BY ConstantsAssumption
  <2>2. QED BY <1>4, <2>1 DEF Heartbeat, TypeOK, routeVars, actionVars
<1>5. ASSUME NEW c \in Conclusions, CompleteRun(r, n, c) PROVE TypeOK'
  <2>1. Complete(r, n, c) /\ c \in AllConclusions
    BY <1>5, ConstantsAssumption DEF CompleteRun
  <2>2. stage' \in [Runs -> [Attempts -> Stage]]
    BY <1>5 DEF CompleteRun, Leaves, TypeOK, Stage
  <2>3. QED BY <1>5, <2>1, <2>2, CompleteTypes DEF CompleteRun, TypeOK, routeVars
<1>6. CASE RunTimesOut(r, n)
  <2>1. stage' \in [Runs -> [Attempts -> Stage]]
    BY <1>6 DEF RunTimesOut, Leaves, TypeOK, Stage
  <2>2. UNCHANGED <<lastNumber, attRunner, attLease, routeVars, decision, grants, released>>
    BY <1>6 DEF RunTimesOut
  <2>3. CASE Complete(r, n, "timed_out")
    <3>1. "timed_out" \in AllConclusions
      BY DEF AllConclusions
    <3>2. QED BY <2>1, <2>2, <2>3, <3>1, CompleteTypes DEF TypeOK, routeVars
  <2>4. CASE UNCHANGED <<runVars, attStatus, actionStatus>>
    BY <2>1, <2>2, <2>4 DEF TypeOK, routeVars, runVars
  <2>5. QED BY <1>6, <2>3, <2>4 DEF RunTimesOut
<1>7. QED BY <1>1, <1>2, <1>3, <1>4, <1>5, <1>6 DEF AttemptStep

\* What happens to the actions of an attempt.
LEMMA ActionStepTypeOK ==
  ASSUME TypeOK, NEW r \in Runs, NEW n \in Attempts, NEW k \in Keys, ActionStep(r, n, k)
  PROVE  TypeOK'
<1> USE DEF unchangedByPermission, attemptVars, routeVars
<1>1. {"running", "needs_approval"} \subseteq RunStatus
  BY DEF RunStatus, HeldStatus
<1>2. {"waiting_approval", "authorized", "executing", "succeeded", "failed", "unknown",
       "cancelled"} \subseteq ActionStatus
  BY DEF ActionStatus
<1>3. ASSUME NEW mode \in ApprovalModes, RequestNewAction(r, n, k, mode) PROVE TypeOK'
  <2>1. PICK s \in ActionStatus : SetAction(r, n, k, s)
    BY <1>2, <1>3 DEF RequestNewAction
  <2>2. runStatus' = [runStatus EXCEPT ![r] = "needs_approval"] \/ UNCHANGED runStatus
    BY <1>3 DEF RequestNewAction
  <2>3. CountRelease(r, n, k) \/ UNCHANGED released
    BY <1>3 DEF RequestNewAction
  <2>4. UNCHANGED <<unchangedByPermission, decision, grants>>
    BY <1>3 DEF RequestNewAction
  <2>5. runStatus' \in [Runs -> RunStatus]
    BY <1>1, <2>2, RunStatusTypes
  <2>6. QED BY <2>1, <2>3, <2>4, <2>5, SetActionTypes, CountReleaseTypes DEF TypeOK
<1>4. CASE RequestReleasedAction(r, n, k)
  <2>1. PICK m \in Attempts : SetAction(r, m, k, "unknown")
    BY <1>4 DEF RequestReleasedAction, LatestAction
  <2>2. QED BY <1>2, <1>4, <2>1, SetActionTypes DEF RequestReleasedAction, TypeOK
<1>5. CASE RequestDriftedAction(r, n, k)
  <2>1. PICK s \in ActionStatus : SetAction(r, n, k, s)
    BY <1>2, <1>5 DEF RequestDriftedAction
  <2>2. runStatus' = [runStatus EXCEPT ![r] = "running"] \/ UNCHANGED runStatus
    BY <1>5 DEF RequestDriftedAction, ResumeRun
  <2>3. UNCHANGED <<unchangedByPermission, decision, grants, released>>
    BY <1>5 DEF RequestDriftedAction
  <2>4. runStatus' \in [Runs -> RunStatus]
    BY <1>1, <2>2, RunStatusTypes
  <2>5. QED BY <2>1, <2>3, <2>4, SetActionTypes DEF TypeOK
<1>6. ASSUME NEW d \in Decisions, RecordApprovalDecision(r, n, k, d) PROVE TypeOK'
  BY <1>6 DEF RecordApprovalDecision, TypeOK, runVars
<1>7. CASE ResolveActionPermission(r, n, k)
  <2>1. PICK s \in ActionStatus : SetAction(r, n, k, s)
    BY <1>2, <1>7 DEF ResolveActionPermission
  <2>2. runStatus' = [runStatus EXCEPT ![r] = "running"] \/ UNCHANGED runStatus
    BY <1>7 DEF ResolveActionPermission, ResumeRun
  <2>3. CountRelease(r, n, k) \/ UNCHANGED released
    BY <1>7 DEF ResolveActionPermission
  <2>4. UNCHANGED <<unchangedByPermission, decision>>
    BY <1>7 DEF ResolveActionPermission
  <2>5. grants' = grants \/ grants' = grants \cup {[run |-> r, scope |-> ScopeOf[k]]}
    BY <1>7 DEF ResolveActionPermission, GrantsAfter
  <2>6. grants' \in SUBSET Grant
    BY <2>5 DEF TypeOK, Grant
  <2>7. runStatus' \in [Runs -> RunStatus]
    BY <1>1, <2>2, RunStatusTypes
  <2>8. QED BY <2>1, <2>3, <2>4, <2>6, <2>7, SetActionTypes, CountReleaseTypes DEF TypeOK
<1>8. ASSUME NEW o \in {"succeeded", "failed", "unknown"}, RecordMaterialActionReceipt(r, n, k, o)
      PROVE  TypeOK'
  BY <1>2, <1>8, SetActionTypes DEF RecordMaterialActionReceipt, TypeOK
<1>9. ASSUME NEW o \in {"succeeded", "failed"}, ReconcileUnknownMaterialAction(r, n, k, o)
      PROVE  TypeOK'
  BY <1>2, <1>9, SetActionTypes DEF ReconcileUnknownMaterialAction, TypeOK
<1>10. QED BY <1>3, <1>4, <1>5, <1>6, <1>7, <1>8, <1>9 DEF ActionStep

\* Every step of the store keeps the types, given what the leases say.
LEMMA NextTypeOK == TypeOK /\ OneLeasedAttempt /\ [Next]_vars => TypeOK'
<1> SUFFICES ASSUME TypeOK, OneLeasedAttempt, [Next]_vars PROVE TypeOK'
  OBVIOUS
<1>1. CASE UNCHANGED vars
  BY <1>1 DEF vars, runVars, attemptVars, routeVars, actionVars, TypeOK
<1>2. CASE Next
  BY <1>2, TickTypeOK, ClaimTypeOK, RunOperationsTypeOK, AttemptStepTypeOK, ActionStepTypeOK
  DEF Next, RunStep
<1>3. QED BY <1>1, <1>2

-----------------------------------------------------------------------------
(* One leased attempt *)

\* What OneLeasedAttempt says of one run.
OneLease(r) == LeaseColumns(r) /\ AttemptRows(r)

\* Without runs there are no leases.
LEMMA InitOneLeased == Init => OneLeasedAttempt
BY AttemptsFacts DEF Init, OneLeasedAttempt, LeaseColumns, AttemptRows, Live

\* A step that leaves the lease columns of q alone, and ends or starts none of
\* its attempts, may park or resume a held run.
LEMMA OneLeaseKept ==
  ASSUME NEW q \in Runs, OneLease(q),
         UNCHANGED <<runRunner[q], runAttempt[q], runLease[q], lastNumber[q],
                     attRunner[q], attLease[q]>>,
         \A n \in Attempts : /\ attStatus'[q][n] \in Live <=> attStatus[q][n] \in Live
                             /\ attStatus'[q][n] = "none" <=> attStatus[q][n] = "none",
         IF runAttempt[q] = NoAttempt
         THEN runStatus'[q] \notin Live ELSE runStatus'[q] \in HeldStatus
  PROVE  OneLease(q)'
BY DEF OneLease, LeaseColumns, AttemptRows

\* A step that releases q ends its leased attempt, if it has one.
LEMMA OneLeaseReleased ==
  ASSUME TypeOK, NEW q \in Runs, OneLease(q), NEW s \in RunStatus \ Live, ReleaseRun(q, s),
         lastNumber'[q] = lastNumber[q],
         \A n \in Attempts :
           IF n = runAttempt[q] THEN attStatus'[q][n] \notin Live \cup {"none"}
                                ELSE attStatus'[q][n] = attStatus[q][n]
  PROVE  OneLease(q)'
<1>1. /\ runAttempt'[q] = NoAttempt /\ runRunner'[q] = NoRunner /\ runLease'[q] = NoLease
      /\ runStatus'[q] = s
  BY DEF ReleaseRun, TypeOK
<1>2. LeaseColumns(q)'
  BY <1>1 DEF LeaseColumns
<1>3. AttemptRows(q)'
  BY <1>1, AttemptsFacts DEF OneLease, AttemptRows, Live
<1>4. QED BY <1>2, <1>3 DEF OneLease

\* A tick lowers a run's lease and its attempt's together.
LEMMA TickOneLeased ==
  ASSUME TypeOK, OneLeasedAttempt, Tick
  PROVE  OneLeasedAttempt'
<1>1. ASSUME NEW q \in Runs PROVE LeaseColumns(q)'
  <2>1. LeaseColumns(q) /\ runAttempt[q] \in 0..MaxAttempts /\ runLease[q] \in NoLease..LeaseTicks
    BY DEF OneLeasedAttempt, TypeOK
  <2>2. runLease'[q] = IF runLease[q] > 0 THEN runLease[q] - 1 ELSE runLease[q]
    BY DEF Tick
  <2>3. UNCHANGED <<runStatus, runRunner, runAttempt, lastNumber, attStatus, attRunner>>
    BY DEF Tick
  <2>4. ASSUME runAttempt[q] # NoAttempt PROVE runLease'[q] = attLease'[q][runAttempt[q]]
    <3>1. runAttempt[q] \in Attempts
      BY <2>1, <2>4, AttemptsFacts
    <3>2. attLease'[q][runAttempt[q]] =
            IF attLease[q][runAttempt[q]] > 0 THEN attLease[q][runAttempt[q]] - 1 ELSE 0
      BY <3>1 DEF Tick
    <3>3. attLease[q][runAttempt[q]] \in 0..LeaseTicks /\ runLease[q] = attLease[q][runAttempt[q]]
      BY <2>1, <2>4, <3>1 DEF TypeOK, LeaseColumns
    <3>4. QED BY <2>2, <3>2, <3>3, ConstantsAssumption
  <2>5. runLease'[q] = NoLease <=> runLease[q] = NoLease
    BY <2>1, <2>2, ConstantsAssumption
  <2>6. QED BY <2>1, <2>3, <2>4, <2>5 DEF LeaseColumns
<1>2. ASSUME NEW q \in Runs PROVE AttemptRows(q)'
  BY DEF Tick, OneLeasedAttempt, AttemptRows
<1>3. QED BY <1>1, <1>2 DEF OneLeasedAttempt

\* A claim leases a run nobody holds to an attempt that did not exist.
LEMMA ClaimOneLeased ==
  ASSUME TypeOK, OneLeasedAttempt, NEW w \in Runners, ClaimNextRun(w)
  PROVE  OneLeasedAttempt'
<1>1. PICK routed \in SUBSET {r \in Queued : Eligible(r, w)}, seen \in SUBSET Queued :
        LET blocked == {r \in seen : Blocked(r, routed)} IN
        \/ ParkBlocked(blocked)
        \/ \E r \in routed : Claimable(r, routed) /\ AssignAttempt(w, r, blocked)
  BY DEF ClaimNextRun
<1>2. \A q \in Queued : q \in Runs /\ runStatus[q] = "queued" /\ runAttempt[q] = NoAttempt
  BY DEF Queued, OneLeasedAttempt, LeaseColumns, HeldStatus
<1>3. \A q \in Runs : OneLease(q)
  BY DEF OneLeasedAttempt, OneLease
\* A run of b is parked without a lease, any other run keeps its row.
<1>4. ASSUME NEW b \in SUBSET Queued, NEW q \in Runs,
             UNCHANGED <<runRunner[q], runAttempt[q], runLease[q], lastNumber[q],
                         attStatus[q], attRunner[q], attLease[q]>>,
             runStatus'[q] = IF q \in b THEN "needs_approval" ELSE runStatus[q]
      PROVE  OneLease(q)'
  <2>1. OneLease(q)
    BY <1>3
  <2>2. IF runAttempt[q] = NoAttempt
        THEN runStatus'[q] \notin Live ELSE runStatus'[q] \in HeldStatus
    BY <1>2, <1>4, <2>1 DEF OneLease, LeaseColumns, Live
  <2>3. QED BY <1>4, <2>1, <2>2, OneLeaseKept
<1>5. ASSUME NEW b \in SUBSET Queued, ParkBlocked(b) PROVE OneLeasedAttempt'
  <2>1. ASSUME NEW q \in Runs PROVE OneLease(q)'
    BY <1>4, <1>5 DEF ParkBlocked, attemptVars
  <2>2. QED BY <2>1 DEF OneLeasedAttempt, OneLease
<1>6. ASSUME NEW b \in SUBSET Queued, NEW r \in routed, AssignAttempt(w, r, b)
      PROVE  OneLeasedAttempt'
  <2>1. r \in Runs /\ r \in Queued /\ lastNumber[r] \in 0..MaxAttempts /\ lastNumber[r] < MaxAttempts
    BY DEF Queued, Eligible, TypeOK
  <2>2. PICK n \in Attempts : n = lastNumber[r] + 1
    BY <2>1, AttemptsFacts
  <2>3. /\ lastNumber' = [lastNumber EXCEPT ![r] = n]
        /\ runAttempt' = [runAttempt EXCEPT ![r] = n]
        /\ attStatus' = [attStatus EXCEPT ![r][n] = "assigned"]
        /\ attRunner' = [attRunner EXCEPT ![r][n] = w]
        /\ attLease' = [attLease EXCEPT ![r][n] = LeaseTicks]
        /\ runStatus' = [q \in Runs |-> IF q = r THEN "assigned"
                                        ELSE IF q \in b THEN "needs_approval" ELSE runStatus[q]]
        /\ runRunner' = [runRunner EXCEPT ![r] = w]
        /\ runLease' = [runLease EXCEPT ![r] = LeaseTicks]
    BY <1>6, <2>2 DEF AssignAttempt
  <2>4. ASSUME NEW q \in Runs \ {r} PROVE OneLease(q)'
    BY <1>4, <2>3, <2>4 DEF TypeOK
  <2>5. LeaseColumns(r)'
    <3>1. /\ runStatus'[r] = "assigned" /\ runRunner'[r] = w /\ runLease'[r] = LeaseTicks
          /\ runAttempt'[r] = n /\ lastNumber'[r] = n
          /\ attRunner'[r][n] = w /\ attLease'[r][n] = LeaseTicks
      BY <2>1, <2>3 DEF TypeOK
    <3>2. n # NoAttempt /\ w # NoRunner /\ LeaseTicks # NoLease
      BY AttemptsFacts, ConstantsAssumption
    <3>3. QED BY <3>1, <3>2 DEF LeaseColumns, HeldStatus
  <2>6. AttemptRows(r)'
    <3>1. \A m \in Attempts : attStatus[r][m] \notin Live /\ (attStatus[r][m] = "none" <=> m > lastNumber[r])
      BY <1>2, <1>3, <2>1, AttemptsFacts DEF OneLease, AttemptRows
    <3>2. ASSUME NEW m \in Attempts
          PROVE  /\ attStatus'[r][m] \in Live <=> runAttempt'[r] = m
                 /\ attStatus'[r][m] = "none" <=> m > lastNumber'[r]
      <4>1. attStatus'[r][m] = IF m = n THEN "assigned" ELSE attStatus[r][m]
        BY <2>1, <2>3 DEF TypeOK
      <4>2. runAttempt'[r] = n /\ lastNumber'[r] = n
        BY <2>1, <2>3 DEF TypeOK
      <4>3. m > n <=> m > lastNumber[r] /\ m # n
        BY <2>1, <2>2, AttemptsFacts
      <4>4. QED BY <3>1, <4>1, <4>2, <4>3, AttemptsFacts DEF Live
    <3>3. QED BY <3>2 DEF AttemptRows
  <2>7. QED BY <2>4, <2>5, <2>6 DEF OneLeasedAttempt, OneLease
<1>7. {r \in seen : Blocked(r, routed)} \in SUBSET Queued
  OBVIOUS
<1>8. QED BY <1>1, <1>5, <1>6, <1>7

\* Admission, recovery and cancellation keep the two tables in agreement.
LEMMA RunOperationsOneLeased ==
  ASSUME TypeOK, OneLeasedAttempt, NEW r \in Runs,
         CreateRun(r) \/ RecoverExpiredLease(r) \/ CancelRun(r) \/ AccessExpires(r)
  PROVE  OneLeasedAttempt'
<1>1. \A q \in Runs : OneLease(q)
  BY DEF OneLeasedAttempt, OneLease
<1>2. SUFFICES ASSUME NEW q \in Runs PROVE OneLease(q)'
  BY DEF OneLeasedAttempt, OneLease
<1>3. CASE CreateRun(r)
  <2>1. IF runAttempt[q] = NoAttempt THEN runStatus'[q] \notin Live ELSE runStatus'[q] \in HeldStatus
    BY <1>1, <1>3 DEF CreateRun, TypeOK, OneLease, LeaseColumns, HeldStatus, Live
  <2>2. QED BY <1>1, <1>3, <2>1, OneLeaseKept DEF CreateRun, attemptVars
<1>4. CASE RecoverExpiredLease(r)
  <2>1. runAttempt[r] # NoAttempt /\ attStatus[r][runAttempt[r]] \in Live
    BY <1>1, <1>4, AttemptsFacts
    DEF RecoverExpiredLease, LeaseExpired, OneLease, LeaseColumns, AttemptRows, TypeOK
  <2>2. /\ attStatus' = [attStatus EXCEPT ![r][runAttempt[r]] = "interrupted"]
        /\ ReleaseRun(r, "queued")
        /\ UNCHANGED <<lastNumber, attRunner, attLease>>
    BY <1>4, <2>1 DEF RecoverExpiredLease
  <2>3. CASE q = r
    <3>1. \A n \in Attempts :
            IF n = runAttempt[q] THEN attStatus'[q][n] \notin Live \cup {"none"}
                                 ELSE attStatus'[q][n] = attStatus[q][n]
      BY <2>2, <2>3 DEF TypeOK, Live
    <3>2. "queued" \in RunStatus \ Live
      BY DEF RunStatus, Live
    <3>3. QED BY <1>1, <2>2, <2>3, <3>1, <3>2, OneLeaseReleased
  <2>4. CASE q # r
    BY <1>1, <2>2, <2>4 DEF ReleaseRun, TypeOK, OneLease, LeaseColumns, AttemptRows
  <2>5. QED BY <2>3, <2>4
<1>5. CASE CancelRun(r)
  <2>1. /\ attStatus' = [attStatus EXCEPT ![r] =
             [m \in Attempts |-> IF m = runAttempt[r] THEN "cancelled" ELSE attStatus[r][m]]]
        /\ ReleaseRun(r, "cancelled")
        /\ UNCHANGED <<lastNumber, attRunner, attLease>>
    BY <1>5 DEF CancelRun
  <2>2. CASE q = r
    <3>1. \A n \in Attempts :
            IF n = runAttempt[q] THEN attStatus'[q][n] \notin Live \cup {"none"}
                                 ELSE attStatus'[q][n] = attStatus[q][n]
      BY <2>1, <2>2 DEF TypeOK, Live
    <3>2. "cancelled" \in RunStatus \ Live
      BY DEF RunStatus, TerminalStatus, Live
    <3>3. QED BY <1>1, <2>1, <2>2, <3>1, <3>2, OneLeaseReleased
  <2>3. CASE q # r
    BY <1>1, <2>1, <2>3 DEF ReleaseRun, TypeOK, OneLease, LeaseColumns, AttemptRows
  <2>4. QED BY <2>2, <2>3
<1>6. CASE AccessExpires(r)
  BY <1>1, <1>6 DEF AccessExpires, runVars, attemptVars, OneLease, LeaseColumns, AttemptRows
<1>7. QED BY <1>3, <1>4, <1>5, <1>6

\* The end of an attempt, reported by its runner.
LEMMA CompleteOneLeased ==
  ASSUME TypeOK, OneLeasedAttempt, NEW r \in Runs, NEW n \in Attempts, NEW c \in AllConclusions,
         ActiveAttemptLease(r, n), Complete(r, n, c), UNCHANGED <<lastNumber, attRunner, attLease>>
  PROVE  OneLeasedAttempt'
<1>1. PICK s \in RunStatus \ Live, a \in AttemptStatus \ (Live \cup {"none"}) :
        s = RunStatusOf(c) /\ a = AttemptStatusOf(c)
  BY ConclusionTypes DEF Live
<1>2. ReleaseRun(r, s) /\ attStatus' = [attStatus EXCEPT ![r][n] = a] /\ runAttempt[r] = n
  BY <1>1 DEF Complete, ActiveAttemptLease
<1>3. ASSUME NEW q \in Runs PROVE OneLease(q)'
  <2>1. OneLease(q)
    BY DEF OneLeasedAttempt, OneLease
  <2>2. CASE q = r
    <3>1. \A m \in Attempts :
            IF m = runAttempt[q] THEN attStatus'[q][m] \notin Live \cup {"none"}
                                 ELSE attStatus'[q][m] = attStatus[q][m]
      BY <1>2, <2>2 DEF TypeOK
    <3>2. QED BY <1>2, <2>1, <2>2, <3>1, OneLeaseReleased
  <2>3. CASE q # r
    BY <1>2, <2>1, <2>3 DEF ReleaseRun, TypeOK, OneLease, LeaseColumns, AttemptRows
  <2>4. QED BY <2>2, <2>3
<1>4. QED BY <1>3 DEF OneLeasedAttempt, OneLease

\* So does everything a runner does with its attempt.
LEMMA AttemptStepOneLeased ==
  ASSUME TypeOK, OneLeasedAttempt, NEW r \in Runs, NEW n \in Attempts, AttemptStep(r, n)
  PROVE  OneLeasedAttempt'
<1>1. \A q \in Runs : OneLease(q)
  BY DEF OneLeasedAttempt, OneLease
<1>2. CASE RunnerStops(r, n)
  BY <1>1, <1>2 DEF RunnerStops, runVars, attemptVars, OneLeasedAttempt, LeaseColumns, AttemptRows
<1>3. CASE RejectAttemptStart(r, n)
  <2>1. /\ attStatus' = [attStatus EXCEPT ![r][n] = "interrupted"]
        /\ ReleaseRun(r, "queued") /\ runAttempt[r] = n
        /\ UNCHANGED <<lastNumber, attRunner, attLease>>
    BY <1>3 DEF RejectAttemptStart, ActiveAttemptLease
  <2>2. "queued" \in RunStatus \ Live
    BY DEF RunStatus, Live
  <2>3. ASSUME NEW q \in Runs PROVE OneLease(q)'
    <3>1. CASE q = r
      <4>1. \A m \in Attempts :
              IF m = runAttempt[q] THEN attStatus'[q][m] \notin Live \cup {"none"}
                                   ELSE attStatus'[q][m] = attStatus[q][m]
        BY <2>1, <3>1 DEF TypeOK, Live
      <4>2. QED BY <1>1, <2>1, <2>2, <3>1, <4>1, OneLeaseReleased
    <3>2. CASE q # r
      BY <1>1, <2>1, <3>2 DEF ReleaseRun, TypeOK, OneLease, LeaseColumns, AttemptRows
    <3>3. QED BY <3>1, <3>2
  <2>4. QED BY <2>3 DEF OneLeasedAttempt, OneLease
<1>4. CASE MarkRunning(r, n)
  <2>1. /\ UNCHANGED <<runRunner, runAttempt, runLease, lastNumber, attRunner, attLease>>
        /\ ActiveAttemptLease(r, n)
        /\ \/ UNCHANGED <<runStatus, attStatus>>
           \/ /\ runStatus' = [runStatus EXCEPT ![r] = "running"]
              /\ attStatus' = [attStatus EXCEPT ![r][n] = "running"]
    BY <1>4 DEF MarkRunning
  <2>2. ASSUME NEW q \in Runs,
               runStatus' = [runStatus EXCEPT ![r] = "running"],
               attStatus' = [attStatus EXCEPT ![r][n] = "running"]
        PROVE  OneLease(q)'
    <3>1. \A m \in Attempts : /\ attStatus'[q][m] \in Live <=> attStatus[q][m] \in Live
                              /\ attStatus'[q][m] = "none" <=> attStatus[q][m] = "none"
      BY <2>1, <2>2 DEF ActiveAttemptLease, TypeOK, Live
    <3>2. IF runAttempt[q] = NoAttempt
          THEN runStatus'[q] \notin Live ELSE runStatus'[q] \in HeldStatus
      <4>1. runAttempt[r] # NoAttempt
        BY <2>1, AttemptsFacts DEF ActiveAttemptLease
      <4>2. QED BY <1>1, <2>2, <4>1 DEF TypeOK, OneLease, LeaseColumns, HeldStatus
    <3>3. /\ OneLease(q)
          /\ UNCHANGED <<runRunner[q], runAttempt[q], runLease[q], lastNumber[q],
                         attRunner[q], attLease[q]>>
      BY <1>1, <2>1
    <3>4. QED BY <3>1, <3>2, <3>3, OneLeaseKept
  <2>3. CASE UNCHANGED <<runStatus, attStatus>>
    BY <1>1, <2>1, <2>3 DEF OneLeasedAttempt, LeaseColumns, AttemptRows
  <2>4. QED BY <2>1, <2>2, <2>3 DEF OneLeasedAttempt, OneLease
<1>5. CASE Heartbeat(r, n)
  <2>1. /\ runAttempt[r] = n /\ n # NoAttempt /\ LeaseTicks # NoLease
        /\ runLease' = [runLease EXCEPT ![r] = LeaseTicks]
        /\ attLease' = [attLease EXCEPT ![r][n] = LeaseTicks]
        /\ UNCHANGED <<runStatus, runRunner, runAttempt, lastNumber, attStatus, attRunner>>
    BY <1>5, AttemptsFacts, ConstantsAssumption DEF Heartbeat, Executing, ActiveAttemptLease
  <2>2. ASSUME NEW q \in Runs PROVE LeaseColumns(q)'
    <3>1. CASE q = r
      <4>1. runLease'[q] = LeaseTicks /\ attLease'[q][n] = LeaseTicks
        BY <2>1, <3>1 DEF TypeOK
      <4>2. QED BY <1>1, <2>1, <3>1, <4>1 DEF OneLease, LeaseColumns
    <3>2. CASE q # r
      BY <1>1, <2>1, <3>2 DEF TypeOK, OneLease, LeaseColumns
    <3>3. QED BY <3>1, <3>2
  <2>3. QED BY <1>1, <2>1, <2>2 DEF OneLeasedAttempt, OneLease, AttemptRows
<1>6. ASSUME NEW c \in Conclusions, CompleteRun(r, n, c) PROVE OneLeasedAttempt'
  BY <1>6, ConstantsAssumption, CompleteOneLeased DEF CompleteRun, AcceptsCompletion
<1>7. CASE RunTimesOut(r, n)
  <2>1. UNCHANGED <<lastNumber, attRunner, attLease>>
    BY <1>7 DEF RunTimesOut
  <2>2. CASE AcceptsCompletion(r, n) /\ Complete(r, n, "timed_out")
    BY <2>1, <2>2, CompleteOneLeased DEF AcceptsCompletion, AllConclusions
  <2>3. CASE UNCHANGED <<runVars, attStatus, actionStatus>>
    BY <1>1, <2>1, <2>3 DEF runVars, OneLeasedAttempt, LeaseColumns, AttemptRows
  <2>4. QED BY <1>7, <2>2, <2>3 DEF RunTimesOut
<1>8. QED BY <1>2, <1>3, <1>4, <1>5, <1>6, <1>7 DEF AttemptStep

\* Permissions park and resume a run in the hands of its attempt, and touch no
\* lease.
LEMMA ActionStepOneLeased ==
  ASSUME TypeOK, OneLeasedAttempt, NEW r \in Runs, NEW n \in Attempts, NEW k \in Keys,
         ActionStep(r, n, k)
  PROVE  OneLeasedAttempt'
<1> USE DEF unchangedByPermission
<1>1. /\ UNCHANGED <<runRunner, runAttempt, runLease, lastNumber, attStatus, attRunner, attLease>>
      /\ \/ UNCHANGED runStatus
         \/ /\ ActiveAttemptLease(r, n)
            /\ \E s \in {"running", "needs_approval"} : runStatus' = [runStatus EXCEPT ![r] = s]
  <2>1. ASSUME NEW mode \in ApprovalModes, RequestNewAction(r, n, k, mode) PROVE <1>1!:
    BY <2>1 DEF RequestNewAction, Executing, attemptVars
  <2>2. CASE RequestReleasedAction(r, n, k)
    BY <2>2 DEF RequestReleasedAction, attemptVars
  <2>3. CASE RequestDriftedAction(r, n, k)
    BY <2>3 DEF RequestDriftedAction, ResumeRun, Executing, attemptVars
  <2>4. ASSUME NEW d \in Decisions, RecordApprovalDecision(r, n, k, d) PROVE <1>1!:
    BY <2>4 DEF RecordApprovalDecision, runVars, attemptVars
  <2>5. CASE ResolveActionPermission(r, n, k)
    BY <2>5 DEF ResolveActionPermission, ResumeRun, Executing, attemptVars
  <2>6. ASSUME NEW o, RecordMaterialActionReceipt(r, n, k, o) PROVE <1>1!:
    BY <2>6 DEF RecordMaterialActionReceipt, attemptVars
  <2>7. ASSUME NEW o, ReconcileUnknownMaterialAction(r, n, k, o) PROVE <1>1!:
    BY <2>7 DEF ReconcileUnknownMaterialAction, attemptVars
  <2>8. QED BY <2>1, <2>2, <2>3, <2>4, <2>5, <2>6, <2>7 DEF ActionStep
<1>2. ASSUME NEW q \in Runs PROVE OneLease(q)'
  <2>1. OneLease(q)
    BY DEF OneLeasedAttempt, OneLease
  <2>2. IF runAttempt[q] = NoAttempt
        THEN runStatus'[q] \notin Live ELSE runStatus'[q] \in HeldStatus
    <3>1. CASE UNCHANGED runStatus
      BY <2>1, <3>1 DEF OneLease, LeaseColumns
    <3>2. ASSUME NEW s \in {"running", "needs_approval"}, ActiveAttemptLease(r, n),
                 runStatus' = [runStatus EXCEPT ![r] = s]
          PROVE  <2>2
      BY <2>1, <3>2, AttemptsFacts DEF OneLease, LeaseColumns, ActiveAttemptLease, HeldStatus, TypeOK
    <3>3. QED BY <1>1, <3>1, <3>2
  <2>3. QED BY <1>1, <2>1, <2>2, OneLeaseKept
<1>3. QED BY <1>2 DEF OneLeasedAttempt, OneLease

\* Every step of the store keeps at most one leased attempt per run.
LEMMA NextOneLeased == TypeOK /\ OneLeasedAttempt /\ [Next]_vars => OneLeasedAttempt'
<1> SUFFICES ASSUME TypeOK, OneLeasedAttempt, [Next]_vars PROVE OneLeasedAttempt'
  OBVIOUS
<1>1. CASE UNCHANGED vars
  BY <1>1 DEF vars, runVars, attemptVars, OneLeasedAttempt, LeaseColumns, AttemptRows
<1>2. CASE Next
  BY <1>2, TickOneLeased, ClaimOneLeased, RunOperationsOneLeased, AttemptStepOneLeased,
     ActionStepOneLeased
  DEF Next, RunStep
<1>3. QED BY <1>1, <1>2

-----------------------------------------------------------------------------

\* Every reachable state holds values of the declared types.  That a refused
\* runner is a real one needs OneLeasedAttempt: RejectAttemptStart copies it
\* from the attempt's row.
THEOREM TypeCorrect == Spec => []TypeOK
<1>1. Init => TypeOK /\ OneLeasedAttempt
  BY InitTypeOK, InitOneLeased
<1>2. TypeOK /\ OneLeasedAttempt /\ [Next]_vars => (TypeOK /\ OneLeasedAttempt)'
  BY NextTypeOK, NextOneLeased
<1>3. QED BY <1>1, <1>2, PTL DEF Spec

\* The run row and the attempts table never disagree: a run is leased to its
\* newest attempt or to none, whoever calls the store, in any order.
THEOREM LeaseCorrect == Spec => []OneLeasedAttempt
<1>1. Init => TypeOK /\ OneLeasedAttempt
  BY InitTypeOK, InitOneLeased
<1>2. TypeOK /\ OneLeasedAttempt /\ [Next]_vars => (TypeOK /\ OneLeasedAttempt)'
  BY NextTypeOK, NextOneLeased
<1>3. QED BY <1>1, <1>2, PTL DEF Spec

=============================================================================
