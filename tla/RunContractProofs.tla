-------------------------- MODULE RunContractProofs --------------------------
(* The run ledger keeps what is over, implements the contract of a run, and    *)
(* keeps the limits: the capacity of a runner and the attempt budgets of a     *)
(* factory workstream.  Nothing is assumed about how many runs there are: what *)
(* the limits count is finite because it grows by one run or one attempt at a  *)
(* time.                                                                       *)
EXTENDS RunActionProofs, FiniteSetTheorems

USE DEF NoLease, NoAttempt

-----------------------------------------------------------------------------
(* What is over stays over *)

\* The steps on r's row and attempts: a status is left only from a state that is
\* not over, and only a live or a new attempt changes.
RowStep(r) ==
  /\ runStatus[r] \in TerminalStatus => runStatus'[r] = runStatus[r] /\ lastNumber'[r] = lastNumber[r]
  /\ \A n \in Attempts : attStatus[r][n] \notin Live \cup {"none"} => attStatus'[r][n] = attStatus[r][n]

\* A step of an attempt that holds r writes that attempt, and leaves the others.
LEMMA HolderRowStep ==
  ASSUME TypeOK, OneLeasedAttempt, NEW r \in Runs, NEW n \in Attempts, runAttempt[r] = n,
         UNCHANGED lastNumber,
         NEW s, runStatus' = [runStatus EXCEPT ![r] = s] \/ UNCHANGED runStatus,
         NEW a, attStatus' = [attStatus EXCEPT ![r][n] = a] \/ UNCHANGED attStatus,
         NEW q \in Runs
  PROVE  RowStep(q)
<1>1. runStatus[r] \in HeldStatus /\ attStatus[r][n] \in Live
  BY AttemptsFacts DEF OneLeasedAttempt, LeaseColumns, AttemptRows
<1>2. \A p \in Runs : p # r => runStatus'[p] = runStatus[p]
  BY DEF TypeOK
<1>3. \A p \in Runs, m \in Attempts : ~(p = r /\ m = n) => attStatus'[p][m] = attStatus[p][m]
  BY DEF TypeOK
<1>4. runStatus[r] \notin TerminalStatus
  BY <1>1 DEF HeldStatus, TerminalStatus
<1> QED BY <1>1, <1>2, <1>3, <1>4 DEF RowStep

LEMMA RowSteps ==
  ASSUME TypeOK, OneLeasedAttempt, [Next]_vars, NEW q \in Runs
  PROVE  RowStep(q)
<1>1. CASE UNCHANGED <<runStatus, lastNumber, attStatus>>
  BY <1>1 DEF RowStep
<1>2. ASSUME NEW r \in Runs, NEW n \in Attempts, NEW c, ActiveAttemptLease(r, n), Complete(r, n, c),
             UNCHANGED lastNumber
      PROVE  RowStep(q)
  <2>1. /\ runStatus' = [runStatus EXCEPT ![r] = RunStatusOf(c)] /\ runAttempt[r] = n
        /\ attStatus' = [attStatus EXCEPT ![r][n] = AttemptStatusOf(c)]
    BY <1>2 DEF Complete, ReleaseRun, ActiveAttemptLease
  <2> QED BY <1>2, <2>1, HolderRowStep
<1>3. ASSUME NEW r \in Runs, NEW n \in Attempts, AttemptStep(r, n) PROVE RowStep(q)
  <2>1. CASE RunnerStops(r, n) \/ Heartbeat(r, n)
    BY <1>1, <2>1 DEF RunnerStops, Heartbeat, runVars, attemptVars
  <2>2. CASE RejectAttemptStart(r, n)
    <3>1. /\ runStatus' = [runStatus EXCEPT ![r] = "queued"] /\ runAttempt[r] = n
          /\ attStatus' = [attStatus EXCEPT ![r][n] = "interrupted"] /\ UNCHANGED lastNumber
      BY <2>2 DEF RejectAttemptStart, ReleaseRun, ActiveAttemptLease
    <3> QED BY <3>1, HolderRowStep
  <2>3. CASE MarkRunning(r, n)
    <3>1. /\ runStatus' = [runStatus EXCEPT ![r] = "running"] \/ UNCHANGED runStatus
          /\ attStatus' = [attStatus EXCEPT ![r][n] = "running"] \/ UNCHANGED attStatus
          /\ runAttempt[r] = n /\ UNCHANGED lastNumber
      BY <2>3 DEF MarkRunning, ActiveAttemptLease
    <3> QED BY <3>1, HolderRowStep
  <2>4. ASSUME NEW c \in Conclusions, CompleteRun(r, n, c) PROVE RowStep(q)
    BY <1>2, <2>4 DEF CompleteRun, AcceptsCompletion
  <2>5. CASE RunTimesOut(r, n)
    BY <1>1, <1>2, <2>5 DEF RunTimesOut, AcceptsCompletion, runVars
  <2> QED BY <1>3, <2>1, <2>2, <2>3, <2>4, <2>5 DEF AttemptStep
<1>4. ASSUME NEW r \in Runs, NEW n \in Attempts, NEW k \in Keys, ActionStep(r, n, k) PROVE RowStep(q)
  <2>1. UNCHANGED <<lastNumber, attStatus>>
    BY <1>4 DEF ActionStep, RequestNewAction, RequestReleasedAction, RequestDriftedAction,
                RecordApprovalDecision, ResolveActionPermission, RecordMaterialActionReceipt,
                ReconcileUnknownMaterialAction, unchangedByPermission, attemptVars
  <2>2. CASE UNCHANGED runStatus
    BY <1>1, <2>1, <2>2
  <2>3. CASE runStatus' # runStatus
    <3>1. runAttempt[r] = n /\ \E s : runStatus' = [runStatus EXCEPT ![r] = s]
      BY <1>4, <2>3 DEF ActionStep, RequestNewAction, RequestReleasedAction, RequestDriftedAction,
                RecordApprovalDecision, ResolveActionPermission, RecordMaterialActionReceipt,
                ReconcileUnknownMaterialAction, ResumeRun, runVars, Executing, ActiveAttemptLease
    <3> QED BY <2>1, <3>1, HolderRowStep
  <2> QED BY <2>2, <2>3
<1>5. ASSUME NEW r \in Runs, CreateRun(r) PROVE RowStep(q)
  BY <1>5 DEF CreateRun, attemptVars, RowStep, TypeOK, TerminalStatus
<1>6. ASSUME NEW r \in Runs, RecoverExpiredLease(r) PROVE RowStep(q)
  <2>1. runAttempt[r] \in Attempts
    <3>1. runAttempt[r] # NoAttempt
      BY <1>6 DEF RecoverExpiredLease, LeaseExpired, OneLeasedAttempt, LeaseColumns
    <3> QED BY <3>1, AttemptsFacts DEF TypeOK
  <2>2. /\ \E a : attStatus' = [attStatus EXCEPT ![r][runAttempt[r]] = a]
        /\ runStatus' = [runStatus EXCEPT ![r] = "queued"] /\ UNCHANGED lastNumber
    BY <1>6 DEF RecoverExpiredLease, ReleaseRun
  <2> QED BY <2>1, <2>2, HolderRowStep
<1>7. ASSUME NEW r \in Runs, CancelRun(r) PROVE RowStep(q)
  <2>1. /\ attStatus' = [attStatus EXCEPT ![r] =
             [m \in Attempts |-> IF m = runAttempt[r] THEN "cancelled" ELSE attStatus[r][m]]]
        /\ runStatus' = [runStatus EXCEPT ![r] = "cancelled"] /\ UNCHANGED lastNumber
        /\ runStatus[r] \notin TerminalStatus
    BY <1>7 DEF CancelRun, ReleaseRun, Cancellable, HeldStatus, TerminalStatus
  <2>2. \A m \in Attempts : m = runAttempt[r] => attStatus[r][m] \in Live
    BY DEF OneLeasedAttempt, AttemptRows
  <2> QED BY <2>1, <2>2 DEF RowStep, TypeOK
<1>8. ASSUME NEW w \in Runners, ClaimNextRun(w) PROVE RowStep(q)
  <2>1. \A p \in Queued : p \in Runs /\ runStatus[p] \notin TerminalStatus
    BY DEF Queued, TerminalStatus
  <2>2. PICK b \in SUBSET Queued :
          ParkBlocked(b) \/ \E r \in Queued : lastNumber[r] < MaxAttempts /\ AssignAttempt(w, r, b)
    <3>1. PICK routed \in SUBSET {r \in Queued : Eligible(r, w)}, seen \in SUBSET Queued :
            LET blocked == {r \in seen : Blocked(r, routed)} IN
            ParkBlocked(blocked) \/ \E r \in routed : Claimable(r, routed) /\ AssignAttempt(w, r, blocked)
      BY <1>8 DEF ClaimNextRun
    <3>2. {r \in seen : Blocked(r, routed)} \in SUBSET Queued
      OBVIOUS
    <3> QED BY <3>1, <3>2 DEF Eligible
  <2>3. CASE ParkBlocked(b)
    BY <2>1, <2>3 DEF ParkBlocked, attemptVars, RowStep
  <2>4. ASSUME NEW r \in Queued, lastNumber[r] < MaxAttempts, AssignAttempt(w, r, b) PROVE RowStep(q)
    <3>1. PICK n \in Attempts : n = lastNumber[r] + 1
      BY <2>1, <2>4, AttemptsFacts DEF TypeOK
    <3>2. attStatus[r][n] = "none"
      <4>1. n > lastNumber[r]
        BY <2>1, <3>1 DEF TypeOK
      <4> QED BY <2>1, <4>1 DEF OneLeasedAttempt, AttemptRows
    <3>3. /\ lastNumber' = [lastNumber EXCEPT ![r] = n]
          /\ attStatus' = [attStatus EXCEPT ![r][n] = "assigned"]
          /\ runStatus' = [p \in Runs |-> IF p = r THEN "assigned"
                                          ELSE IF p \in b THEN "needs_approval" ELSE runStatus[p]]
      BY <2>4, <3>1 DEF AssignAttempt
    <3> QED BY <2>1, <3>2, <3>3 DEF RowStep, TypeOK
  <2> QED BY <2>2, <2>3, <2>4
<1>9. CASE Tick \/ (\E r \in Runs : AccessExpires(r)) \/ UNCHANGED vars
  BY <1>1, <1>9 DEF Tick, AccessExpires, vars, runVars, attemptVars
<1> QED BY <1>3, <1>4, <1>5, <1>6, <1>7, <1>8, <1>9 DEF Next, RunStep

\* What a settled action or a recorded decision is, it stays.
FinalStep ==
  \A r \in Runs :
    /\ runStatus[r] \in TerminalStatus =>
         runStatus'[r] = runStatus[r] /\ lastNumber'[r] = lastNumber[r]
    /\ \A n \in Attempts :
         /\ attStatus[r][n] \notin Live \cup {"none"} => attStatus'[r][n] = attStatus[r][n]
         /\ \A k \in Keys :
              /\ actionStatus[r][n][k] \in {"succeeded", "failed", "cancelled"} =>
                   actionStatus'[r][n][k] = actionStatus[r][n][k]
              /\ decision[r][n][k] # Undecided => decision'[r][n][k] = decision[r][n][k]

LEMMA FinalSteps == LedgerInv /\ [Next]_vars => FinalStep
<1> SUFFICES ASSUME LedgerInv, [Next]_vars PROVE FinalStep
  OBVIOUS
<1>1. TypeOK /\ OneLeasedAttempt /\ AskedAfterStart /\ SupersededCancelled
  BY DEF LedgerInv, ActionInv
<1>2. \A r \in Runs : RowStep(r)
  BY <1>1, RowSteps
<1>3. \A r \in Runs, n \in Attempts, k \in Keys :
        decision[r][n][k] # Undecided => decision'[r][n][k] = decision[r][n][k]
  BY <1>1, DecisionsStay
<1>4. ASSUME NEW r \in Runs, NEW n \in Attempts, NEW k \in Keys,
             actionStatus[r][n][k] \in {"succeeded", "failed", "cancelled"}
      PROVE  actionStatus'[r][n][k] = actionStatus[r][n][k]
  <2>1. CASE QuietStep
    BY <1>4, <2>1 DEF QuietStep, Moves
  <2>2. ASSUME NEW q \in Runs, NEW m \in Attempts, NEW j \in Keys, ActionShape(q, m, j)
        PROVE  actionStatus'[r][n][k] = actionStatus[r][n][k]
    BY <1>4, <2>2
    DEF ActionShape, AskStep, ReleaseStep, AllowStep, DecisionStep, Fresh, Decided, Becomes
  <2> QED BY <1>1, <2>1, <2>2, NextShape
<1> QED BY <1>2, <1>3, <1>4 DEF FinalStep, RowStep

\* What is over stays over: no step leaves a terminal run status, revives an
\* ended attempt, re-opens a settled action or changes a recorded decision.
THEOREM OverStaysOver == Spec => FinalStays
<1>1. LedgerInv /\ [Next]_vars => FinalStep
  BY FinalSteps
<1> QED BY <1>1, LedgerInvariant, PTL DEF Spec, FinalStays, FinalStep

-----------------------------------------------------------------------------
(* The contract of a run *)

OutcomeOf == [r \in Runs |-> IF runStatus[r] \in TerminalStatus THEN runStatus[r] ELSE "open"]
PerformedBy == [r \in Runs |-> Performed(r)]

\* What a step may do to the columns the contract speaks of: nothing, grant a
\* free run, give it back, or close it.
KeepsRows == UNCHANGED <<runAttempt, lastNumber, OutcomeOf>>
GrantsRow(r) ==
  /\ runStatus[r] \notin TerminalStatus /\ runAttempt[r] = NoAttempt
  /\ lastNumber' = [lastNumber EXCEPT ![r] = @ + 1]
  /\ runAttempt' = [runAttempt EXCEPT ![r] = lastNumber'[r]]
  /\ UNCHANGED OutcomeOf
ReleasesRow(r) ==
  /\ runAttempt[r] # NoAttempt
  /\ runAttempt' = [runAttempt EXCEPT ![r] = NoAttempt]
  /\ UNCHANGED <<lastNumber, OutcomeOf>>
ClosesRow(r) ==
  /\ runStatus[r] \notin TerminalStatus
  /\ runAttempt' = [runAttempt EXCEPT ![r] = NoAttempt]
  /\ UNCHANGED lastNumber
  /\ \E o \in TerminalStatus : OutcomeOf' = [OutcomeOf EXCEPT ![r] = o]

\* A run moves between statuses none of which is terminal.
LEMMA OutcomeKept ==
  ASSUME \A q \in Runs : \/ runStatus'[q] = runStatus[q]
                          \/ {runStatus[q], runStatus'[q]} \cap TerminalStatus = {}
  PROVE  UNCHANGED OutcomeOf
BY DEF OutcomeOf

\* Whatever a held run's row is written with, its outcome is kept or closed.
LEMMA ReleasedOrClosed ==
  ASSUME TypeOK, OneLeasedAttempt, NEW r \in Runs, NEW s \in RunStatus, ReleaseRun(r, s),
         UNCHANGED lastNumber, runAttempt[r] # NoAttempt
  PROVE  ReleasesRow(r) \/ ClosesRow(r)
<1>1. runStatus[r] \notin TerminalStatus
  BY DEF OneLeasedAttempt, LeaseColumns, HeldStatus, TerminalStatus
<1>2. runAttempt' = [runAttempt EXCEPT ![r] = NoAttempt]
  BY DEF ReleaseRun
<1>3. \A q \in Runs : runStatus'[q] = IF q = r THEN s ELSE runStatus[q]
  BY ReleaseRunValues
<1>4. CASE s \in TerminalStatus
  <2>1. OutcomeOf' = [OutcomeOf EXCEPT ![r] = s]
    BY <1>3, <1>4 DEF OutcomeOf
  <2> QED BY <1>1, <1>2, <1>4, <2>1 DEF ClosesRow
<1>5. CASE s \notin TerminalStatus
  BY <1>1, <1>2, <1>3, <1>5, OutcomeKept DEF ReleasesRow
<1> QED BY <1>4, <1>5

\* Whatever becomes of an action, the run is held as before, and not closed.
LEMMA ActionStepRows ==
  ASSUME TypeOK, OneLeasedAttempt, NEW r \in Runs, NEW n \in Attempts, NEW k \in Keys, ActionStep(r, n, k)
  PROVE  KeepsRows
<1>1. UNCHANGED <<runAttempt, lastNumber>>
  BY DEF ActionStep, RequestNewAction, RequestReleasedAction, RequestDriftedAction,
         RecordApprovalDecision, ResolveActionPermission, RecordMaterialActionReceipt,
         ReconcileUnknownMaterialAction, unchangedByPermission, attemptVars, runVars
<1>2. \/ UNCHANGED runStatus
      \/ /\ runAttempt[r] = n
         /\ \E s \in {"running", "needs_approval"} : runStatus' = [runStatus EXCEPT ![r] = s]
  BY DEF ActionStep, RequestNewAction, RequestReleasedAction, RequestDriftedAction,
         RecordApprovalDecision, ResolveActionPermission, RecordMaterialActionReceipt,
         ReconcileUnknownMaterialAction, ResumeRun, runVars, Executing, ActiveAttemptLease
<1>3. runAttempt[r] = n => runStatus[r] \notin TerminalStatus
  BY AttemptsFacts DEF OneLeasedAttempt, LeaseColumns, HeldStatus, TerminalStatus
<1>4. \A s \in {"running", "needs_approval"} : s \notin TerminalStatus
  BY DEF TerminalStatus
<1>5. \A q \in Runs : \/ runStatus'[q] = runStatus[q]
                      \/ {runStatus[q], runStatus'[q]} \cap TerminalStatus = {}
  BY <1>2, <1>3, <1>4 DEF TypeOK
<1> QED BY <1>1, <1>5, OutcomeKept DEF KeepsRows

LEMMA RowsShape ==
  ASSUME TypeOK, OneLeasedAttempt, [Next]_vars
  PROVE  KeepsRows \/ \E r \in Runs : GrantsRow(r) \/ ReleasesRow(r) \/ ClosesRow(r)
<1>1. ASSUME UNCHANGED <<runStatus, runAttempt, lastNumber>> PROVE KeepsRows
  BY <1>1, OutcomeKept DEF KeepsRows
<1>2. ASSUME NEW r \in Runs, runStatus[r] \notin TerminalStatus, NEW s \in RunStatus \ TerminalStatus,
             runStatus' = [runStatus EXCEPT ![r] = s], UNCHANGED <<runAttempt, lastNumber>>
      PROVE  KeepsRows
  BY <1>2, OutcomeKept DEF KeepsRows, TypeOK
<1>3. \A q \in Runs : runAttempt[q] # NoAttempt => runStatus[q] \notin TerminalStatus
  BY DEF OneLeasedAttempt, LeaseColumns, HeldStatus, TerminalStatus
<1>4. {"queued", "running", "needs_approval"} \subseteq RunStatus \ TerminalStatus
      /\ "cancelled" \in RunStatus
  BY DEF RunStatus, HeldStatus, TerminalStatus
<1>5. ASSUME NEW r \in Runs, NEW n \in Attempts, NEW c \in AllConclusions,
             ActiveAttemptLease(r, n), Complete(r, n, c), UNCHANGED lastNumber
      PROVE  ReleasesRow(r) \/ ClosesRow(r)
  <2>1. RunStatusOf(c) \in RunStatus /\ runAttempt[r] # NoAttempt
    BY <1>5, ConclusionTypes, AttemptsFacts DEF ActiveAttemptLease
  <2> QED BY <1>5, <2>1, ReleasedOrClosed DEF Complete
<1>6. ASSUME NEW r \in Runs, NEW n \in Attempts, AttemptStep(r, n)
      PROVE  KeepsRows \/ ReleasesRow(r) \/ ClosesRow(r)
  <2>1. CASE RunnerStops(r, n) \/ Heartbeat(r, n)
    BY <1>1, <2>1 DEF RunnerStops, Heartbeat, runVars, attemptVars
  <2>2. CASE RejectAttemptStart(r, n)
    <3>1. runAttempt[r] # NoAttempt
      BY <2>2, AttemptsFacts DEF RejectAttemptStart, ActiveAttemptLease
    <3> QED BY <1>4, <2>2, <3>1, ReleasedOrClosed DEF RejectAttemptStart
  <2>3. CASE MarkRunning(r, n)
    <3>1. runStatus[r] \notin TerminalStatus
      BY <1>3, <2>3, AttemptsFacts DEF MarkRunning, ActiveAttemptLease
    <3>2. /\ runStatus' = [runStatus EXCEPT ![r] = "running"] \/ UNCHANGED runStatus
          /\ UNCHANGED <<runAttempt, lastNumber>>
      BY <2>3 DEF MarkRunning
    <3> QED BY <1>1, <1>2, <1>4, <3>1, <3>2
  <2>4. ASSUME NEW c \in Conclusions, CompleteRun(r, n, c) PROVE ReleasesRow(r) \/ ClosesRow(r)
    BY <1>5, <2>4, ConstantsAssumption DEF CompleteRun, AcceptsCompletion
  <2>5. CASE RunTimesOut(r, n)
    BY <1>1, <1>5, <2>5 DEF RunTimesOut, AcceptsCompletion, runVars, AllConclusions
  <2> QED BY <1>6, <2>1, <2>2, <2>3, <2>4, <2>5 DEF AttemptStep
<1>7. ASSUME NEW r \in Runs, NEW n \in Attempts, NEW k \in Keys, ActionStep(r, n, k) PROVE KeepsRows
  BY <1>7, ActionStepRows
<1>8. ASSUME NEW r \in Runs, CreateRun(r) PROVE KeepsRows
  BY <1>2, <1>4, <1>8 DEF CreateRun, attemptVars, TerminalStatus
<1>9. ASSUME NEW r \in Runs, RecoverExpiredLease(r) PROVE ReleasesRow(r) \/ ClosesRow(r)
  <2>1. runAttempt[r] # NoAttempt
    BY <1>9 DEF RecoverExpiredLease, LeaseExpired, OneLeasedAttempt, LeaseColumns
  <2> QED BY <1>4, <1>9, <2>1, ReleasedOrClosed DEF RecoverExpiredLease
<1>10. ASSUME NEW r \in Runs, CancelRun(r) PROVE ClosesRow(r)
  <2>1. /\ runAttempt' = [runAttempt EXCEPT ![r] = NoAttempt] /\ UNCHANGED lastNumber
        /\ runStatus' = [runStatus EXCEPT ![r] = "cancelled"]
        /\ runStatus[r] \notin TerminalStatus
    BY <1>10 DEF CancelRun, ReleaseRun, Cancellable, HeldStatus, TerminalStatus
  <2>2. "cancelled" \in TerminalStatus /\ OutcomeOf' = [OutcomeOf EXCEPT ![r] = "cancelled"]
    BY <2>1 DEF OutcomeOf, TypeOK, TerminalStatus
  <2> QED BY <2>1, <2>2 DEF ClosesRow
<1>11. ASSUME NEW w \in Runners, ClaimNextRun(w)
       PROVE  KeepsRows \/ \E r \in Runs : GrantsRow(r)
  <2>1. \A p \in Queued : p \in Runs /\ runStatus[p] \notin TerminalStatus /\ runAttempt[p] = NoAttempt
    BY DEF Queued, TerminalStatus, OneLeasedAttempt, LeaseColumns, HeldStatus
  <2>2. PICK b \in SUBSET Queued : ParkBlocked(b) \/ \E r \in Queued : AssignAttempt(w, r, b)
    <3>1. PICK routed \in SUBSET {r \in Queued : Eligible(r, w)}, seen \in SUBSET Queued :
            LET blocked == {r \in seen : Blocked(r, routed)} IN
            ParkBlocked(blocked) \/ \E r \in routed : Claimable(r, routed) /\ AssignAttempt(w, r, blocked)
      BY <1>11 DEF ClaimNextRun
    <3>2. {r \in seen : Blocked(r, routed)} \in SUBSET Queued
      OBVIOUS
    <3> QED BY <3>1, <3>2
  <2>3. \A s \in {"assigned", "needs_approval"} : s \notin TerminalStatus
    BY DEF TerminalStatus
  <2>4. CASE ParkBlocked(b)
    BY <2>1, <2>3, <2>4, OutcomeKept DEF ParkBlocked, attemptVars, KeepsRows
  <2>5. ASSUME NEW r \in Queued, AssignAttempt(w, r, b) PROVE GrantsRow(r)
    <3>1. /\ lastNumber' = [lastNumber EXCEPT ![r] = @ + 1]
          /\ runAttempt' = [runAttempt EXCEPT ![r] = lastNumber[r] + 1]
          /\ runStatus' = [p \in Runs |-> IF p = r THEN "assigned"
                                          ELSE IF p \in b THEN "needs_approval" ELSE runStatus[p]]
      BY <2>5 DEF AssignAttempt
    <3>2. lastNumber'[r] = lastNumber[r] + 1
      BY <2>1, <3>1 DEF TypeOK
    <3> QED BY <2>1, <2>3, <3>1, <3>2, OutcomeKept DEF GrantsRow
  <2> QED BY <2>1, <2>2, <2>4, <2>5
<1>12. CASE Tick \/ (\E r \in Runs : AccessExpires(r)) \/ UNCHANGED vars
  BY <1>1, <1>12 DEF Tick, AccessExpires, vars, runVars, attemptVars
<1> QED BY <1>6, <1>7, <1>8, <1>9, <1>10, <1>11, <1>12 DEF Next, RunStep

\* What is let loose: nothing of what the contract counts, or one action of the
\* holder's, for the first time, by a step that leaves the rows alone.
PerformsOne(r, n, k) ==
  /\ runAttempt[r] = n /\ k \in Material \ OneShotKeys
  /\ \A p \in Performed(r) : p[1] # k
  /\ PerformedBy' = [PerformedBy EXCEPT ![r] = @ \cup {<<k, n>>}]
  /\ KeepsRows

LEMMA PerformedKept ==
  ASSUME \A r \in Runs, n \in Attempts, k \in Material \ OneShotKeys :
           released'[r][n][k] = released[r][n][k]
  PROVE  UNCHANGED PerformedBy
BY DEF PerformedBy, Performed

LEMMA PerformedShape ==
  ASSUME LedgerInv, ReleaseInv, [Next]_vars
  PROVE  UNCHANGED PerformedBy \/ \E r \in Runs, n \in Attempts, k \in Keys : PerformsOne(r, n, k)
<1>1. TypeOK /\ OneLeasedAttempt /\ AskedAfterStart /\ SupersededCancelled
  BY DEF LedgerInv, ActionInv
<1>2. ASSUME UNCHANGED released PROVE UNCHANGED PerformedBy
  BY <1>2, PerformedKept
<1>3. ASSUME NEW r \in Runs, NEW n \in Attempts, NEW k \in Keys, ReleaseStep(r, n, k), KeepsRows
      PROVE  UNCHANGED PerformedBy \/ PerformsOne(r, n, k)
  <2>1. \A q \in Runs, m \in Attempts, j \in Keys :
          released'[q][m][j] = IF q = r /\ m = n /\ j = k THEN released[q][m][j] + 1 ELSE released[q][m][j]
    BY <1>3 DEF ReleaseStep
  <2>2. CASE k \in OneShotKeys
    BY <2>1, <2>2, PerformedKept DEF Material
  <2>3. CASE k \notin OneShotKeys
    <3>1. k \in Material /\ \A m \in Attempts : released[r][m][k] = 0
      BY <1>3, <2>3, ReleasedFresh DEF ReleaseInv
    <3>2. runAttempt[r] = n
      BY <1>3 DEF ReleaseStep, Executing, ActiveAttemptLease
    <3>3. \A p \in Performed(r) : p[1] # k
      BY <3>1 DEF Performed
    <3>4. \A q \in Runs, m \in Attempts, j \in Material \ OneShotKeys :
            released'[q][m][j] > 0 <=> (released[q][m][j] > 0 \/ (q = r /\ m = n /\ j = k))
      BY <2>1, <3>1 DEF Material
    <3>5. \A q \in Runs : Performed(q)' = IF q = r THEN Performed(q) \cup {<<k, n>>} ELSE Performed(q)
      BY <2>3, <3>1, <3>4 DEF Performed
    <3>6. PerformedBy' = [PerformedBy EXCEPT ![r] = @ \cup {<<k, n>>}]
      BY <3>5 DEF PerformedBy
    <3> QED BY <1>3, <2>3, <3>1, <3>2, <3>3, <3>6 DEF PerformsOne
  <2> QED BY <2>2, <2>3
<1>4. ASSUME NEW r \in Runs, NEW n \in Attempts, NEW k \in Keys, ActionStep(r, n, k)
      PROVE  UNCHANGED PerformedBy \/ PerformsOne(r, n, k)
  <2>1. KeepsRows
    BY <1>1, <1>4, ActionStepRows
  <2>2. UNCHANGED released \/ ReleaseStep(r, n, k)
    BY <1>1, <1>4, ActionStepShape DEF QuietStep, ActionShape, AskStep, AllowStep, DecisionStep
  <2> QED BY <1>2, <1>3, <2>1, <2>2
<1>5. CASE UNCHANGED vars
  BY <1>2, <1>5 DEF vars, actionVars
<1> QED BY <1>1, <1>2, <1>4, <1>5, StoreQuiet DEF QuietStep, Next, RunStep

\* The rows move by a step of the contract, and what is let loose stays: a run
\* is granted, given back or closed by steps that let nothing loose.
LEMMA ContractStep ==
  ASSUME LedgerInv, ReleaseInv, [Next]_vars
  PROVE  [Contract!Next]_(Contract!vars)
<1>1. TypeOK /\ OneLeasedAttempt
  BY DEF LedgerInv
<1>2. ASSUME NEW r \in Runs, NEW n \in Attempts, NEW k \in Keys, PerformsOne(r, n, k)
      PROVE  Contract!Next
  <2>1. Contract!Perform(r, k)
    BY <1>2, AttemptsFacts DEF PerformsOne, KeepsRows, PerformedBy, OutcomeOf, Contract!Perform
  <2> QED BY <1>2, <2>1 DEF PerformsOne, Contract!Next
<1>3. CASE UNCHANGED PerformedBy
  <2>1. CASE KeepsRows
    BY <1>3, <2>1 DEF KeepsRows, PerformedBy, OutcomeOf, Contract!vars
  <2>2. ASSUME NEW r \in Runs, GrantsRow(r) PROVE Contract!Next
    <3>1. Contract!Grant(r)
      BY <1>3, <2>2 DEF GrantsRow, PerformedBy, OutcomeOf, Contract!Grant
    <3> QED BY <3>1 DEF Contract!Next
  <2>3. ASSUME NEW r \in Runs, ReleasesRow(r) PROVE Contract!Next
    <3>1. Contract!Release(r)
      BY <1>3, <2>3 DEF ReleasesRow, PerformedBy, OutcomeOf, Contract!Release
    <3> QED BY <3>1 DEF Contract!Next
  <2>4. ASSUME NEW r \in Runs, ClosesRow(r) PROVE Contract!Next
    <3>1. \E o \in TerminalStatus : Contract!Close(r, o)
      BY <1>3, <2>4 DEF ClosesRow, PerformedBy, OutcomeOf, Contract!Close
    <3> QED BY <3>1 DEF Contract!Next
  <2> QED BY <1>1, <2>1, <2>2, <2>3, <2>4, RowsShape
<1> QED BY <1>2, <1>3, PerformedShape

LEMMA ContractInit == Init => Contract!Init
BY DEF Init, Performed, TerminalStatus, Contract!Init, Material

\* The ledger, with all its tables, keeps the contract of a run: one holder at a
\* time, attempts granted in order, a replayable action let loose once and only
\* for the holder, one outcome.
THEOREM ContractKept == Spec => KeepsContract
<1>1. LedgerInv /\ ReleaseInv /\ [Next]_vars => [Contract!Next]_(Contract!vars)
  BY ContractStep
<1> QED BY <1>1, ContractInit, LedgerInvariant, ReleaseInvariant, PTL DEF Spec, KeepsContract, Contract!Spec

-----------------------------------------------------------------------------
(* What a step does to what the limits count *)

\* The runs a runner occupies a slot with, and the attempts made in the workstream.
HeldBy(w) == {r \in Runs : runStatus[r] \in HeldStatus /\ runRunner[r] = w}
Made == {p \in Factory \X Attempts : attStatus[p[1]][p[2]] # "none"}

\* Nobody gains a run.
NobodyGains ==
  UNCHANGED lastNumber /\ \A q \in Runs : runRunner'[q] \in {runRunner[q], NoRunner}

\* Runner w gains run r by a new attempt, which the limits allow.
Gains(w, r) ==
  /\ Eligible(r, w) /\ ~BudgetExceeded(r)
  /\ lastNumber' = [lastNumber EXCEPT ![r] = @ + 1]
  /\ runRunner' = [runRunner EXCEPT ![r] = w]

LEMMA GainShape ==
  ASSUME TypeOK, [Next]_vars
  PROVE  NobodyGains \/ \E w \in Runners, r \in Runs : Gains(w, r)
<1>1. ASSUME UNCHANGED <<lastNumber, runRunner>> PROVE NobodyGains
  BY <1>1 DEF NobodyGains
<1>2. ASSUME NEW r \in Runs, NEW s, ReleaseRun(r, s), UNCHANGED lastNumber PROVE NobodyGains
  BY <1>2 DEF ReleaseRun, NobodyGains, TypeOK
<1>3. ASSUME NEW r \in Runs, NEW n \in Attempts, AttemptStep(r, n) PROVE NobodyGains
  <2>1. CASE RunnerStops(r, n) \/ Heartbeat(r, n) \/ MarkRunning(r, n)
    BY <1>1, <2>1 DEF RunnerStops, Heartbeat, MarkRunning, runVars, attemptVars
  <2>2. CASE RejectAttemptStart(r, n) \/ RunTimesOut(r, n) \/ \E c \in Conclusions : CompleteRun(r, n, c)
    BY <1>1, <1>2, <2>2 DEF RejectAttemptStart, RunTimesOut, CompleteRun, Complete, runVars
  <2> QED BY <1>3, <2>1, <2>2 DEF AttemptStep
<1>4. ASSUME NEW r \in Runs, NEW n \in Attempts, NEW k \in Keys, ActionStep(r, n, k) PROVE NobodyGains
  <2>1. UNCHANGED <<lastNumber, runRunner>>
    BY <1>4 DEF ActionStep, RequestNewAction, RequestReleasedAction, RequestDriftedAction,
                RecordApprovalDecision, ResolveActionPermission, RecordMaterialActionReceipt,
                ReconcileUnknownMaterialAction, unchangedByPermission, attemptVars, runVars
  <2> QED BY <1>1, <2>1
<1>5. ASSUME NEW r \in Runs,
             CreateRun(r) \/ RecoverExpiredLease(r) \/ CancelRun(r) \/ AccessExpires(r)
      PROVE  NobodyGains
  BY <1>1, <1>2, <1>5 DEF CreateRun, RecoverExpiredLease, CancelRun, AccessExpires, runVars, attemptVars
<1>6. ASSUME NEW w \in Runners, ClaimNextRun(w)
      PROVE  NobodyGains \/ \E r \in Runs : Gains(w, r)
  <2>1. PICK routed \in SUBSET {r \in Queued : Eligible(r, w)}, seen \in SUBSET Queued :
          LET blocked == {r \in seen : Blocked(r, routed)} IN
          ParkBlocked(blocked) \/ \E r \in routed : Claimable(r, routed) /\ AssignAttempt(w, r, blocked)
    BY <1>6 DEF ClaimNextRun
  <2>2. ASSUME NEW b, ParkBlocked(b) PROVE NobodyGains
    BY <1>1, <2>2 DEF ParkBlocked, attemptVars
  <2>3. ASSUME NEW r \in routed, NEW b, Claimable(r, routed), AssignAttempt(w, r, b)
        PROVE  r \in Runs /\ Gains(w, r)
    BY <2>3 DEF Gains, AssignAttempt, Claimable, Queued
  <2> QED BY <2>1, <2>2, <2>3
<1>7. CASE Tick \/ UNCHANGED vars
  BY <1>1, <1>7 DEF Tick, vars, runVars, attemptVars
<1> QED BY <1>3, <1>4, <1>5, <1>6, <1>7 DEF Next, RunStep

-----------------------------------------------------------------------------
(* The capacity of a runner *)

CapacityInv == \A w \in Runners : IsFiniteSet(HeldBy(w)) /\ Cardinality(HeldBy(w)) <= Capacity[w]

\* A run counts against a runner exactly while its runner column names it.
LEMMA HeldByColumn ==
  ASSUME OneLeasedAttempt, NEW w \in Runners
  PROVE  HeldBy(w) = {r \in Runs : runRunner[r] = w}
BY ConstantsAssumption DEF HeldBy, OneLeasedAttempt, LeaseColumns

LEMMA CapacityStep ==
  ASSUME TypeOK, OneLeasedAttempt, CapacityInv, [Next]_vars
  PROVE  CapacityInv'
<1>1. OneLeasedAttempt'
  BY NextOneLeased
<1>2. SUFFICES ASSUME NEW w \in Runners
               PROVE  IsFiniteSet(HeldBy(w)') /\ Cardinality(HeldBy(w)') <= Capacity[w]
  BY DEF CapacityInv
<1>3. /\ HeldBy(w) = {r \in Runs : runRunner[r] = w} /\ HeldBy(w)' = {r \in Runs : runRunner'[r] = w}
      /\ IsFiniteSet(HeldBy(w)) /\ Cardinality(HeldBy(w)) <= Capacity[w]
  <2>1. HeldBy(w) = {r \in Runs : runRunner[r] = w}
    BY HeldByColumn
  <2>2. HeldBy(w)' = {r \in Runs : runRunner'[r] = w}
    BY <1>1, ConstantsAssumption DEF HeldBy, OneLeasedAttempt, LeaseColumns
  <2> QED BY <2>1, <2>2 DEF CapacityInv
<1>4. Capacity[w] \in Nat /\ w # NoRunner /\ Cardinality(HeldBy(w)) \in Nat
  BY <1>3, ConstantsAssumption, FS_CardinalityType
<1>5. ASSUME HeldBy(w)' \subseteq HeldBy(w)
      PROVE  IsFiniteSet(HeldBy(w)') /\ Cardinality(HeldBy(w)') <= Capacity[w]
  <2>1. IsFiniteSet(HeldBy(w)') /\ Cardinality(HeldBy(w)') <= Cardinality(HeldBy(w))
    BY <1>3, <1>5, FS_Subset
  <2>2. Cardinality(HeldBy(w)') \in Nat
    BY <2>1, FS_CardinalityType
  <2> QED BY <1>3, <1>4, <2>1, <2>2
<1>6. CASE NobodyGains
  BY <1>3, <1>4, <1>5, <1>6 DEF NobodyGains
<1>7. ASSUME NEW v \in Runners, NEW r \in Runs, Gains(v, r)
      PROVE  IsFiniteSet(HeldBy(w)') /\ Cardinality(HeldBy(w)') <= Capacity[w]
  <2>1. \A q \in Runs : runRunner'[q] = IF q = r THEN v ELSE runRunner[q]
    BY <1>7 DEF Gains, TypeOK
  <2>2. CASE w # v
    BY <1>3, <1>5, <2>1, <2>2
  <2>3. CASE w = v
    <3>1. HeldBy(w)' = HeldBy(w) \cup {r}
      BY <1>3, <2>1, <2>3
    <3>2. /\ IsFiniteSet(HeldBy(w)')
          /\ Cardinality(HeldBy(w)') \in {Cardinality(HeldBy(w)), Cardinality(HeldBy(w)) + 1}
      BY <1>3, <3>1, FS_AddElement
    <3>3. Cardinality(HeldBy(w)) < Capacity[w]
      BY <1>7, <2>3 DEF Gains, Eligible, RunnerLoad, HeldBy
    <3> QED BY <1>4, <3>2, <3>3
  <2> QED BY <2>2, <2>3
<1> QED BY <1>6, <1>7, GainShape

\* A runner never holds more runs than it registered for, parked ones included.
THEOREM CapacityKept == Spec => []CapacityRespected
<1>1. Init => CapacityInv
  <2> SUFFICES ASSUME Init, NEW w \in Runners
               PROVE  IsFiniteSet(HeldBy(w)) /\ Cardinality(HeldBy(w)) <= Capacity[w]
    BY DEF CapacityInv
  <2>1. HeldBy(w) = {}
    BY DEF Init, HeldBy, HeldStatus
  <2> QED BY <2>1, FS_EmptySet, ConstantsAssumption
<1>2. TypeOK /\ OneLeasedAttempt /\ CapacityInv /\ [Next]_vars => CapacityInv'
  BY CapacityStep
<1>3. CapacityInv => CapacityRespected
  BY DEF CapacityInv, CapacityRespected, RunnerLoad, HeldBy
<1> QED BY <1>1, <1>2, <1>3, TypeCorrect, LeaseCorrect, PTL DEF Spec

-----------------------------------------------------------------------------
(* The budgets of a factory workstream *)

BudgetInv ==
  /\ \A r \in Factory : lastNumber[r] <= MaxAttemptsPerRun
  /\ IsFiniteSet(Made) /\ Cardinality(Made) <= MaxWorkstreamAttempts

\* The attempts made are those numbered so far, so they grow where a number does.
LEMMA BudgetStep ==
  ASSUME TypeOK, OneLeasedAttempt, BudgetInv, [Next]_vars
  PROVE  BudgetInv'
<1>1. OneLeasedAttempt' /\ TypeOK'
  BY NextOneLeased, NextTypeOK
<1>2. \A r \in Runs : lastNumber[r] \in Nat /\ lastNumber'[r] \in Nat
  BY <1>1 DEF TypeOK
<1>3. /\ Made = {p \in Factory \X Attempts : ~(p[2] > lastNumber[p[1]])}
      /\ Made' = {p \in Factory \X Attempts : ~(p[2] > lastNumber'[p[1]])}
  BY <1>1, ConstantsAssumption DEF Made, OneLeasedAttempt, AttemptRows
<1>4. ASSUME \A r \in Factory : lastNumber'[r] = lastNumber[r] PROVE BudgetInv'
  <2>1. Made' = Made
    BY <1>3, <1>4
  <2> QED BY <1>4, <2>1 DEF BudgetInv
<1>5. ASSUME NEW w \in Runners, NEW r \in Runs, Gains(w, r) PROVE BudgetInv'
  <2>1. \A q \in Runs : lastNumber'[q] = IF q = r THEN lastNumber[q] + 1 ELSE lastNumber[q]
    BY <1>5 DEF Gains, TypeOK
  <2>2. CASE r \notin Factory
    BY <1>4, <2>1, <2>2, ConstantsAssumption
  <2>3. CASE r \in Factory
    <3>1. /\ ~(lastNumber[r] + 1 > MaxAttemptsPerRun)
          /\ ~(Cardinality(Made) + 1 > MaxWorkstreamAttempts)
      BY <1>5, <2>3 DEF Gains, BudgetExceeded, WorkstreamAttempts, Made
    <3>2. lastNumber[r] + 1 \in Attempts
      BY <1>5, AttemptsFacts DEF Gains, Eligible, TypeOK
    <3>3. Made' = Made \cup {<<r, lastNumber[r] + 1>>}
      <4>1. \A q \in Factory, m \in Attempts :
              ~(m > lastNumber'[q]) <=> ~(m > lastNumber[q]) \/ (q = r /\ m = lastNumber[r] + 1)
        BY <1>2, <2>1, AttemptsFacts, ConstantsAssumption
      <4> QED BY <1>3, <2>3, <3>2, <4>1
    <3>4. /\ IsFiniteSet(Made')
          /\ Cardinality(Made') \in {Cardinality(Made), Cardinality(Made) + 1}
      BY <3>3, FS_AddElement DEF BudgetInv
    <3>5. Cardinality(Made) \in Nat
      BY FS_CardinalityType DEF BudgetInv
    <3>6. Cardinality(Made') <= MaxWorkstreamAttempts
      BY <3>1, <3>4, <3>5, ConstantsAssumption
    <3>7. \A q \in Factory : lastNumber'[q] <= MaxAttemptsPerRun
      BY <1>2, <2>1, <2>3, <3>1, ConstantsAssumption DEF BudgetInv
    <3> QED BY <3>4, <3>6, <3>7 DEF BudgetInv
  <2> QED BY <2>2, <2>3
<1>6. CASE NobodyGains
  BY <1>4, <1>6, ConstantsAssumption DEF NobodyGains
<1> QED BY <1>5, <1>6, GainShape

\* No interleaving of claims oversubscribes the attempt budgets of a factory
\* workstream, per run or over the whole workstream.
THEOREM BudgetKept == Spec => []BudgetRespected
<1>1. Init => BudgetInv
  <2> SUFFICES ASSUME Init PROVE BudgetInv
    OBVIOUS
  <2>1. Made = {}
    BY ConstantsAssumption DEF Init, Made
  <2>2. \A r \in Factory : lastNumber[r] = 0
    BY ConstantsAssumption DEF Init
  <2> QED BY <2>1, <2>2, FS_EmptySet, ConstantsAssumption DEF BudgetInv
<1>2. TypeOK /\ OneLeasedAttempt /\ BudgetInv /\ [Next]_vars => BudgetInv'
  BY BudgetStep
<1>3. BudgetInv => BudgetRespected
  BY DEF BudgetInv, BudgetRespected, WorkstreamAttempts, Made
<1> QED BY <1>1, <1>2, <1>3, TypeCorrect, LeaseCorrect, PTL DEF Spec
=============================================================================
