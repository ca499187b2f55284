--------------------------- MODULE RunActionProofs ---------------------------
(* Proofs about the material actions of RunLedger: what is in flight belongs   *)
(* to the leased attempt, what is let loose is let loose once, on a human's    *)
(* word, and never forgotten; and what is over stays over.                     *)
EXTENDS RunLedgerProofs, WellFoundedInduction

USE DEF NoLease, NoAttempt

-----------------------------------------------------------------------------
(* The latest action of a semantic key *)

\* A bounded nonempty set of natural numbers has a greatest element.
LEMMA HasGreatest ==
  ASSUME NEW N \in Nat, NEW S \in SUBSET (0..N), S # {}
  PROVE  \E x \in S : \A y \in S : y <= x
<1> DEFINE T == {N - x : x \in S}
<1>1. T # {}
  OBVIOUS
<1>2. \A x \in S : x \in Int /\ N - x \in Nat
  OBVIOUS
<1>2a. T \subseteq Nat
  BY <1>2
<1>3. PICK t \in T : \A y \in T : ~ (<<y, t>> \in OpToRel(<, Nat))
  <2> HIDE DEF T
  <2> QED BY <1>1, <1>2a, NatLessThanWellFounded, WFMin
<1>4. \A y \in T : ~(y < t)
  BY <1>2a, <1>3 DEF OpToRel
<1>5. PICK z \in S : t = N - z
  OBVIOUS
<1>6. ASSUME NEW y \in S PROVE y <= z
  <2>1. ~(N - y < N - z)
    BY <1>4, <1>5
  <2> QED BY <1>2, <2>1
<1> QED BY <1>6

\* An attempt that has not begun to execute has asked for nothing: its stage is
\* none before it is offered, and its actions are none before it is started.
AskedAfterStart ==
  \A r \in Runs, n \in Attempts :
    /\ n > lastNumber[r] => stage[r][n] = "none"
    /\ stage[r][n] \in {"none", "offered"} => \A k \in Keys : actionStatus[r][n][k] = "none"

\* A reusable key is asked for anew only after its latest action was cancelled:
\* so every action but the latest is cancelled.
SupersededCancelled ==
  \A r \in Runs, k \in Keys \ OneShotKeys, m, n \in Attempts :
    m < n /\ actionStatus[r][n][k] # "none" => actionStatus[r][m][k] \in {"none", "cancelled"}

ActionInv ==
  AskedAfterStart /\ SupersededCancelled /\ ExecutingOwned /\ ParkedHasWaiting

\* The attempt that executes is the newest, and later ones have asked nothing.
LEMMA NothingLater ==
  ASSUME TypeOK, OneLeasedAttempt, AskedAfterStart, NEW r \in Runs, NEW n \in Attempts, Executing(r, n),
         NEW j \in Attempts, j > n, NEW k \in Keys
  PROVE  actionStatus[r][j][k] = "none"
<1>1. runAttempt[r] = n /\ n = lastNumber[r]
  BY AttemptsFacts DEF Executing, ActiveAttemptLease, OneLeasedAttempt, LeaseColumns
<1> QED BY <1>1 DEF AskedAfterStart

\* Without a latest action there is none at all.
LEMMA NoLatestNone ==
  ASSUME NEW r \in Runs, NEW n \in Attempts, NEW k \in Keys \ OneShotKeys,
         LatestAction(r, n, k) = {}, NEW m \in Attempts
  PROVE  actionStatus[r][m][k] = "none"
<1> DEFINE S == {j \in Attempts : actionStatus[r][j][k] # "none"}
<1>1. SUFFICES ASSUME S # {} PROVE FALSE
  OBVIOUS
<1>2. MaxAttempts \in Nat /\ S \in SUBSET (0..MaxAttempts)
  BY ConstantsAssumption DEF Attempts
<1>3. PICK x \in S : \A y \in S : y <= x
  <2> HIDE DEF S
  <2> QED BY <1>1, <1>2, HasGreatest
<1>4. ASSUME NEW j \in Attempts, j > x PROVE actionStatus[r][j][k] = "none"
  <2>1. ~(j <= x)
    BY <1>4, AttemptsFacts
  <2> QED BY <1>3, <2>1
<1>5. x \in LatestAction(r, n, k)
  BY <1>3, <1>4 DEF LatestAction
<1> QED BY <1>5

\* An action asked for anew was never asked for in this attempt, and whatever
\* earlier attempts asked for under a reusable key is cancelled.
LEMMA NewActionFresh ==
  ASSUME TypeOK, OneLeasedAttempt, AskedAfterStart, SupersededCancelled,
         NEW r \in Runs, NEW n \in Attempts, NEW k \in Keys, Executing(r, n),
         \A m \in LatestAction(r, n, k) : m # n /\ actionStatus[r][m][k] = "cancelled"
  PROVE  /\ actionStatus[r][n][k] = "none"
         /\ k \notin OneShotKeys =>
              \A m \in Attempts : actionStatus[r][m][k] \in {"none", "cancelled"}
<1>1. actionStatus[r][n][k] = "none"
  <2>1. \A j \in Attempts : j > n => actionStatus[r][j][k] = "none"
    BY NothingLater
  <2>2. n \notin LatestAction(r, n, k)
    OBVIOUS
  <2> QED BY <2>1, <2>2 DEF LatestAction
<1>2. ASSUME k \notin OneShotKeys, NEW m \in Attempts
      PROVE  actionStatus[r][m][k] \in {"none", "cancelled"}
  <2>1. CASE LatestAction(r, n, k) = {}
    BY <1>2, <2>1, NoLatestNone
  <2>2. ASSUME NEW l \in LatestAction(r, n, k)
        PROVE  actionStatus[r][m][k] \in {"none", "cancelled"}
    <3>1. /\ l \in Attempts /\ actionStatus[r][l][k] = "cancelled"
          /\ \A j \in Attempts : j > l => actionStatus[r][j][k] = "none"
      BY <1>2, <2>2 DEF LatestAction
    <3>2. m > l \/ m = l \/ m < l
      BY <3>1, AttemptsFacts
    <3> QED BY <1>2, <3>1, <3>2 DEF SupersededCancelled
  <2> QED BY <2>1, <2>2
<1> QED BY <1>1, <1>2

-----------------------------------------------------------------------------
(* What a step does to the actions *)

\* Without a new request or a release, an action moves only forward: what was
\* let loose becomes unknown or settles, what waits or was permitted becomes
\* unknown or is cancelled, and what is settled stays.
Moves(s, t) ==
  \/ t = s
  \/ s \in {"executing", "unknown"} /\ t \in {"unknown", "succeeded", "failed"}
  \/ s \in {"waiting_approval", "authorized"} /\ t \in {"unknown", "cancelled"}

QuietStep ==
  /\ UNCHANGED <<decision, grants, released>>
  /\ \A r \in Runs, n \in Attempts, k \in Keys : Moves(actionStatus[r][n][k], actionStatus'[r][n][k])

\* The action of k in attempt n of r becomes t, and every other stays.
Becomes(r, n, k, t) ==
  \A q \in Runs, m \in Attempts, j \in Keys :
    actionStatus'[q][m][j] = IF q = r /\ m = n /\ j = k THEN t ELSE actionStatus[q][m][j]

\* Attempt n asks for k, which no live action of its semantic key stands for.
Fresh(r, n, k) ==
  /\ actionStatus[r][n][k] = "none"
  /\ k \notin OneShotKeys => \A m \in Attempts : actionStatus[r][m][k] \in {"none", "cancelled"}

AskStep(r, n, k) ==
  /\ Executing(r, n) /\ Fresh(r, n, k)
  /\ \E t \in {"cancelled", "authorized", "waiting_approval"} : Becomes(r, n, k, t)
  /\ UNCHANGED <<decision, grants, released>>

\* A material action is let loose, and counted.
ReleaseStep(r, n, k) ==
  /\ Executing(r, n) /\ k \in Material
  /\ Becomes(r, n, k, "executing")
  /\ UNCHANGED decision
  /\ \A q \in Runs, m \in Attempts, j \in Keys :
       released'[q][m][j] = IF q = r /\ m = n /\ j = k THEN released[q][m][j] + 1 ELSE released[q][m][j]
  /\ \/ /\ Fresh(r, n, k) /\ UNCHANGED grants
        /\ GrantMatches(r, k) \/ "autonomous" \in ApprovalModes
     \/ /\ Decided(r, n, k, {"allow_once", "allow_run"})
        /\ grants' = GrantsAfter(r, k, decision[r][n][k])

\* A waiting action of low risk is let loose: it counts for nothing.
AllowStep(r, n, k) ==
  /\ Executing(r, n) /\ k \notin Material
  /\ Decided(r, n, k, {"allow_once", "allow_run"})
  /\ Becomes(r, n, k, "executing")
  /\ UNCHANGED <<decision, released>>
  /\ grants' = GrantsAfter(r, k, decision[r][n][k])

DecisionStep(r, n, k) ==
  /\ actionStatus[r][n][k] = "waiting_approval" /\ decision[r][n][k] = Undecided
  /\ UNCHANGED <<actionStatus, grants, released>>
  /\ \E d \in Decisions : \A q \in Runs, m \in Attempts, j \in Keys :
       decision'[q][m][j] = IF q = r /\ m = n /\ j = k THEN d ELSE decision[q][m][j]

\* Writing one action's status writes no other.
LEMMA SetActionBecomes ==
  ASSUME TypeOK, NEW r \in Runs, NEW n \in Attempts, NEW k \in Keys, NEW t, SetAction(r, n, k, t)
  PROVE  Becomes(r, n, k, t)
BY DEF TypeOK, SetAction, Becomes

\* A write along Moves, and nothing else, is quiet.
LEMMA BecomesQuiet ==
  ASSUME NEW r \in Runs, NEW n \in Attempts, NEW k \in Keys, NEW t, Becomes(r, n, k, t),
         Moves(actionStatus[r][n][k], t), UNCHANGED <<decision, grants, released>>
  PROVE  QuietStep
BY DEF Becomes, QuietStep, Moves

\* What the end of an attempt makes of an action moves it forward.
LEMMA SettlementMoves ==
  \A s \in ActionStatus :
    /\ Moves(s, AfterInterruption(s)) /\ Moves(s, AfterCompletion(s)) /\ Moves(s, AfterCancellation(s))
BY DEF ActionStatus, Moves, AfterInterruption, AfterCompletion, AfterCancellation

\* Claims, the clock, and all that happens to runs and attempts is quiet.
LEMMA StoreQuiet ==
  ASSUME TypeOK, OneLeasedAttempt,
         \/ Tick \/ \E w \in Runners : ClaimNextRun(w)
         \/ \E r \in Runs : \/ CreateRun(r) \/ RecoverExpiredLease(r) \/ CancelRun(r) \/ AccessExpires(r)
                            \/ \E n \in Attempts : AttemptStep(r, n)
  PROVE  QuietStep
<1>1. ASSUME UNCHANGED actionVars PROVE QuietStep
  BY <1>1 DEF actionVars, QuietStep, Moves
<1>2. \A r \in Runs, n \in Attempts, k \in Keys : actionStatus[r][n][k] \in ActionStatus
  BY DEF TypeOK
<1>3. ASSUME NEW w \in Runners, ClaimNextRun(w) PROVE UNCHANGED actionVars
  BY <1>3 DEF ClaimNextRun, ParkBlocked, AssignAttempt
<1>4. ASSUME NEW r \in Runs, NEW n \in Attempts, NEW c, Complete(r, n, c),
             UNCHANGED <<decision, grants, released>>
      PROVE  QuietStep
  <2>1. actionStatus' = [actionStatus EXCEPT ![r][n] = [k \in Keys |-> AfterCompletion(@[k])]]
    BY <1>4 DEF Complete
  <2>2. \A q \in Runs, m \in Attempts, j \in Keys :
          actionStatus'[q][m][j] = IF q = r /\ m = n THEN AfterCompletion(actionStatus[q][m][j])
                                   ELSE actionStatus[q][m][j]
    BY <2>1 DEF TypeOK
  <2> QED BY <1>2, <1>4, <2>2, SettlementMoves DEF QuietStep, Moves
<1>5. ASSUME NEW r \in Runs, RecoverExpiredLease(r) PROVE QuietStep
  <2>1. /\ actionStatus' = [actionStatus EXCEPT ![r][runAttempt[r]] =
             [k \in Keys |-> AfterInterruption(@[k])]]
        /\ UNCHANGED <<decision, grants, released>>
    BY <1>5 DEF RecoverExpiredLease
  <2>2. runAttempt[r] \in Attempts
    <3>1. runAttempt[r] # NoAttempt
      BY <1>5 DEF RecoverExpiredLease, LeaseExpired, OneLeasedAttempt, LeaseColumns
    <3>2. runAttempt[r] \in 0..MaxAttempts
      BY DEF TypeOK
    <3> QED BY <3>1, <3>2, AttemptsFacts
  <2>3. \A q \in Runs, m \in Attempts, j \in Keys :
          actionStatus'[q][m][j] = IF q = r /\ m = runAttempt[r] THEN AfterInterruption(actionStatus[q][m][j])
                                   ELSE actionStatus[q][m][j]
    BY <2>1, <2>2 DEF TypeOK
  <2> QED BY <1>2, <2>1, <2>3, SettlementMoves DEF QuietStep, Moves
<1>6. ASSUME NEW r \in Runs, CancelRun(r) PROVE QuietStep
  <2>1. /\ actionStatus' = [actionStatus EXCEPT ![r] =
             [m \in Attempts |-> [k \in Keys |-> AfterCancellation(@[m][k])]]]
        /\ UNCHANGED <<decision, grants, released>>
    BY <1>6 DEF CancelRun
  <2>2. \A q \in Runs, m \in Attempts, j \in Keys :
          actionStatus'[q][m][j] = IF q = r THEN AfterCancellation(actionStatus[q][m][j])
                                   ELSE actionStatus[q][m][j]
    BY <2>1 DEF TypeOK
  <2> QED BY <1>2, <2>1, <2>2, SettlementMoves DEF QuietStep, Moves
<1>7. ASSUME NEW r \in Runs, NEW n \in Attempts, AttemptStep(r, n) PROVE QuietStep
  <2>1. CASE RunnerStops(r, n) \/ RejectAttemptStart(r, n) \/ MarkRunning(r, n) \/ Heartbeat(r, n)
    BY <1>1, <2>1 DEF RunnerStops, RejectAttemptStart, MarkRunning, Heartbeat
  <2>2. ASSUME NEW c \in Conclusions, CompleteRun(r, n, c) PROVE QuietStep
    BY <1>4, <2>2 DEF CompleteRun
  <2>3. CASE RunTimesOut(r, n)
    <3>1. CASE Complete(r, n, "timed_out")
      BY <1>4, <2>3, <3>1 DEF RunTimesOut
    <3>2. CASE UNCHANGED actionStatus
      BY <1>1, <2>3, <3>2 DEF RunTimesOut, actionVars
    <3> QED BY <2>3, <3>1, <3>2 DEF RunTimesOut
  <2> QED BY <1>7, <2>1, <2>2, <2>3 DEF AttemptStep
<1>8. ASSUME NEW r \in Runs, CreateRun(r) \/ AccessExpires(r) PROVE QuietStep
  BY <1>1, <1>8 DEF CreateRun, AccessExpires
<1>9. CASE Tick
  BY <1>1, <1>9 DEF Tick
<1> QED BY <1>1, <1>3, <1>5, <1>6, <1>7, <1>8, <1>9

\* A new request: blocked or parked, it is asked; allowed, it is let loose.
LEMMA RequestShape ==
  ASSUME TypeOK, OneLeasedAttempt, AskedAfterStart, SupersededCancelled,
         NEW r \in Runs, NEW n \in Attempts, NEW k \in Keys, NEW mode \in ApprovalModes,
         RequestNewAction(r, n, k, mode)
  PROVE  AskStep(r, n, k) \/ ReleaseStep(r, n, k)
<1>1. Executing(r, n) /\ Fresh(r, n, k)
  BY NewActionFresh DEF RequestNewAction, Fresh
<1>2. UNCHANGED <<decision, grants>>
  BY DEF RequestNewAction
<1>3. ASSUME NEW t \in {"cancelled", "authorized", "waiting_approval"}, SetAction(r, n, k, t),
             UNCHANGED released
      PROVE  AskStep(r, n, k)
  BY <1>1, <1>2, <1>3, SetActionBecomes DEF AskStep
<1>4. ASSUME GrantMatches(r, k) \/ mode = "autonomous" \/ (mode = "auto" /\ k \in LowRiskKeys),
             SetAction(r, n, k, IF k \in LowRiskKeys THEN "authorized" ELSE "executing"),
             CountRelease(r, n, k)
      PROVE  AskStep(r, n, k) \/ ReleaseStep(r, n, k)
  <2>1. CASE k \in LowRiskKeys
    BY <1>3, <1>4, <2>1 DEF CountRelease
  <2>2. CASE k \notin LowRiskKeys
    <3>1. Becomes(r, n, k, "executing")
      BY <1>4, <2>2, SetActionBecomes
    <3>2. \A q \in Runs, m \in Attempts, j \in Keys :
            released'[q][m][j] = IF q = r /\ m = n /\ j = k THEN released[q][m][j] + 1 ELSE released[q][m][j]
      BY <1>4, <2>2 DEF CountRelease, TypeOK
    <3> QED BY <1>1, <1>2, <1>4, <2>2, <3>1, <3>2 DEF ReleaseStep, Material
  <2> QED BY <2>1, <2>2
<1> QED BY <1>3, <1>4 DEF RequestNewAction

\* A poll of a waiting action: it lets the action loose, or moves it forward.
LEMMA ResolveShape ==
  ASSUME TypeOK, NEW r \in Runs, NEW n \in Attempts, NEW k \in Keys, ResolveActionPermission(r, n, k)
  PROVE  QuietStep \/ ReleaseStep(r, n, k) \/ AllowStep(r, n, k)
<1>1. Executing(r, n) /\ UNCHANGED decision
  BY DEF ResolveActionPermission
<1>2. CASE /\ actionStatus[r][n][k] = "executing"
           /\ SetAction(r, n, k, "unknown")
           /\ UNCHANGED <<runStatus, grants, released>>
  BY <1>1, <1>2, SetActionBecomes, BecomesQuiet DEF Moves
<1>3. CASE /\ Decided(r, n, k, {"deny"})
           /\ SetAction(r, n, k, "cancelled")
           /\ UNCHANGED <<grants, released>>
  BY <1>1, <1>3, SetActionBecomes, BecomesQuiet DEF Moves, Decided
<1>4. CASE /\ Decided(r, n, k, {"allow_once", "allow_run"})
           /\ SetAction(r, n, k, "executing")
           /\ grants' = GrantsAfter(r, k, decision[r][n][k])
           /\ CountRelease(r, n, k)
  <2>1. Becomes(r, n, k, "executing")
    BY <1>4, SetActionBecomes
  <2>2. CASE k \in LowRiskKeys
    BY <1>1, <1>4, <2>1, <2>2 DEF AllowStep, Material, CountRelease
  <2>3. CASE k \notin LowRiskKeys
    <3>1. \A q \in Runs, m \in Attempts, j \in Keys :
            released'[q][m][j] = IF q = r /\ m = n /\ j = k THEN released[q][m][j] + 1 ELSE released[q][m][j]
      BY <1>4, <2>3 DEF CountRelease, TypeOK
    <3> QED BY <1>1, <1>4, <2>1, <2>3, <3>1 DEF ReleaseStep, Material
  <2> QED BY <2>2, <2>3
<1> QED BY <1>2, <1>3, <1>4 DEF ResolveActionPermission

\* Whatever happens to an action is one of five kinds of step.
ActionShape(r, n, k) ==
  AskStep(r, n, k) \/ ReleaseStep(r, n, k) \/ AllowStep(r, n, k) \/ DecisionStep(r, n, k)

LEMMA ActionStepShape ==
  ASSUME TypeOK, OneLeasedAttempt, AskedAfterStart, SupersededCancelled,
         NEW r \in Runs, NEW n \in Attempts, NEW k \in Keys, ActionStep(r, n, k)
  PROVE  QuietStep \/ ActionShape(r, n, k)
<1>1. ASSUME NEW mode \in ApprovalModes, RequestNewAction(r, n, k, mode) PROVE ActionShape(r, n, k)
  BY <1>1, RequestShape DEF ActionShape
<1>2. CASE RequestReleasedAction(r, n, k)
  <2>1. PICK m \in Attempts : /\ actionStatus[r][m][k] \in {"executing", "authorized"}
                              /\ SetAction(r, m, k, "unknown")
    BY <1>2 DEF RequestReleasedAction, LatestAction
  <2> QED BY <1>2, <2>1, SetActionBecomes, BecomesQuiet DEF RequestReleasedAction, Moves
<1>3. CASE RequestDriftedAction(r, n, k)
  <2>1. PICK t : Moves(actionStatus[r][n][k], t) /\ SetAction(r, n, k, t)
    BY <1>3 DEF RequestDriftedAction, Moves
  <2> QED BY <1>3, <2>1, SetActionBecomes, BecomesQuiet DEF RequestDriftedAction
<1>4. ASSUME NEW d \in Decisions, RecordApprovalDecision(r, n, k, d) PROVE DecisionStep(r, n, k)
  <2>1. \A q \in Runs, m \in Attempts, j \in Keys :
          decision'[q][m][j] = IF q = r /\ m = n /\ j = k THEN d ELSE decision[q][m][j]
    BY <1>4 DEF RecordApprovalDecision, TypeOK
  <2> QED BY <1>4, <2>1 DEF RecordApprovalDecision, DecisionStep
<1>5. CASE ResolveActionPermission(r, n, k)
  BY <1>5, ResolveShape DEF ActionShape
<1>6. ASSUME NEW o \in {"succeeded", "failed", "unknown"}, RecordMaterialActionReceipt(r, n, k, o)
      PROVE  QuietStep
  BY <1>6, SetActionBecomes, BecomesQuiet DEF RecordMaterialActionReceipt, Moves
<1>7. ASSUME NEW o \in {"succeeded", "failed"}, ReconcileUnknownMaterialAction(r, n, k, o)
      PROVE  QuietStep
  BY <1>7, SetActionBecomes, BecomesQuiet DEF ReconcileUnknownMaterialAction, Moves
<1> QED BY <1>1, <1>2, <1>3, <1>4, <1>5, <1>6, <1>7 DEF ActionStep, ActionShape

LEMMA NextShape ==
  ASSUME TypeOK, OneLeasedAttempt, AskedAfterStart, SupersededCancelled, [Next]_vars
  PROVE  QuietStep \/ \E r \in Runs, n \in Attempts, k \in Keys : ActionShape(r, n, k)
<1>1. CASE UNCHANGED vars
  BY <1>1 DEF vars, actionVars, QuietStep, Moves
<1>2. CASE Next
  BY <1>2, StoreQuiet, ActionStepShape DEF Next, RunStep
<1> QED BY <1>1, <1>2

-----------------------------------------------------------------------------
(* Asked after the start; superseded actions are cancelled *)

\* A step that leaves an attempt's number and stage alone, and starts none of
\* its actions, keeps it.
LEMMA AskedKept ==
  ASSUME AskedAfterStart, UNCHANGED lastNumber,
         \A r \in Runs, n \in Attempts :
           /\ stage'[r][n] = stage[r][n]
              \/ (stage[r][n] # "none" /\ stage'[r][n] \notin {"none", "offered"})
           /\ stage[r][n] \in {"none", "offered"} => \A k \in Keys :
                actionStatus[r][n][k] = "none" => actionStatus'[r][n][k] = "none"
  PROVE  AskedAfterStart'
BY DEF AskedAfterStart

LEMMA AskedStep ==
  ASSUME TypeOK, OneLeasedAttempt, AskedAfterStart, SupersededCancelled, [Next]_vars
  PROVE  AskedAfterStart'
<1>1. CASE QuietStep /\ UNCHANGED <<lastNumber, stage>>
  BY <1>1, AskedKept DEF QuietStep, Moves
<1>2. ASSUME QuietStep, UNCHANGED lastNumber, NEW r \in Runs, NEW n \in Attempts,
             NEW s \in {"executing", "timed_out", "done"}, Leaves(r, n, s), stage[r][n] # "none"
      PROVE  AskedAfterStart'
  <2>1. \A q \in Runs, m \in Attempts : stage'[q][m] = IF q = r /\ m = n THEN s ELSE stage[q][m]
    BY <1>2 DEF Leaves, TypeOK
  <2> QED BY <1>2, <2>1, AskedKept DEF QuietStep, Moves
<1>3. CASE Tick \/ \E r \in Runs :
             CreateRun(r) \/ RecoverExpiredLease(r) \/ CancelRun(r) \/ AccessExpires(r)
  BY <1>1, <1>3, StoreQuiet
  DEF Tick, CreateRun, RecoverExpiredLease, CancelRun, AccessExpires, attemptVars
<1>4. ASSUME NEW r \in Runs, NEW n \in Attempts, AttemptStep(r, n) PROVE AskedAfterStart'
  <2>1. QuietStep
    BY <1>4, StoreQuiet
  <2>2. CASE Heartbeat(r, n)
    BY <1>1, <2>1, <2>2 DEF Heartbeat
  <2>3. CASE ~Heartbeat(r, n)
    <3>1. /\ UNCHANGED lastNumber /\ stage[r][n] # "none"
          /\ \E s \in {"executing", "timed_out", "done"} : Leaves(r, n, s)
      BY <1>4, <2>3 DEF AttemptStep, RunnerStops, RejectAttemptStart, MarkRunning, RunTimesOut,
                        CompleteRun, attemptVars
    <3> QED BY <1>2, <2>1, <3>1
  <2> QED BY <2>2, <2>3
<1>5. ASSUME NEW r \in Runs, NEW n \in Attempts, NEW k \in Keys, ActionStep(r, n, k)
      PROVE  AskedAfterStart'
  <2>1. UNCHANGED <<lastNumber, stage>>
    BY <1>5 DEF ActionStep, RequestNewAction, RequestReleasedAction, RequestDriftedAction,
                RecordApprovalDecision, ResolveActionPermission, RecordMaterialActionReceipt,
                ReconcileUnknownMaterialAction, unchangedByPermission, attemptVars
  <2>2. CASE QuietStep
    BY <1>1, <2>1, <2>2
  <2>3. CASE ActionShape(r, n, k)
    <3>1. DecisionStep(r, n, k) \/ (stage[r][n] = "executing" /\ \E t : Becomes(r, n, k, t))
      BY <2>3 DEF ActionShape, AskStep, ReleaseStep, AllowStep, Executing
    <3> QED BY <2>1, <3>1, AskedKept DEF DecisionStep, Becomes
  <2> QED BY <1>5, <2>2, <2>3, ActionStepShape
<1>6. ASSUME NEW w \in Runners, ClaimNextRun(w) PROVE AskedAfterStart'
  <2>1. QuietStep
    BY <1>6, StoreQuiet
  <2>2. CASE \E b : ParkBlocked(b)
    BY <1>1, <2>1, <2>2 DEF ParkBlocked, attemptVars
  <2>3. ASSUME NEW r \in Runs, NEW b, lastNumber[r] < MaxAttempts, AssignAttempt(w, r, b)
        PROVE  AskedAfterStart'
    <3>1. PICK n \in Attempts : n = lastNumber[r] + 1
      BY <2>3, AttemptsFacts DEF TypeOK
    <3>2. /\ lastNumber' = [lastNumber EXCEPT ![r] = n]
          /\ stage' = [stage EXCEPT ![r][n] = "offered"]
          /\ UNCHANGED actionStatus
      BY <2>3, <3>1 DEF AssignAttempt, Leaves, actionVars
    <3>3. \A q \in Runs, m \in Attempts :
            /\ stage'[q][m] = IF q = r /\ m = n THEN "offered" ELSE stage[q][m]
            /\ lastNumber'[q] = IF q = r THEN lastNumber[q] + 1 ELSE lastNumber[q]
      BY <3>1, <3>2 DEF TypeOK
    <3>4. n > lastNumber[r] /\ lastNumber \in [Runs -> Int] /\ Attempts \subseteq Int
      BY <3>1, AttemptsFacts DEF TypeOK
    <3>5. ASSUME NEW q \in Runs, NEW m \in Attempts, m > lastNumber'[q] PROVE stage'[q][m] = "none"
      <4>1. m > lastNumber[q] /\ ~(q = r /\ m = n)
        BY <3>1, <3>3, <3>4, <3>5
      <4> QED BY <3>3, <4>1 DEF AskedAfterStart
    <3>6. ASSUME NEW q \in Runs, NEW m \in Attempts, stage'[q][m] \in {"none", "offered"}
          PROVE  \A k \in Keys : actionStatus'[q][m][k] = "none"
      BY <3>2, <3>3, <3>4, <3>6 DEF AskedAfterStart
    <3> QED BY <3>5, <3>6 DEF AskedAfterStart
  <2>4. (\E b : ParkBlocked(b))
          \/ \E b : \E r \in Runs : lastNumber[r] < MaxAttempts /\ AssignAttempt(w, r, b)
    BY <1>6 DEF ClaimNextRun, Queued, Eligible
  <2> QED BY <2>2, <2>3, <2>4
<1>7. CASE UNCHANGED vars
  BY <1>7, AskedKept DEF vars, attemptVars, actionVars
<1> QED BY <1>3, <1>4, <1>5, <1>6, <1>7 DEF Next, RunStep

LEMMA SupersededStep ==
  ASSUME TypeOK, OneLeasedAttempt, AskedAfterStart, SupersededCancelled, [Next]_vars
  PROVE  SupersededCancelled'
<1>1. CASE QuietStep
  BY <1>1 DEF QuietStep, Moves, SupersededCancelled
<1>2. ASSUME NEW r \in Runs, NEW n \in Attempts, NEW k \in Keys, ActionShape(r, n, k)
      PROVE  SupersededCancelled'
  <2>1. CASE DecisionStep(r, n, k)
    BY <2>1 DEF DecisionStep, SupersededCancelled
  <2>2. CASE ~DecisionStep(r, n, k)
    <3>1. /\ Executing(r, n) /\ \E t : Becomes(r, n, k, t)
          /\ Fresh(r, n, k) \/ actionStatus[r][n][k] = "waiting_approval"
      BY <1>2, <2>2 DEF ActionShape, AskStep, ReleaseStep, AllowStep, Decided
    <3>2. \A j \in Attempts : j > n => actionStatus[r][j][k] = "none"
      BY <3>1, NothingLater
    <3>3. ASSUME k \notin OneShotKeys, NEW m \in Attempts, m < n
          PROVE  actionStatus[r][m][k] \in {"none", "cancelled"}
      BY <3>1, <3>3 DEF Fresh, SupersededCancelled
    <3>4. SUFFICES ASSUME NEW q \in Runs, NEW j \in Keys \ OneShotKeys, NEW l \in Attempts,
                          NEW m \in Attempts, l < m, actionStatus'[q][m][j] # "none"
                   PROVE  actionStatus'[q][l][j] \in {"none", "cancelled"}
      BY DEF SupersededCancelled
    <3>5. CASE q = r /\ j = k /\ m = n
      BY <3>1, <3>3, <3>4, <3>5, AttemptsFacts DEF Becomes
    <3>6. CASE q = r /\ j = k /\ l = n
      BY <3>1, <3>2, <3>4, <3>6, AttemptsFacts DEF Becomes
    <3>7. CASE ~(q = r /\ j = k /\ n \in {l, m})
      BY <3>1, <3>4, <3>7 DEF Becomes, SupersededCancelled
    <3> QED BY <3>5, <3>6, <3>7
  <2> QED BY <2>1, <2>2
<1> QED BY <1>1, <1>2, NextShape

-----------------------------------------------------------------------------
(* What is in flight belongs to the leased attempt; a parked run has a question *)

\* The ways out of an attempt of r, with what they do to r's actions.
EndsAttempt(r) ==
  /\ \A q \in Runs \ {r} : /\ runAttempt'[q] = runAttempt[q] /\ runStatus'[q] = runStatus[q]
                           /\ actionStatus'[q] = actionStatus[q]
  /\ runAttempt'[r] = NoAttempt
  /\ \A n \in Attempts, k \in Keys : runAttempt[r] = n => actionStatus'[r][n][k] # "executing"

LEMMA ReleaseRunValues ==
  ASSUME TypeOK, NEW r \in Runs, NEW s, ReleaseRun(r, s)
  PROVE  \A q \in Runs : /\ runAttempt'[q] = IF q = r THEN NoAttempt ELSE runAttempt[q]
                         /\ runStatus'[q] = IF q = r THEN s ELSE runStatus[q]
BY DEF ReleaseRun, TypeOK

LEMMA CompleteEnds ==
  ASSUME TypeOK, NEW r \in Runs, NEW n \in Attempts, NEW c, ActiveAttemptLease(r, n), Complete(r, n, c)
  PROVE  EndsAttempt(r)
<1>1. /\ actionStatus' = [actionStatus EXCEPT ![r][n] = [k \in Keys |-> AfterCompletion(@[k])]]
      /\ ReleaseRun(r, RunStatusOf(c)) /\ runAttempt[r] = n
  BY DEF Complete, ActiveAttemptLease
<1>2. \A k \in Keys : actionStatus'[r][n][k] = AfterCompletion(actionStatus[r][n][k])
  BY <1>1 DEF TypeOK
<1>3. \A q \in Runs \ {r} : actionStatus'[q] = actionStatus[q]
  BY <1>1 DEF TypeOK
<1> QED BY <1>1, <1>2, <1>3, ReleaseRunValues DEF EndsAttempt, AfterCompletion

LEMMA AttemptEnds ==
  ASSUME TypeOK, OneLeasedAttempt, AskedAfterStart, NEW r \in Runs,
         \/ RecoverExpiredLease(r) \/ CancelRun(r)
         \/ \E n \in Attempts : RejectAttemptStart(r, n) \/ \E c \in Conclusions : CompleteRun(r, n, c)
  PROVE  EndsAttempt(r)
<1>1. CASE RecoverExpiredLease(r)
  <2>1. /\ actionStatus' = [actionStatus EXCEPT ![r][runAttempt[r]] =
             [k \in Keys |-> AfterInterruption(@[k])]]
        /\ ReleaseRun(r, "queued")
    BY <1>1 DEF RecoverExpiredLease
  <2>2. ASSUME NEW n \in Attempts, NEW k \in Keys, runAttempt[r] = n
        PROVE  actionStatus'[r][n][k] = AfterInterruption(actionStatus[r][n][k])
    BY <2>1, <2>2 DEF TypeOK
  <2>3. \A q \in Runs \ {r} : actionStatus'[q] = actionStatus[q]
    BY <2>1 DEF TypeOK
  <2> QED BY <2>1, <2>2, <2>3, ReleaseRunValues DEF EndsAttempt, AfterInterruption
<1>2. CASE CancelRun(r)
  <2>1. /\ actionStatus' = [actionStatus EXCEPT ![r] =
             [m \in Attempts |-> [k \in Keys |-> AfterCancellation(@[m][k])]]]
        /\ ReleaseRun(r, "cancelled")
    BY <1>2 DEF CancelRun
  <2>2. \A n \in Attempts, k \in Keys :
          actionStatus'[r][n][k] = AfterCancellation(actionStatus[r][n][k])
    BY <2>1 DEF TypeOK
  <2>3. \A q \in Runs \ {r} : actionStatus'[q] = actionStatus[q]
    BY <2>1 DEF TypeOK
  <2> QED BY <2>1, <2>2, <2>3, ReleaseRunValues DEF EndsAttempt, AfterCancellation
<1>3. ASSUME NEW n \in Attempts, RejectAttemptStart(r, n) PROVE EndsAttempt(r)
  <2>1. /\ UNCHANGED actionStatus /\ ReleaseRun(r, "queued")
        /\ runAttempt[r] = n /\ stage[r][n] = "offered"
    BY <1>3 DEF RejectAttemptStart, actionVars, ActiveAttemptLease
  <2>2. \A k \in Keys : actionStatus[r][n][k] = "none"
    BY <2>1 DEF AskedAfterStart
  <2> QED BY <2>1, <2>2, ReleaseRunValues DEF EndsAttempt
<1>4. ASSUME NEW n \in Attempts, NEW c \in Conclusions, CompleteRun(r, n, c) PROVE EndsAttempt(r)
  BY <1>4, CompleteEnds DEF CompleteRun, AcceptsCompletion
<1> QED BY <1>1, <1>2, <1>3, <1>4

\* A claim leases a run that nobody held; the others keep their attempt.
LEMMA ClaimRuns ==
  ASSUME TypeOK, OneLeasedAttempt, NEW w \in Runners, ClaimNextRun(w)
  PROVE  /\ UNCHANGED actionStatus
         /\ \A q \in Runs :
              \/ runAttempt'[q] = runAttempt[q]
                 /\ (runStatus'[q] = runStatus[q] \/ runAttempt[q] = NoAttempt)
              \/ runAttempt[q] = NoAttempt /\ runStatus'[q] = "assigned"
<1>1. \A q \in Queued : q \in Runs /\ runAttempt[q] = NoAttempt
  BY DEF Queued, OneLeasedAttempt, LeaseColumns, HeldStatus
<1>2. PICK b \in SUBSET Queued : ParkBlocked(b) \/ \E r \in Queued : AssignAttempt(w, r, b)
  <2>1. PICK routed \in SUBSET {r \in Queued : Eligible(r, w)}, seen \in SUBSET Queued :
          LET blocked == {r \in seen : Blocked(r, routed)} IN
          ParkBlocked(blocked) \/ \E r \in routed : Claimable(r, routed) /\ AssignAttempt(w, r, blocked)
    BY DEF ClaimNextRun
  <2>2. {r \in seen : Blocked(r, routed)} \in SUBSET Queued
    OBVIOUS
  <2> QED BY <2>1, <2>2
<1>3. CASE ParkBlocked(b)
  BY <1>1, <1>3 DEF ParkBlocked, actionVars
<1>4. ASSUME NEW r \in Queued, AssignAttempt(w, r, b)
      PROVE  /\ UNCHANGED actionStatus
             /\ \A q \in Runs :
                  \/ runAttempt'[q] = runAttempt[q]
                     /\ (runStatus'[q] = runStatus[q] \/ runAttempt[q] = NoAttempt)
                  \/ runAttempt[q] = NoAttempt /\ runStatus'[q] = "assigned"
  <2>1. /\ runAttempt' = [runAttempt EXCEPT ![r] = lastNumber[r] + 1]
        /\ runStatus' = [q \in Runs |-> IF q = r THEN "assigned"
                                        ELSE IF q \in b THEN "needs_approval" ELSE runStatus[q]]
        /\ UNCHANGED actionStatus
    BY <1>4 DEF AssignAttempt, actionVars
  <2> QED BY <1>1, <2>1 DEF TypeOK
<1> QED BY <1>2, <1>3, <1>4

LEMMA ExecutingOwnedStep ==
  ASSUME TypeOK, OneLeasedAttempt, AskedAfterStart, SupersededCancelled, ExecutingOwned, [Next]_vars
  PROVE  ExecutingOwned'
<1>1. ASSUME \A r \in Runs, n \in Attempts, k \in Keys :
               actionStatus'[r][n][k] = "executing" =>
                 actionStatus[r][n][k] = "executing" /\ runAttempt'[r] = runAttempt[r]
      PROVE  ExecutingOwned'
  BY <1>1 DEF ExecutingOwned
<1>2. CASE UNCHANGED <<runAttempt, actionStatus>>
  BY <1>1, <1>2
<1>3. ASSUME NEW r \in Runs, EndsAttempt(r), QuietStep PROVE ExecutingOwned'
  BY <1>1, <1>3 DEF EndsAttempt, QuietStep, Moves, ExecutingOwned
<1>4. ASSUME NEW r \in Runs,
             CreateRun(r) \/ RecoverExpiredLease(r) \/ CancelRun(r) \/ AccessExpires(r)
      PROVE  ExecutingOwned'
  BY <1>2, <1>3, <1>4, AttemptEnds, StoreQuiet DEF CreateRun, AccessExpires, runVars, actionVars
<1>5. ASSUME NEW r \in Runs, NEW n \in Attempts, AttemptStep(r, n) PROVE ExecutingOwned'
  <2>1. QuietStep
    BY <1>5, StoreQuiet
  <2>2. CASE RunnerStops(r, n) \/ MarkRunning(r, n) \/ Heartbeat(r, n)
    BY <1>2, <2>2 DEF RunnerStops, MarkRunning, Heartbeat, runVars, actionVars
  <2>3. CASE RejectAttemptStart(r, n) \/ \E c \in Conclusions : CompleteRun(r, n, c)
    BY <1>3, <2>1, <2>3, AttemptEnds
  <2>4. CASE RunTimesOut(r, n)
    <3>1. EndsAttempt(r) \/ UNCHANGED <<runAttempt, actionStatus>>
      BY <2>4, CompleteEnds DEF RunTimesOut, AcceptsCompletion, runVars
    <3> QED BY <1>2, <1>3, <2>1, <3>1
  <2> QED BY <1>5, <2>2, <2>3, <2>4 DEF AttemptStep
<1>6. ASSUME NEW r \in Runs, NEW n \in Attempts, NEW k \in Keys, ActionStep(r, n, k)
      PROVE  ExecutingOwned'
  <2>1. UNCHANGED runAttempt
    BY <1>6 DEF ActionStep, RequestNewAction, RequestReleasedAction, RequestDriftedAction,
                RecordApprovalDecision, ResolveActionPermission, RecordMaterialActionReceipt,
                ReconcileUnknownMaterialAction, unchangedByPermission, runVars
  <2>2. CASE QuietStep
    BY <1>1, <2>1, <2>2 DEF QuietStep, Moves
  <2>3. CASE ActionShape(r, n, k)
    <3>1. DecisionStep(r, n, k) \/ (runAttempt[r] = n /\ \E t : Becomes(r, n, k, t))
      BY <2>3 DEF ActionShape, AskStep, ReleaseStep, AllowStep, Executing, ActiveAttemptLease
    <3> QED BY <2>1, <3>1 DEF DecisionStep, Becomes, ExecutingOwned
  <2> QED BY <1>6, <2>2, <2>3, ActionStepShape
<1>7. ASSUME NEW w \in Runners, ClaimNextRun(w) PROVE ExecutingOwned'
  BY <1>7, ClaimRuns, AttemptsFacts DEF ExecutingOwned
<1>8. CASE Tick \/ UNCHANGED vars
  BY <1>2, <1>8 DEF Tick, vars, runVars, actionVars
<1> QED BY <1>4, <1>5, <1>6, <1>7, <1>8 DEF Next, RunStep

\* A run stays parked with a question, or is not parked any more.
LEMMA ParkedKept ==
  ASSUME ParkedHasWaiting,
         \A q \in Runs :
           \/ runAttempt'[q] = NoAttempt \/ runStatus'[q] # "needs_approval"
           \/ /\ runStatus'[q] = runStatus[q] /\ runAttempt'[q] = runAttempt[q]
              /\ \A k \in Keys : actionStatus[q][runAttempt[q]][k] = "waiting_approval" =>
                                   actionStatus'[q][runAttempt[q]][k] = "waiting_approval"
  PROVE  ParkedHasWaiting'
BY DEF ParkedHasWaiting

LEMMA ParkedStep ==
  ASSUME TypeOK, OneLeasedAttempt, AskedAfterStart, SupersededCancelled, ParkedHasWaiting, [Next]_vars
  PROVE  ParkedHasWaiting'
<1>1. CASE UNCHANGED <<runStatus, runAttempt, actionStatus>>
  BY <1>1, ParkedKept
<1>2. ASSUME NEW r \in Runs, EndsAttempt(r) PROVE ParkedHasWaiting'
  BY <1>2, ParkedKept DEF EndsAttempt
<1>3. ASSUME NEW r \in Runs,
             CreateRun(r) \/ RecoverExpiredLease(r) \/ CancelRun(r) \/ AccessExpires(r)
      PROVE  ParkedHasWaiting'
  <2>1. CASE CreateRun(r)
    <3>1. \A q \in Runs : runStatus'[q] = IF q = r THEN "queued" ELSE runStatus[q]
      BY <2>1 DEF CreateRun, TypeOK
    <3> QED BY <2>1, <3>1, ParkedKept DEF CreateRun, actionVars
  <2>2. CASE AccessExpires(r)
    BY <1>1, <2>2 DEF AccessExpires, runVars, actionVars
  <2>3. CASE RecoverExpiredLease(r) \/ CancelRun(r)
    BY <1>2, <2>3, AttemptEnds
  <2> QED BY <1>3, <2>1, <2>2, <2>3
<1>4. ASSUME NEW r \in Runs, NEW n \in Attempts, AttemptStep(r, n) PROVE ParkedHasWaiting'
  <2>1. CASE RunnerStops(r, n) \/ Heartbeat(r, n)
    BY <1>1, <2>1 DEF RunnerStops, Heartbeat, runVars, actionVars
  <2>2. CASE MarkRunning(r, n)
    <3>1. /\ UNCHANGED <<runAttempt, actionStatus>>
          /\ UNCHANGED runStatus \/ runStatus' = [runStatus EXCEPT ![r] = "running"]
      BY <2>2 DEF MarkRunning, actionVars
    <3>2. \A q \in Runs : runStatus'[q] = runStatus[q] \/ runStatus'[q] = "running"
      BY <3>1 DEF TypeOK
    <3> QED BY <3>1, <3>2, ParkedKept
  <2>3. CASE RejectAttemptStart(r, n) \/ \E c \in Conclusions : CompleteRun(r, n, c)
    BY <1>2, <2>3, AttemptEnds
  <2>4. CASE RunTimesOut(r, n)
    <3>1. EndsAttempt(r) \/ UNCHANGED <<runStatus, runAttempt, actionStatus>>
      BY <2>4, CompleteEnds DEF RunTimesOut, AcceptsCompletion, runVars
    <3> QED BY <1>1, <1>2, <3>1
  <2> QED BY <1>4, <2>1, <2>2, <2>3, <2>4 DEF AttemptStep
\* A question is answered, and the run resumed, in one step.
<1>5. ASSUME NEW r \in Runs, NEW n \in Attempts, NEW k \in Keys, ActionStep(r, n, k)
      PROVE  ParkedHasWaiting'
  <2>1. UNCHANGED runAttempt
    BY <1>5 DEF ActionStep, RequestNewAction, RequestReleasedAction, RequestDriftedAction,
                RecordApprovalDecision, ResolveActionPermission, RecordMaterialActionReceipt,
                ReconcileUnknownMaterialAction, unchangedByPermission, runVars
  <2>2. ASSUME UNCHANGED runStatus, NEW m \in Attempts, actionStatus[r][m][k] # "waiting_approval",
               NEW t, SetAction(r, m, k, t)
        PROVE  ParkedHasWaiting'
    <3>1. \A q \in Runs, j \in Keys : runAttempt[q] # NoAttempt =>
            (actionStatus[q][runAttempt[q]][j] = "waiting_approval" =>
               actionStatus'[q][runAttempt[q]][j] = "waiting_approval")
      <4>1. \A q \in Runs : runAttempt[q] # NoAttempt => runAttempt[q] \in Attempts
        BY AttemptsFacts DEF TypeOK
      <4>2. Becomes(r, m, k, t)
        BY <2>2, SetActionBecomes
      <4> QED BY <2>2, <4>1, <4>2 DEF Becomes
    <3> QED BY <2>1, <2>2, <3>1, ParkedKept
  <2>3. ASSUME ResumeRun(r), runAttempt[r] = n, NEW t, SetAction(r, n, k, t) PROVE ParkedHasWaiting'
    <3>1. \A q \in Runs : runStatus'[q] = IF q = r THEN "running" ELSE runStatus[q]
      BY <2>3 DEF ResumeRun, TypeOK
    <3>2. \A q \in Runs \ {r} : actionStatus'[q] = actionStatus[q]
      BY <2>3 DEF SetAction, TypeOK
    <3> QED BY <2>1, <3>1, <3>2, ParkedKept
  <2>4. ASSUME NEW mode \in ApprovalModes, RequestNewAction(r, n, k, mode) PROVE ParkedHasWaiting'
    <3>1. actionStatus[r][n][k] = "none" /\ runAttempt[r] = n
      BY <2>4, NewActionFresh DEF RequestNewAction, Executing, ActiveAttemptLease
    <3>2. CASE UNCHANGED runStatus
      BY <2>2, <2>4, <3>1, <3>2 DEF RequestNewAction
    <3>3. CASE /\ SetAction(r, n, k, "waiting_approval")
               /\ runStatus' = [runStatus EXCEPT ![r] = "needs_approval"]
      <4>1. \A q \in Runs \ {r} : actionStatus'[q] = actionStatus[q] /\ runStatus'[q] = runStatus[q]
        BY <3>3 DEF SetAction, TypeOK
      <4>2. actionStatus'[r][n][k] = "waiting_approval"
        BY <3>3 DEF SetAction, TypeOK
      <4> QED BY <2>1, <3>1, <4>1, <4>2 DEF ParkedHasWaiting
    <3> QED BY <2>4, <3>2, <3>3 DEF RequestNewAction
  <2>5. CASE RequestReleasedAction(r, n, k)
    BY <2>2, <2>5 DEF RequestReleasedAction, LatestAction
  <2>6. CASE RequestDriftedAction(r, n, k)
    BY <2>2, <2>3, <2>6 DEF RequestDriftedAction, Executing, ActiveAttemptLease
  <2>7. ASSUME NEW d \in Decisions, RecordApprovalDecision(r, n, k, d) PROVE ParkedHasWaiting'
    BY <1>1, <2>7 DEF RecordApprovalDecision, runVars
  <2>8. CASE ResolveActionPermission(r, n, k)
    BY <2>2, <2>3, <2>8 DEF ResolveActionPermission, Executing, ActiveAttemptLease
  <2>9. ASSUME NEW o, RecordMaterialActionReceipt(r, n, k, o) \/ ReconcileUnknownMaterialAction(r, n, k, o)
        PROVE  ParkedHasWaiting'
    BY <2>2, <2>9 DEF RecordMaterialActionReceipt, ReconcileUnknownMaterialAction
  <2> QED BY <1>5, <2>4, <2>5, <2>6, <2>7, <2>8, <2>9 DEF ActionStep
<1>6. ASSUME NEW w \in Runners, ClaimNextRun(w) PROVE ParkedHasWaiting'
  BY <1>6, ClaimRuns, ParkedKept
<1>7. CASE Tick \/ UNCHANGED vars
  BY <1>1, <1>7 DEF Tick, vars, runVars, actionVars
<1> QED BY <1>3, <1>4, <1>5, <1>6, <1>7 DEF Next, RunStep

-----------------------------------------------------------------------------

LEMMA InitActionInv == Init => ActionInv
BY DEF Init, ActionInv, AskedAfterStart, SupersededCancelled, ExecutingOwned, ParkedHasWaiting

\* The tables, the leases and the actions, together.
LedgerInv == TypeOK /\ OneLeasedAttempt /\ ActionInv

LEMMA LedgerInvStep == LedgerInv /\ [Next]_vars => LedgerInv'
BY NextTypeOK, NextOneLeased, AskedStep, SupersededStep, ExecutingOwnedStep, ParkedStep
DEF LedgerInv, ActionInv

LEMMA LedgerInvariant == Spec => []LedgerInv
<1>1. Init => LedgerInv
  BY InitTypeOK, InitOneLeased, InitActionInv DEF LedgerInv
<1> QED BY <1>1, LedgerInvStep, PTL DEF Spec

\* Whatever ends an attempt settles what it left in flight: by expiry,
\* completion, timeout or cancellation alike, an executing action is the leased
\* attempt's.
THEOREM InFlightOwned == Spec => []ExecutingOwned
<1>1. LedgerInv => ExecutingOwned
  BY DEF LedgerInv, ActionInv
<1> QED BY <1>1, LedgerInvariant, PTL

\* A leased run is never parked with nothing to decide.
THEOREM ParkedAsks == Spec => []ParkedHasWaiting
<1>1. LedgerInv => ParkedHasWaiting
  BY DEF LedgerInv, ActionInv
<1> QED BY <1>1, LedgerInvariant, PTL

-----------------------------------------------------------------------------
(* Let loose once, and not forgotten *)

\* A step lets a material action loose only where none of its identity was let
\* loose before, and what was let loose never falls back.
ReleaseInv == MaterialReleasedOnce /\ ReleaseNotForgotten

LEMMA NotForgottenStep ==
  ASSUME LedgerInv, ReleaseNotForgotten, [Next]_vars
  PROVE  ReleaseNotForgotten'
<1>1. TypeOK /\ OneLeasedAttempt /\ AskedAfterStart /\ SupersededCancelled
  BY DEF LedgerInv, ActionInv
<1>2. CASE QuietStep
  BY <1>2 DEF QuietStep, Moves, ReleaseNotForgotten, Material
<1>3. ASSUME NEW r \in Runs, NEW n \in Attempts, NEW k \in Keys, ActionShape(r, n, k)
      PROVE  ReleaseNotForgotten'
  <2>1. CASE AskStep(r, n, k)
    BY <2>1 DEF AskStep, Fresh, Becomes, ReleaseNotForgotten, Material
  <2>2. CASE ReleaseStep(r, n, k)
    BY <2>2 DEF ReleaseStep, Becomes, ReleaseNotForgotten, Material
  <2>3. CASE AllowStep(r, n, k)
    BY <2>3 DEF AllowStep, Becomes, ReleaseNotForgotten, Material
  <2>4. CASE DecisionStep(r, n, k)
    BY <2>4 DEF DecisionStep, ReleaseNotForgotten
  <2> QED BY <1>3, <2>1, <2>2, <2>3, <2>4 DEF ActionShape
<1> QED BY <1>1, <1>2, <1>3, NextShape

\* When a material action is let loose, neither it nor, if it is reusable, any
\* action of its key in the run was let loose before.
LEMMA ReleasedFresh ==
  ASSUME LedgerInv, ReleaseNotForgotten, NEW r \in Runs, NEW n \in Attempts, NEW k \in Keys,
         ReleaseStep(r, n, k)
  PROVE  /\ k \in Material /\ released[r][n][k] = 0
         /\ k \notin OneShotKeys => \A m \in Attempts : released[r][m][k] = 0
<1>1. TypeOK /\ OneLeasedAttempt /\ AskedAfterStart /\ SupersededCancelled
  BY DEF LedgerInv, ActionInv
<1>2. /\ Executing(r, n) /\ k \in Material
      /\ Fresh(r, n, k) \/ actionStatus[r][n][k] = "waiting_approval"
  BY DEF ReleaseStep, Decided
<1>3. ASSUME NEW m \in Attempts,
             actionStatus[r][m][k] \in {"none", "waiting_approval", "cancelled"}
      PROVE  released[r][m][k] = 0
  <2>1. released[r][m][k] \in Nat
    BY <1>1 DEF TypeOK
  <2> QED BY <1>2, <1>3, <2>1 DEF ReleaseNotForgotten
<1>4. ASSUME k \notin OneShotKeys, NEW m \in Attempts
      PROVE  actionStatus[r][m][k] \in {"none", "waiting_approval", "cancelled"}
  <2>1. m > n => actionStatus[r][m][k] = "none"
    BY <1>1, <1>2, NothingLater
  <2>2. m < n /\ actionStatus[r][n][k] = "waiting_approval" =>
          actionStatus[r][m][k] \in {"none", "cancelled"}
    BY <1>1, <1>4 DEF SupersededCancelled
  <2>3. m > n \/ m = n \/ m < n
    BY AttemptsFacts
  <2> QED BY <1>2, <1>4, <2>1, <2>2, <2>3 DEF Fresh
<1> QED BY <1>2, <1>3, <1>4 DEF Fresh

LEMMA ReleasedOnceStep ==
  ASSUME LedgerInv, ReleaseInv, [Next]_vars
  PROVE  MaterialReleasedOnce'
<1>1. TypeOK /\ OneLeasedAttempt /\ AskedAfterStart /\ SupersededCancelled
  BY DEF LedgerInv, ActionInv
<1>2. CASE UNCHANGED released
  BY <1>2 DEF ReleaseInv, MaterialReleasedOnce
<1>3. ASSUME NEW r \in Runs, NEW n \in Attempts, NEW k \in Keys, ReleaseStep(r, n, k)
      PROVE  MaterialReleasedOnce'
  <2>1. /\ k \in Material /\ released[r][n][k] = 0
        /\ k \notin OneShotKeys => \A m \in Attempts : released[r][m][k] = 0
    BY <1>3, ReleasedFresh DEF ReleaseInv
  <2>2. \A q \in Runs, m \in Attempts, j \in Keys :
          released'[q][m][j] = IF q = r /\ m = n /\ j = k THEN 1 ELSE released[q][m][j]
    BY <1>3, <2>1 DEF ReleaseStep
  <2> QED BY <2>1, <2>2 DEF ReleaseInv, MaterialReleasedOnce, Material
<1> QED BY <1>1, <1>2, <1>3, NextShape DEF QuietStep, ActionShape, AskStep, AllowStep, DecisionStep

LEMMA ReleaseInvariant == Spec => []ReleaseInv
<1>1. Init => ReleaseInv
  BY DEF Init, ReleaseInv, MaterialReleasedOnce, ReleaseNotForgotten, Material
<1>2. LedgerInv /\ ReleaseInv /\ [Next]_vars => ReleaseInv'
  BY NotForgottenStep, ReleasedOnceStep DEF ReleaseInv
<1> QED BY <1>1, <1>2, LedgerInvariant, PTL DEF Spec

\* A material action is let loose at most once: a reusable one over all the
\* attempts of its run, whatever crashes, expiries and replays come between.
THEOREM LetLooseOnce == Spec => []MaterialReleasedOnce
<1>1. ReleaseInv => MaterialReleasedOnce
  BY DEF ReleaseInv
<1> QED BY <1>1, ReleaseInvariant, PTL

\* A material action let loose is never filed as one that did not happen.
THEOREM NotForgotten == Spec => []ReleaseNotForgotten
<1>1. ReleaseInv => ReleaseNotForgotten
  BY DEF ReleaseInv
<1> QED BY <1>1, ReleaseInvariant, PTL

-----------------------------------------------------------------------------
(* Let loose on a human's word *)

\* Every grant was given: some reusable action of its scope was allowed for the run.
GrantsApproved ==
  \A g \in grants : \E m \in Attempts, j \in Keys \ OneShotKeys :
    ScopeOf[j] = g.scope /\ decision[g.run][m][j] = "allow_run"

\* Only what was asked is decided.
DecidedAsked ==
  \A r \in Runs, n \in Attempts, k \in Keys :
    decision[r][n][k] # Undecided => actionStatus[r][n][k] # "none"

ApprovalInv == GrantsApproved /\ DecidedAsked /\ NoReleaseWithoutApproval

\* Decisions stay as they are taken.
LEMMA DecisionsStay ==
  ASSUME TypeOK, OneLeasedAttempt, AskedAfterStart, SupersededCancelled, [Next]_vars
  PROVE  \A r \in Runs, n \in Attempts, k \in Keys :
           decision[r][n][k] # Undecided => decision'[r][n][k] = decision[r][n][k]
BY NextShape DEF QuietStep, ActionShape, AskStep, ReleaseStep, AllowStep, DecisionStep

\* New grants come from decisions.
LEMMA GrantsFrom ==
  ASSUME NEW r \in Runs, NEW n \in Attempts, NEW k \in Keys,
         GrantsApproved, UNCHANGED decision, grants' = GrantsAfter(r, k, decision[r][n][k])
  PROVE  GrantsApproved'
BY DEF GrantsApproved, GrantsAfter

LEMMA ApprovalStep ==
  ASSUME LedgerInv, ReleaseInv, ApprovalInv, [Next]_vars
  PROVE  ApprovalInv'
<1>1. TypeOK /\ OneLeasedAttempt /\ AskedAfterStart /\ SupersededCancelled /\ TypeOK'
  BY LedgerInvStep DEF LedgerInv, ActionInv
<1>2. \A r \in Runs, n \in Attempts, k \in Keys :
        decision[r][n][k] # Undecided => decision'[r][n][k] = decision[r][n][k]
  BY <1>1, DecisionsStay
<1>3. GrantsApproved'
  <2>1. CASE UNCHANGED grants
    <3>1. SUFFICES ASSUME NEW g \in grants
                   PROVE  \E m \in Attempts, j \in Keys \ OneShotKeys :
                            ScopeOf[j] = g.scope /\ decision'[g.run][m][j] = "allow_run"
      BY <2>1 DEF GrantsApproved
    <3>2. g.run \in Runs
      BY <1>1 DEF TypeOK, Grant
    <3>3. PICK m \in Attempts, j \in Keys \ OneShotKeys :
            ScopeOf[j] = g.scope /\ decision[g.run][m][j] = "allow_run"
      BY DEF ApprovalInv, GrantsApproved
    <3> QED BY <1>2, <3>2, <3>3 DEF Undecided
  <2>2. ASSUME NEW r \in Runs, NEW n \in Attempts, NEW k \in Keys,
               ReleaseStep(r, n, k) \/ AllowStep(r, n, k), grants' # grants
        PROVE  GrantsApproved'
    BY <2>2, GrantsFrom DEF ReleaseStep, AllowStep, ApprovalInv
  <2> QED BY <1>1, <2>1, <2>2, NextShape DEF QuietStep, ActionShape, AskStep, DecisionStep
<1>4. DecidedAsked'
  <2>1. CASE QuietStep
    BY <2>1 DEF QuietStep, Moves, ApprovalInv, DecidedAsked
  <2>2. ASSUME NEW r \in Runs, NEW n \in Attempts, NEW k \in Keys, ActionShape(r, n, k)
        PROVE  DecidedAsked'
    BY <2>2 DEF ActionShape, AskStep, ReleaseStep, AllowStep, DecisionStep, Becomes, ApprovalInv, DecidedAsked
  <2> QED BY <1>1, <2>1, <2>2, NextShape
<1>5. NoReleaseWithoutApproval'
  <2>1. SUFFICES ASSUME "autonomous" \notin ApprovalModes,
                        NEW r \in Runs, NEW n \in Attempts, NEW k \in Material, released'[r][n][k] > 0
                 PROVE  \/ decision'[r][n][k] \in {"allow_once", "allow_run"}
                        \/ /\ decision'[r][n][k] = Undecided
                           /\ \E m \in Attempts, j \in Keys \ OneShotKeys :
                                ScopeOf[j] = ScopeOf[k] /\ decision'[r][m][j] = "allow_run"
    BY DEF NoReleaseWithoutApproval
  <2>2. k \in Keys
    BY DEF Material
  <2>3. CASE released[r][n][k] > 0
    <3>1. actionStatus[r][n][k] # "waiting_approval"
      BY <2>3 DEF ReleaseInv, ReleaseNotForgotten
    <3>2. decision'[r][n][k] = decision[r][n][k]
      BY <1>1, <2>2, <3>1, NextShape
      DEF QuietStep, ActionShape, AskStep, ReleaseStep, AllowStep, DecisionStep
    <3>3. \/ decision[r][n][k] \in {"allow_once", "allow_run"}
          \/ /\ decision[r][n][k] = Undecided
             /\ \E m \in Attempts, j \in Keys \ OneShotKeys :
                  ScopeOf[j] = ScopeOf[k] /\ decision[r][m][j] = "allow_run"
      BY <2>1, <2>3 DEF ApprovalInv, NoReleaseWithoutApproval
    <3> QED BY <1>2, <3>2, <3>3 DEF Undecided
  <2>4. CASE ~(released[r][n][k] > 0)
    <3>1. ReleaseStep(r, n, k)
      BY <1>1, <2>1, <2>2, <2>4, NextShape
      DEF QuietStep, ActionShape, AskStep, ReleaseStep, AllowStep, DecisionStep
    <3>2. UNCHANGED decision
      BY <3>1 DEF ReleaseStep
    <3>3. CASE Decided(r, n, k, {"allow_once", "allow_run"})
      BY <3>2, <3>3 DEF Decided
    <3>4. CASE Fresh(r, n, k) /\ GrantMatches(r, k)
      <4>1. decision[r][n][k] = Undecided
        BY <2>2, <3>4 DEF Fresh, ApprovalInv, DecidedAsked
      <4>2. \E m \in Attempts, j \in Keys \ OneShotKeys :
              ScopeOf[j] = ScopeOf[k] /\ decision[r][m][j] = "allow_run"
        BY <3>4 DEF GrantMatches, ApprovalInv, GrantsApproved
      <4> QED BY <3>2, <4>1, <4>2
    <3> QED BY <2>1, <3>1, <3>3, <3>4 DEF ReleaseStep
  <2> QED BY <2>3, <2>4
<1> QED BY <1>3, <1>4, <1>5 DEF ApprovalInv

\* Outside autonomous mode a material action is let loose only on a human's
\* word: its own approval, or an allow_run of a reusable action of its scope in
\* the same run; and never against a denial.
THEOREM ReleasedOnAWord == Spec => []NoReleaseWithoutApproval
<1>1. Init => ApprovalInv
  BY DEF Init, ApprovalInv, GrantsApproved, DecidedAsked, NoReleaseWithoutApproval, Material
<1>2. ApprovalInv => NoReleaseWithoutApproval
  BY DEF ApprovalInv
<1>3. LedgerInv /\ ReleaseInv /\ ApprovalInv /\ [Next]_vars => ApprovalInv'
  BY ApprovalStep
<1> QED BY <1>1, <1>2, <1>3, LedgerInvariant, ReleaseInvariant, PTL DEF Spec
=============================================================================
