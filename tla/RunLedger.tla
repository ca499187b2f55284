------------------------------ MODULE RunLedger ------------------------------
(***************************************************************************)
(* The run ledger of the dispatcher's store: runs, their leased and fenced *)
(* attempts, and the material actions an attempt asks permission for.      *)
(*                                                                         *)
(* Each operation of the store runs in one synchronous SQLite transaction, *)
(* so an operation is one action here; runners, humans and the clock       *)
(* interleave between operations.  A lease is kept as the number of clock  *)
(* ticks it has left: 0 is "expired" (expiresAt <= now), NoLease is the    *)
(* null column.  The runner's credential for an attempt is the attempt's   *)
(* number: a runner may use any credential it was ever given, at any time. *)
(***************************************************************************)
EXTENDS Integers, FiniteSets

CONSTANTS
  Runs,                   \* run identities
  Profiled,               \* runs admitted with a captured access profile
  Runners,                \* paired runners
  NoRunner,               \* the null runner column
  Keys,                   \* semantic keys of material action requests
  OneShotKeys,            \* keys whose scope denies reuse: their key is per attempt
  LowRiskKeys,            \* keys of non-material actions
  BlockedKeys,            \* keys the internal guardrails block
  ScopeOf,                \* action family and scope of each key: what a run grant covers
  ApprovalModes,          \* approval modes a runner may run with
  Conclusions,            \* conclusions a runner may report
  Capacity,               \* maxConcurrentRuns of each runner's registration
  Factory,                \* the runs of one factory workstream
  MaxConcurrentRuns,      \* its concurrency budget
  MaxAttemptsPerRun,      \* its attempts-per-run budget
  MaxWorkstreamAttempts,  \* its cost budget, in attempts
  LeaseTicks,             \* length of a lease
  MaxAttempts             \* bound of the model: attempts per run

Attempts == 1..MaxAttempts
NoLease == -1
NoAttempt == 0

TerminalStatus == {"succeeded", "failed", "cancelled", "interrupted", "timed_out"}
HeldStatus == {"assigned", "running", "needs_approval"}
RunStatus == {"absent", "queued"} \cup HeldStatus \cup TerminalStatus
Live == {"assigned", "running"}
AttemptStatus == {"none", "needs_human"} \cup Live \cup TerminalStatus
Stage == {"none", "offered", "executing", "timed_out", "done"}
ActionStatus == {"none", "waiting_approval", "authorized", "executing",
                 "succeeded", "failed", "unknown", "cancelled"}
Decisions == {"allow_once", "allow_run", "deny"}
AllConclusions == {"success", "failure", "cancelled", "interrupted", "timed_out", "needs_human"}

ASSUME ConstantsAssumption ==
  /\ NoRunner \notin Runners
  /\ \A k \in OneShotKeys, j \in Keys \ OneShotKeys : ScopeOf[k] # ScopeOf[j]
  /\ OneShotKeys \subseteq Keys /\ LowRiskKeys \subseteq Keys /\ BlockedKeys \subseteq Keys
  /\ ApprovalModes \subseteq {"ask", "auto", "autonomous"}
  /\ Conclusions \subseteq AllConclusions
  /\ Capacity \in [Runners -> Nat]
  /\ Factory \subseteq Runs /\ Profiled \subseteq Runs
  /\ MaxConcurrentRuns \in Nat /\ MaxAttemptsPerRun \in Nat /\ MaxWorkstreamAttempts \in Nat
  /\ LeaseTicks \in Nat \ {0}
  /\ MaxAttempts \in Nat \ {0}

VARIABLES
  runStatus,      \* runs.status; "absent" before the run is created
  runRunner,      \* runs.assignedRunnerId
  runAttempt,     \* runs.currentAttemptId, as an attempt number
  runLease,       \* runs.leaseExpiresAt
  lastNumber,     \* highest attempts.number of the run, 0 without attempts
  rejected,       \* runs.routingRejections: the runners whose preflight refused the run
  runningEvents,  \* attempts with a run.running event on the run's timeline
  accessExpired,  \* runs whose captured access profile expired or was revoked
  attStatus, attRunner, attLease,     \* the attempts table, by run and number
  stage,          \* what the runner of an attempt is doing with it
  actionStatus,   \* material_actions.status, by run, attempt and key
  decision,       \* the approval decision of the action's proposal
  grants,         \* the allow_run grants, by run and scope
  released        \* how often the store answered "authorized" for a material action

runVars == <<runStatus, runRunner, runAttempt, runLease>>
attemptVars == <<lastNumber, attStatus, attRunner, attLease>>
routeVars == <<rejected, runningEvents, accessExpired>>
actionVars == <<actionStatus, decision, grants, released>>
vars == <<runVars, attemptVars, routeVars, stage, actionVars>>

Undecided == "none"
Grant == [run : Runs, scope : {ScopeOf[k] : k \in Keys}]

\* The values each table may hold.
TypeOK ==
  /\ runStatus \in [Runs -> RunStatus]
  /\ runRunner \in [Runs -> Runners \cup {NoRunner}]
  /\ runAttempt \in [Runs -> 0..MaxAttempts]
  /\ runLease \in [Runs -> NoLease..LeaseTicks]
  /\ lastNumber \in [Runs -> 0..MaxAttempts]
  /\ rejected \in [Runs -> SUBSET Runners]
  /\ runningEvents \in [Runs -> SUBSET Attempts]
  /\ accessExpired \in SUBSET Runs
  /\ attStatus \in [Runs -> [Attempts -> AttemptStatus]]
  /\ attRunner \in [Runs -> [Attempts -> Runners \cup {NoRunner}]]
  /\ attLease \in [Runs -> [Attempts -> 0..LeaseTicks]]
  /\ stage \in [Runs -> [Attempts -> Stage]]
  /\ actionStatus \in [Runs -> [Attempts -> [Keys -> ActionStatus]]]
  /\ decision \in [Runs -> [Attempts -> [Keys -> Decisions \cup {Undecided}]]]
  /\ grants \in SUBSET Grant
  /\ released \in [Runs -> [Attempts -> [Keys -> Nat]]]

Init ==
  /\ runStatus = [r \in Runs |-> "absent"]
  /\ runRunner = [r \in Runs |-> NoRunner]
  /\ runAttempt = [r \in Runs |-> NoAttempt]
  /\ runLease = [r \in Runs |-> NoLease]
  /\ lastNumber = [r \in Runs |-> 0]
  /\ rejected = [r \in Runs |-> {}]
  /\ runningEvents = [r \in Runs |-> {}]
  /\ accessExpired = {}
  /\ attStatus = [r \in Runs |-> [n \in Attempts |-> "none"]]
  /\ attRunner = [r \in Runs |-> [n \in Attempts |-> NoRunner]]
  /\ attLease = [r \in Runs |-> [n \in Attempts |-> 0]]
  /\ stage = [r \in Runs |-> [n \in Attempts |-> "none"]]
  /\ actionStatus = [r \in Runs |-> [n \in Attempts |-> [k \in Keys |-> "none"]]]
  /\ decision = [r \in Runs |-> [n \in Attempts |-> [k \in Keys |-> Undecided]]]
  /\ grants = {}
  /\ released = [r \in Runs |-> [n \in Attempts |-> [k \in Keys |-> 0]]]

-----------------------------------------------------------------------------
(* Leases and fences *)

\* (fault) A fence that compares the attempt row alone.
FenceWithoutRun(r, n) == attStatus[r][n] # "none" /\ attRunner[r][n] # NoRunner

\* The caller holds attempt n's credential and n is the run's leased attempt.
ActiveAttemptLease(r, n) ==
  /\ runAttempt[r] = n
  /\ runRunner[r] = attRunner[r][n]
  /\ attStatus[r][n] \in Live
  /\ attLease[r][n] > 0

\* The executor of attempt n is alive at its runner, and the fence holds.
Executing(r, n) == stage[r][n] = "executing" /\ ActiveAttemptLease(r, n)
Leaves(r, n, s) == stage' = [stage EXCEPT ![r][n] = s]

\* (fault) The attempt column is not cleared.
ReleaseKeepsAttempt(r, status) ==
  /\ runStatus' = [runStatus EXCEPT ![r] = status]
  /\ runRunner' = [runRunner EXCEPT ![r] = NoRunner]
  /\ runLease' = [runLease EXCEPT ![r] = NoLease]
  /\ UNCHANGED runAttempt

\* Every way out of an attempt clears the run's lease columns together.
ReleaseRun(r, status) ==
  /\ runStatus' = [runStatus EXCEPT ![r] = status]
  /\ runRunner' = [runRunner EXCEPT ![r] = NoRunner]
  /\ runAttempt' = [runAttempt EXCEPT ![r] = NoAttempt]
  /\ runLease' = [runLease EXCEPT ![r] = NoLease]

\* (fault) Whatever the attempt left behind did not happen.
InterruptionCancels(s) == IF s \in {"executing", "waiting_approval"} THEN "cancelled" ELSE s
\* (fault) Completion leaves the actions alone.
CompletionSettlesNothing(s) == s

\* What the end of an attempt makes of the actions it left behind.
AfterInterruption(s) ==
  CASE s = "executing" -> "unknown" [] s = "waiting_approval" -> "cancelled" [] OTHER -> s
AfterCompletion(s) == IF s = "executing" THEN "unknown" ELSE s
AfterCancellation(s) ==
  CASE s = "executing" -> "unknown"
    [] s \in {"waiting_approval", "authorized"} -> "cancelled"
    [] OTHER -> s

-----------------------------------------------------------------------------
(* The clock and the environment *)

\* Time passes: every lease comes one tick nearer to its expiry.
Tick ==
  /\ runLease' = [r \in Runs |-> IF runLease[r] > 0 THEN runLease[r] - 1 ELSE runLease[r]]
  /\ attLease' = [r \in Runs |-> [n \in Attempts |->
                    IF attLease[r][n] > 0 THEN attLease[r][n] - 1 ELSE 0]]
  /\ UNCHANGED <<runStatus, runRunner, runAttempt, lastNumber, attStatus, attRunner,
                 routeVars, stage, actionVars>>

\* The captured access profile of r passes its expiry or revocation instant.
AccessExpires(r) ==
  /\ r \in Profiled \ accessExpired
  /\ accessExpired' = accessExpired \cup {r}
  /\ UNCHANGED <<runVars, attemptVars, rejected, runningEvents, stage, actionVars>>

\* The runner drops attempt n: the answer to its claim was lost, it crashed,
\* saw the loss of its lease, or gave up on a call that failed.
RunnerStops(r, n) ==
  /\ stage[r][n] \in {"offered", "executing"}
  /\ Leaves(r, n, "done")
  /\ UNCHANGED <<runVars, attemptVars, routeVars, actionVars>>

-----------------------------------------------------------------------------
(* Admission, claiming and the life of an attempt *)

CreateRun(r) ==
  /\ runStatus[r] = "absent"
  /\ runStatus' = [runStatus EXCEPT ![r] = "queued"]
  /\ UNCHANGED <<runRunner, runAttempt, runLease, attemptVars, routeVars, stage, actionVars>>

\* (fault) Only assigned and running runs are recovered.
ExpiredUnlessParked(r) == runStatus[r] \in Live /\ runLease[r] = 0

LeaseExpired(r) == runStatus[r] \in HeldStatus /\ runLease[r] = 0

\* First step of a runner's poll: an expired lease loses its attempt and the
\* run goes back to the queue.  Each run is recovered in its own transaction.
RecoverExpiredLease(r) ==
  /\ LeaseExpired(r)
  /\ LET n == runAttempt[r] IN
     /\ attStatus' = [attStatus EXCEPT ![r][n] = IF @ \in Live THEN "interrupted" ELSE @]
     /\ actionStatus' = [actionStatus EXCEPT ![r][n] = [k \in Keys |-> AfterInterruption(@[k])]]
  /\ ReleaseRun(r, "queued")
  /\ UNCHANGED <<lastNumber, attRunner, attLease, routeVars, stage, decision, grants, released>>

Queued == {r \in Runs : runStatus[r] = "queued"}

\* (fault) A run parked for approval does not count.
LoadWithoutParked(w) == Cardinality({r \in Runs : runStatus[r] \in Live /\ runRunner[r] = w})

\* Runs that occupy a slot of the runner, and of the workstream.
RunnerLoad(w) == Cardinality({r \in Runs : runStatus[r] \in HeldStatus /\ runRunner[r] = w})
WorkstreamActive == Cardinality({r \in Factory : runStatus[r] \in Live})
WorkstreamAttempts == Cardinality({p \in Factory \X Attempts : attStatus[p[1]][p[2]] # "none"})

\* The router may select w for r; which of the eligible runners its preference
\* order picks is left open.
Eligible(r, w) ==
  /\ w \notin rejected[r]
  /\ RunnerLoad(w) < Capacity[w]
  /\ lastNumber[r] < MaxAttempts

ConcurrencyFull(r) == r \in Factory /\ WorkstreamActive >= MaxConcurrentRuns
\* (fault) Compares the attempts made instead of the one about to be made.
BudgetSpent(r) ==
  r \in Factory /\ (lastNumber[r] > MaxAttemptsPerRun \/ WorkstreamAttempts > MaxWorkstreamAttempts)

BudgetExceeded(r) ==
  /\ r \in Factory
  /\ \/ lastNumber[r] + 1 > MaxAttemptsPerRun
     \/ WorkstreamAttempts + 1 > MaxWorkstreamAttempts

\* What the scan does with a queued run, given the runs routed to the caller.
Claimable(r, routed) ==
  r \in routed /\ r \notin accessExpired /\ ~ConcurrencyFull(r) /\ ~BudgetExceeded(r)
Blocked(r, routed) ==
  \/ r \in accessExpired
  \/ r \in routed /\ ~ConcurrencyFull(r) /\ BudgetExceeded(r)

\* The scan found nothing for w, but parked the runs it had to block.
ParkBlocked(blocked) ==
  /\ blocked # {}
  /\ runStatus' = [r \in Runs |-> IF r \in blocked THEN "needs_approval" ELSE runStatus[r]]
  /\ UNCHANGED <<runRunner, runAttempt, runLease, attemptVars, routeVars, stage, actionVars>>

\* The scan assigns r to w under a new attempt with a fresh fencing token.
AssignAttempt(w, r, blocked) ==
  /\ LET n == lastNumber[r] + 1 IN
     /\ lastNumber' = [lastNumber EXCEPT ![r] = n]
     /\ runAttempt' = [runAttempt EXCEPT ![r] = n]
     /\ attStatus' = [attStatus EXCEPT ![r][n] = "assigned"]
     /\ attRunner' = [attRunner EXCEPT ![r][n] = w]
     /\ attLease' = [attLease EXCEPT ![r][n] = LeaseTicks]
     /\ Leaves(r, n, "offered")
  /\ runStatus' = [q \in Runs |-> IF q = r THEN "assigned"
                                  ELSE IF q \in blocked THEN "needs_approval" ELSE runStatus[q]]
  /\ runRunner' = [runRunner EXCEPT ![r] = w]
  /\ runLease' = [runLease EXCEPT ![r] = LeaseTicks]
  /\ UNCHANGED <<routeVars, actionVars>>

\* Second step of the poll, one transaction: scan queued runs in cursor order,
\* park the blocked ones, assign the first claimable one.
ClaimNextRun(w) ==
  \E routed \in SUBSET {r \in Queued : Eligible(r, w)}, seen \in SUBSET Queued :
    /\ \A r \in seen : ~Claimable(r, routed)
    /\ LET blocked == {r \in seen : Blocked(r, routed)} IN
       \/ ParkBlocked(blocked)
       \/ \E r \in routed : Claimable(r, routed) /\ AssignAttempt(w, r, blocked)

\* The runner reports a failed preflight before it starts: requeue elsewhere.
\* (The code records the executor with the runner; a runner has one for a run.)
RejectAttemptStart(r, n) ==
  /\ stage[r][n] = "offered"
  /\ runStatus[r] = "assigned"
  /\ attStatus[r][n] = "assigned"
  /\ ActiveAttemptLease(r, n)
  /\ attStatus' = [attStatus EXCEPT ![r][n] = "interrupted"]
  /\ rejected' = [rejected EXCEPT ![r] = @ \cup {attRunner[r][n]}]
  /\ Leaves(r, n, "done")
  /\ ReleaseRun(r, "queued")
  /\ UNCHANGED <<lastNumber, attRunner, attLease, runningEvents, accessExpired, actionVars>>

\* The key of a start request names the runner and the run, not the attempt: a
\* key on an earlier run.running event is a replay, acknowledged and dropped.
\* (The code looks for it among the last 250 events of the run.)
StartIsReplay(r, n) == \E m \in runningEvents[r] : attRunner[r][m] = attRunner[r][n]

\* The runner asks, once, to start.  The update commits, then the event is
\* appended, then the answer travels: a crash or a lost answer can stop the
\* sequence after any of them.
MarkRunning(r, n) ==
  /\ stage[r][n] = "offered"
  /\ ActiveAttemptLease(r, n)
  /\ \/ /\ StartIsReplay(r, n)
        /\ Leaves(r, n, "executing")
        /\ UNCHANGED <<runStatus, attStatus, runningEvents>>
     \/ /\ ~StartIsReplay(r, n)
        /\ runStatus[r] \in Live
        /\ runStatus' = [runStatus EXCEPT ![r] = "running"]
        /\ attStatus' = [attStatus EXCEPT ![r][n] = "running"]
        /\ \/ Leaves(r, n, "done") /\ UNCHANGED runningEvents
           \/ /\ runningEvents' = [runningEvents EXCEPT ![r] = @ \cup {n}]
              /\ Leaves(r, n, "executing") \/ Leaves(r, n, "done")
  /\ UNCHANGED <<runRunner, runAttempt, runLease, lastNumber, attRunner, attLease,
                 rejected, accessExpired, actionVars>>

\* The runner renews the lease of a live attempt, on both tables.
Heartbeat(r, n) ==
  /\ Executing(r, n)
  /\ runStatus[r] \in HeldStatus
  /\ runLease' = [runLease EXCEPT ![r] = LeaseTicks]
  /\ attLease' = [attLease EXCEPT ![r][n] = LeaseTicks]
  /\ UNCHANGED <<runStatus, runRunner, runAttempt, lastNumber, attStatus, attRunner,
                 routeVars, stage, actionVars>>

\* (fault) The conclusion is stored as the status.
StatusIsConclusion(c) == c

RunStatusOf(c) ==
  CASE c = "success" -> "succeeded"
    [] c = "needs_human" -> "needs_approval"
    [] c = "failure" -> "failed"
    [] OTHER -> c
AttemptStatusOf(c) == IF c = "needs_human" THEN "needs_human" ELSE RunStatusOf(c)

\* The store accepts conclusion c for attempt n.
AcceptsCompletion(r, n) == ActiveAttemptLease(r, n) /\ runStatus[r] \in Live
Complete(r, n, c) ==
  /\ attStatus' = [attStatus EXCEPT ![r][n] = AttemptStatusOf(c)]
  /\ actionStatus' = [actionStatus EXCEPT ![r][n] = [k \in Keys |-> AfterCompletion(@[k])]]
  /\ ReleaseRun(r, RunStatusOf(c))

\* The runner completes its attempt.  Before it starts, the only result it can
\* send is a refusal that needs a human.
CompleteRun(r, n, c) ==
  /\ stage[r][n] = "executing" \/ (stage[r][n] = "offered" /\ c = "needs_human")
  /\ AcceptsCompletion(r, n)
  /\ Complete(r, n, c)
  /\ Leaves(r, n, "done")
  /\ UNCHANGED <<lastNumber, attRunner, attLease, routeVars, decision, grants, released>>

\* The runner's hard timeout fires: it cancels the executor, then completes
\* the attempt; a refusal of the store is taken as the loss of the run.
RunTimesOut(r, n) ==
  /\ stage[r][n] = "executing"
  /\ \/ AcceptsCompletion(r, n) /\ Complete(r, n, "timed_out")
     \/ ~AcceptsCompletion(r, n) /\ UNCHANGED <<runVars, attStatus, actionStatus>>
  /\ Leaves(r, n, "timed_out")
  /\ UNCHANGED <<lastNumber, attRunner, attLease, routeVars, decision, grants, released>>

\* (fault) Every run that exists may be cancelled.
CancellableAlways(r) == runStatus[r] # "absent"

Cancellable(r) == runStatus[r] \in {"queued"} \cup HeldStatus

\* A human stops the run, whatever it is doing.
CancelRun(r) ==
  /\ Cancellable(r)
  /\ LET n == runAttempt[r] IN
     /\ n # NoAttempt => attStatus[r][n] \in Live
     /\ attStatus' = [attStatus EXCEPT ![r] =
          [m \in Attempts |-> IF m = n THEN "cancelled" ELSE @[m]]]
  /\ actionStatus' = [actionStatus EXCEPT ![r] =
       [m \in Attempts |-> [k \in Keys |-> AfterCancellation(@[m][k])]]]
  /\ ReleaseRun(r, "cancelled")
  /\ UNCHANGED <<lastNumber, attRunner, attLease, routeVars, stage, decision, grants, released>>

-----------------------------------------------------------------------------
(* Material actions: permission, approval, receipt, reconciliation *)

\* (fault) Every key is looked up in its own attempt.
LatestInAttempt(r, n, k) == {m \in {n} : actionStatus[r][m][k] # "none"}

\* The attempt whose action is the latest of this semantic key, if any: a
\* reusable key spans the run, a one-shot key only its own attempt.
LatestAction(r, n, k) ==
  {m \in Attempts :
     /\ actionStatus[r][m][k] # "none"
     /\ k \in OneShotKeys => m = n
     /\ k \notin OneShotKeys => \A j \in Attempts : j > m => actionStatus[r][j][k] = "none"}

\* An allow_run decision covers every reusable request of its scope.  The grant
\* row of an allow_once names the one action it released, which is never asked
\* for anew: it matches no request and is left out.
GrantMatches(r, k) == k \notin OneShotKeys /\ [run |-> r, scope |-> ScopeOf[k]] \in grants
\* (fault) Any approval becomes a run grant.
EveryApprovalGrants(r, k, d) == grants \cup {[run |-> r, scope |-> ScopeOf[k]]}

GrantsAfter(r, k, d) ==
  IF d = "allow_run" /\ k \notin OneShotKeys
  THEN grants \cup {[run |-> r, scope |-> ScopeOf[k]]} ELSE grants

SetAction(r, n, k, status) == actionStatus' = [actionStatus EXCEPT ![r][n][k] = status]
\* (fault) The run stays parked.
StaysParked(r) == UNCHANGED runStatus

ResumeRun(r) == runStatus' = [runStatus EXCEPT ![r] = "running"]
CountRelease(r, n, k) ==
  released' = IF k \in LowRiskKeys THEN released ELSE [released EXCEPT ![r][n][k] = @ + 1]

unchangedByPermission == <<runRunner, runAttempt, runLease, attemptVars, routeVars, stage>>

\* A request with no usable earlier action: policy blocks it, authorizes it, or
\* parks the run until a human decides.
RequestNewAction(r, n, k, mode) ==
  /\ Executing(r, n)
  /\ \A m \in LatestAction(r, n, k) : m # n /\ actionStatus[r][m][k] = "cancelled"
  /\ LET allowed == \/ GrantMatches(r, k)
                    \/ mode = "autonomous"
                    \/ mode = "auto" /\ k \in LowRiskKeys
     IN \/ /\ k \in BlockedKeys
           /\ SetAction(r, n, k, "cancelled")
           /\ UNCHANGED <<runStatus, released>>
        \/ /\ k \notin BlockedKeys /\ allowed
           /\ SetAction(r, n, k, IF k \in LowRiskKeys THEN "authorized" ELSE "executing")
           /\ CountRelease(r, n, k)
           /\ UNCHANGED runStatus
        \/ /\ k \notin BlockedKeys /\ ~allowed
           /\ SetAction(r, n, k, "waiting_approval")
           /\ runStatus' = [runStatus EXCEPT ![r] = "needs_approval"]
           /\ UNCHANGED released
  /\ UNCHANGED <<unchangedByPermission, decision, grants>>

\* A request that meets an action already let loose: its outcome is unknown.
RequestReleasedAction(r, n, k) ==
  /\ Executing(r, n)
  /\ \E m \in LatestAction(r, n, k) :
       /\ \/ actionStatus[r][m][k] = "executing"
          \/ actionStatus[r][m][k] = "authorized" /\ m # n
       /\ SetAction(r, m, k, "unknown")
  /\ UNCHANGED <<runStatus, unchangedByPermission, decision, grants, released>>

\* A one-shot request replayed with another exact target fails closed.
RequestDriftedAction(r, n, k) ==
  /\ Executing(r, n)
  /\ k \in OneShotKeys
  /\ \/ /\ actionStatus[r][n][k] = "executing"
        /\ SetAction(r, n, k, "unknown")
        /\ UNCHANGED runStatus
     \/ /\ actionStatus[r][n][k] \in {"waiting_approval", "authorized"}
        /\ SetAction(r, n, k, "cancelled")
        /\ ResumeRun(r)
  /\ UNCHANGED <<unchangedByPermission, decision, grants, released>>

\* A human decides a waiting proposal; the first decision stands.
RecordApprovalDecision(r, n, k, d) ==
  /\ actionStatus[r][n][k] = "waiting_approval"
  /\ runStatus[r] = "needs_approval"
  /\ ActiveAttemptLease(r, n)
  /\ decision[r][n][k] = Undecided
  /\ decision' = [decision EXCEPT ![r][n][k] = d]
  /\ UNCHANGED <<runVars, attemptVars, routeVars, stage, actionStatus, grants, released>>

\* (fault) Decisions are read only while the run is parked.
DecidedWhileParked(r, n, k, ds) ==
  runStatus[r] = "needs_approval" /\ actionStatus[r][n][k] = "waiting_approval" /\ decision[r][n][k] \in ds

\* The action waits, and one of these decisions was taken.
Decided(r, n, k, ds) == actionStatus[r][n][k] = "waiting_approval" /\ decision[r][n][k] \in ds

\* The runner polls a waiting action: a decision denies or releases it and the
\* run resumes; an action already executing was released to someone else.  (The
\* code would release an authorized one too: but the runner polls only actions it
\* was told to wait for, and such an action is never authorized.)
ResolveActionPermission(r, n, k) ==
  /\ Executing(r, n)
  /\ \/ /\ actionStatus[r][n][k] = "executing"
        /\ SetAction(r, n, k, "unknown")
        /\ UNCHANGED <<runStatus, grants, released>>
     \/ /\ Decided(r, n, k, {"deny"})
        /\ SetAction(r, n, k, "cancelled")
        /\ ResumeRun(r)
        /\ UNCHANGED <<grants, released>>
     \/ /\ Decided(r, n, k, {"allow_once", "allow_run"})
        /\ SetAction(r, n, k, "executing")
        /\ grants' = GrantsAfter(r, k, decision[r][n][k])
        /\ CountRelease(r, n, k)
        /\ ResumeRun(r)
  /\ UNCHANGED <<unchangedByPermission, decision>>

\* The owner of the active attempt reports what became of a released action.
RecordMaterialActionReceipt(r, n, k, outcome) ==
  /\ Executing(r, n)
  /\ actionStatus[r][n][k] = "executing"
  /\ SetAction(r, n, k, outcome)
  /\ UNCHANGED <<runStatus, unchangedByPermission, decision, grants, released>>

\* An administrator settles an unknown outcome.
ReconcileUnknownMaterialAction(r, n, k, outcome) ==
  /\ actionStatus[r][n][k] = "unknown"
  /\ SetAction(r, n, k, outcome)
  /\ UNCHANGED <<runStatus, unchangedByPermission, decision, grants, released>>

-----------------------------------------------------------------------------

AttemptStep(r, n) ==
  \/ RunnerStops(r, n) \/ RejectAttemptStart(r, n) \/ MarkRunning(r, n)
  \/ Heartbeat(r, n) \/ RunTimesOut(r, n)
  \/ \E c \in Conclusions : CompleteRun(r, n, c)

ActionStep(r, n, k) ==
  \/ \E mode \in ApprovalModes : RequestNewAction(r, n, k, mode)
  \/ RequestReleasedAction(r, n, k)
  \/ RequestDriftedAction(r, n, k)
  \/ \E d \in Decisions : RecordApprovalDecision(r, n, k, d)
  \/ ResolveActionPermission(r, n, k)
  \/ \E o \in {"succeeded", "failed", "unknown"} : RecordMaterialActionReceipt(r, n, k, o)
  \/ \E o \in {"succeeded", "failed"} : ReconcileUnknownMaterialAction(r, n, k, o)

RunStep(r) ==
  \/ CreateRun(r) \/ RecoverExpiredLease(r) \/ CancelRun(r) \/ AccessExpires(r)
  \/ \E n \in Attempts : AttemptStep(r, n) \/ \E k \in Keys : ActionStep(r, n, k)

Next == Tick \/ (\E w \in Runners : ClaimNextRun(w)) \/ (\E r \in Runs : RunStep(r))

Spec == Init /\ [][Next]_vars

\* The clock advances; some daemon's serve loop polls, and a poll recovers
\* expired leases; a permission resolver polls its action every 250 ms.
Fairness ==
  /\ WF_vars(Tick)
  /\ \A r \in Runs : WF_vars(RecoverExpiredLease(r))
  /\ \A r \in Runs, n \in Attempts, k \in Keys : WF_vars(ResolveActionPermission(r, n, k))

FairSpec == Spec /\ Fairness

-----------------------------------------------------------------------------
(* Safety *)

\* The lease columns of a run and its attempts table tell one story: a run is
\* leased to exactly one attempt, its newest, or to none; every other attempt
\* has ended.  The columns are written by eight operations on two tables, and
\* every fence of the store compares them.
LeaseColumns(r) ==
  /\ runAttempt[r] = NoAttempt <=> runRunner[r] = NoRunner
  /\ runAttempt[r] = NoAttempt <=> runLease[r] = NoLease
  /\ runAttempt[r] = NoAttempt => runStatus[r] \notin Live
  /\ runAttempt[r] # NoAttempt =>
       LET n == runAttempt[r] IN
       /\ runStatus[r] \in HeldStatus
       /\ n = lastNumber[r]
       /\ runRunner[r] = attRunner[r][n]
       /\ runLease[r] = attLease[r][n]
AttemptRows(r) ==
  \A n \in Attempts :
    /\ attStatus[r][n] \in Live <=> runAttempt[r] = n
    /\ attStatus[r][n] = "none" <=> n > lastNumber[r]
OneLeasedAttempt == \A r \in Runs : LeaseColumns(r) /\ AttemptRows(r)

\* An action in flight belongs to the leased attempt: whatever ends an attempt
\* (expiry, completion, timeout, cancellation) settles what it left executing.
ExecutingOwned ==
  \A r \in Runs, n \in Attempts, k \in Keys :
    actionStatus[r][n][k] = "executing" => runAttempt[r] = n

\* A leased run is parked for approval only while its attempt has an action
\* that waits: no operation leaves it parked with nothing to decide.
ParkedHasWaiting ==
  \A r \in Runs :
    runStatus[r] = "needs_approval" /\ runAttempt[r] # NoAttempt =>
      \E k \in Keys : actionStatus[r][runAttempt[r]][k] = "waiting_approval"

Material == Keys \ LowRiskKeys

\* A material action is let loose at most once: a reusable one at most once
\* over all attempts of its run, whatever crashes, expiries and replays come
\* between, and a one-shot one at most once in its attempt.
MaterialReleasedOnce ==
  \A r \in Runs, n \in Attempts, k \in Material :
    /\ released[r][n][k] <= 1
    /\ released[r][n][k] = 1 /\ k \notin OneShotKeys =>
         \A m \in Attempts \ {n} : released[r][m][k] = 0

\* A material action let loose is never filed as one that did not happen: it is
\* in flight, settled, or unknown until someone reconciles it.
ReleaseNotForgotten ==
  \A r \in Runs, n \in Attempts, k \in Material :
    released[r][n][k] > 0 => actionStatus[r][n][k] \in {"executing", "succeeded", "failed", "unknown"}

\* Outside autonomous mode, a material action is let loose only on a human's
\* word: the approval of that action, or an allow_run of a reusable action of
\* the same scope in the same run; and never against a denial of it.
NoReleaseWithoutApproval ==
  "autonomous" \notin ApprovalModes =>
    \A r \in Runs, n \in Attempts, k \in Material :
      released[r][n][k] > 0 =>
        \/ decision[r][n][k] \in {"allow_once", "allow_run"}
        \/ /\ decision[r][n][k] = Undecided
           /\ \E m \in Attempts, j \in Keys \ OneShotKeys :
                ScopeOf[j] = ScopeOf[k] /\ decision[r][m][j] = "allow_run"

\* A runner never holds more runs than it registered for, runs parked for
\* approval included, whichever way runs leave and re-enter its hands.
CapacityRespected == \A w \in Runners : RunnerLoad(w) <= Capacity[w]

\* No interleaving of claims oversubscribes the attempt budgets of a factory
\* workstream: per run, and over the whole workstream.
BudgetRespected ==
  /\ \A r \in Factory : lastNumber[r] <= MaxAttemptsPerRun
  /\ WorkstreamAttempts <= MaxWorkstreamAttempts

\* What is over stays over: no step leaves a terminal run status, revives an
\* ended attempt, re-opens a settled action or changes a recorded decision.
FinalStays ==
  [][\A r \in Runs :
       /\ runStatus[r] \in TerminalStatus =>
            runStatus'[r] = runStatus[r] /\ lastNumber'[r] = lastNumber[r]
       /\ \A n \in Attempts :
            /\ attStatus[r][n] \notin Live \cup {"none"} => attStatus'[r][n] = attStatus[r][n]
            /\ \A k \in Keys :
                 /\ actionStatus[r][n][k] \in {"succeeded", "failed", "cancelled"} =>
                      actionStatus'[r][n][k] = actionStatus[r][n][k]
                 /\ decision[r][n][k] # Undecided => decision'[r][n][k] = decision[r][n][k]]_vars

-----------------------------------------------------------------------------
(* Refinement *)

\* The reusable material keys the run has let loose, and in which attempt.
Performed(r) == {p \in (Material \ OneShotKeys) \X Attempts : released[r][p[2]][p[1]] > 0}

Contract == INSTANCE RunContract WITH
  Actions <- Material \ OneShotKeys,
  Outcomes <- TerminalStatus,
  Open <- "open",
  holder <- runAttempt,
  granted <- lastNumber,
  performed <- [r \in Runs |-> Performed(r)],
  outcome <- [r \in Runs |-> IF runStatus[r] \in TerminalStatus THEN runStatus[r] ELSE "open"]

\* The ledger, with all its tables, keeps the contract of a run: every step of
\* a store operation is one step of the contract or none.
KeepsContract == Contract!Spec

-----------------------------------------------------------------------------
(* Liveness *)

\* An attempt whose runner has stopped working on it, in whatever state the
\* run is, does not keep the run.
NoAbandonedAttempt ==
  \A r \in Runs, n \in Attempts :
    (runAttempt[r] = n /\ stage[r][n] \in {"timed_out", "done"}) ~> (runAttempt[r] # n)

\* A decision taken while its attempt waits reaches that attempt, unless the
\* attempt loses the run first.
DecisionDelivered ==
  \A r \in Runs, n \in Attempts, k \in Keys :
    (runAttempt[r] = n /\ decision[r][n][k] # Undecided /\ actionStatus[r][n][k] = "waiting_approval")
      ~> (runAttempt[r] # n \/ actionStatus[r][n][k] # "waiting_approval")

-----------------------------------------------------------------------------
(* What the documentation says and the code does not do *)

\* docs/superpowers/plans/2026-07-12-acp-first-agent-runtime.md:209, a
\* permission request waits until the dispatcher resolves it, and the decision
\* is carried back to the waiting attempt: so while an undecided action of the
\* leased attempt waits, its run accepts decisions.
ApprovalStaysReachable ==
  \A r \in Runs, k \in Keys :
    runAttempt[r] # NoAttempt =>
      LET n == runAttempt[r] IN
      actionStatus[r][n][k] = "waiting_approval" /\ decision[r][n][k] = Undecided =>
        runStatus[r] = "needs_approval"

\* packages/governance/src/workstream.ts:66 names the breach "Active runs
\* exceed the recipe concurrency budget."
ConcurrencyRespected == WorkstreamActive <= MaxConcurrentRuns

\* docs/configuration.md:393, the run.running payload gives the policy that was
\* active when execution started: so an executing attempt has its own.
StartIsRecorded ==
  \A r \in Runs, n \in Attempts : Executing(r, n) => n \in runningEvents[r]

\* docs/configuration.md:322, when the hard timeout fires OpenTag records the
\* run as timed_out: so it does while the attempt still holds its lease.
TimeoutIsRecorded ==
  [][\A r \in Runs, n \in Attempts :
       /\ stage[r][n] # "timed_out" /\ stage'[r][n] = "timed_out"
       /\ ActiveAttemptLease(r, n)
       => runStatus'[r] = "timed_out"]_vars

=============================================================================
