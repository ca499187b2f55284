---------------------------- MODULE HostedRunner ----------------------------
(***************************************************************************)
(* A local runner that serves hosted runs, composed with the control plane *)
(* (HostedCoordinator).  The runner's loop (control-v1.ts) claims a run,   *)
(* imports it, starts it and executes it; what it tells the control plane  *)
(* it first writes, with the local state it reports, to a durable journal  *)
(* (repository.ts, hosted_lifecycle_operations), and a pump sends the      *)
(* journal in order, at least once.                                        *)
(*                                                                         *)
(* Requests cross a network that loses, delays and repeats them: a caller  *)
(* that gives up cannot tell whether its request was or will be served.    *)
(* The runner's process crashes between any two transactions.              *)
(***************************************************************************)
EXTENDS HostedCoordinator, Sequences

CONSTANTS
    EntryLease,         \* ticks a pump owns a journal entry
    MaxRenewals,        \* bound: heartbeats per attempt
    MaxCalls,           \* bound: lifecycle calls under way at once
    MaxLate,            \* bound: abandoned requests still to be served
    AuthorityMayChange  \* may the control plane refuse a claim's authority?

ASSUME RunnerAssumption ==
    /\ EntryLease \in Nat \ {0}
    /\ MaxRenewals \in Nat
    /\ MaxCalls \in Nat \ {0}
    /\ MaxLate \in Nat
    /\ AuthorityMayChange \in BOOLEAN

VARIABLES
    claimOp,        \* hosted_claim_operations
    localRun,       \* runs: status and current attempt number
    localAttempt,   \* attempts: status, lease left, renewal number
    journal,        \* hosted_lifecycle_operations of an attempt, by sequence
    pc,             \* where its loop is
    op,             \* the claim operation the loop works on
    claimAnswer,    \* the claim call under way: unserved, or its answer
    calls,          \* lifecycle calls under way: request, lease token, answer
    late,           \* lifecycle requests whose caller gave up, unserved
    lateClaims      \* claim operations whose request was given up, unserved

localData == <<localRun, localAttempt, journal>>
durable == <<claimOp, localData>>
loop == <<pc, op, claimAnswer>>
net == <<calls, late, lateClaims>>
runnerVars == <<durable, loop, net>>
vars == <<cpVars, runnerVars>>

Terminal == {"reject", "complete"}
Live == {"assigned", "running"}

RunnerInit ==
    /\ claimOp = [o \in ClaimOps |->
                    [state |-> "none", active |-> FALSE, attempt |-> NoAttempt,
                     left |-> 0, imported |-> FALSE, started |-> FALSE]]
    /\ localRun = [r \in Runs |-> [status |-> "none", current |-> 0]]
    /\ localAttempt = [a \in Attempts |->
                         [status |-> "none", left |-> 0, ver |-> 0]]
    /\ journal = [a \in Attempts |-> <<>>]
    /\ pc = "idle"
    /\ op = 0
    /\ claimAnswer = "none"
    /\ calls = {}
    /\ late = {}
    /\ lateClaims = {}

----------------------------------------------------------------------------
(* The journal.                                                            *)

Entries(a) == {journal[a][i] : i \in DOMAIN journal[a]}
Journaled(a, actions) == \E e \in Entries(a) : e.action \in actions
Acknowledged(a, action) ==
    \E e \in Entries(a) : e.action = action /\ e.state = "acked"

Entry(action, ver) ==
    [action |-> action, ver |-> ver, state |-> "pending",
     tok |-> 0, left |-> 0]

\* An entry is added at the end, never after a terminal one, and all but the
\* first kinds only behind an acknowledged "running".
MayEnqueue(a, action) ==
    /\ ~Journaled(a, Terminal)
    /\ action \in {"heartbeat", "progress", "complete"}
         => Acknowledged(a, "running")

Enqueue(a, action, ver) ==
    journal' = [journal EXCEPT ![a] = Append(@, Entry(action, ver))]

RequestOf(a, e) == Request(a, e.action, e.ver)

\* (fault) A request is due whatever comes before it.
DueOutOfOrder(a, i) ==
    \/ journal[a][i].state = "pending"
    \/ journal[a][i].state = "leased" /\ journal[a][i].left = 0

\* Pending, or leased to a pump whose lease ran out; and all before it are
\* acknowledged.
Due(a, i) ==
    /\ \/ journal[a][i].state = "pending"
       \/ journal[a][i].state = "leased" /\ journal[a][i].left = 0
    /\ \A j \in 1..(i - 1) : journal[a][j].state = "acked"

----------------------------------------------------------------------------
(* The loop: what an iteration does first.                                 *)

Active(o) == claimOp[o].active
ActiveShell(o) == Active(o) /\ claimOp[o].state = "claimed"

\* A shell whose rejection is journaled is left to the pump.
AwaitsRejection == \E o \in ClaimOps :
    ActiveShell(o) /\ Journaled(claimOp[o].attempt, {"reject"})

RunOf(o) == claimOp[o].attempt[1]
LocalCurrent(r) == <<r, localRun[r].current>>
ImportedBy(o, a) == claimOp[o].imported /\ claimOp[o].attempt = a

\* The recovery scan, newest claim first: an unstarted claim of a live run is
\* recovered when it imported the run's current attempt and the lease holds,
\* and stops the iteration with an error when another claim imported it.
Scanned(o) ==
    /\ claimOp[o].state = "claimed"
    /\ ~claimOp[o].started
    /\ localRun[RunOf(o)].status \in Live
Recoverable(o) ==
    /\ Scanned(o)
    /\ ImportedBy(o, LocalCurrent(RunOf(o)))
    /\ localAttempt[claimOp[o].attempt].left > 0
RecoveryConflict(o) ==
    Scanned(o) /\ ~ImportedBy(o, LocalCurrent(RunOf(o)))
FirstOf(o, P(_)) == P(o) /\ \A k \in ClaimOps : k > o => ~P(k)
ScanStops(o) == Recoverable(o) \/ RecoveryConflict(o)

BeginIteration == pc = "idle" /\ ~AwaitsRejection

Recover(o) ==
    /\ BeginIteration
    /\ FirstOf(o, ScanStops) /\ Recoverable(o)
    /\ pc' = "starting"
    /\ op' = o
    /\ UNCHANGED <<cpVars, durable, claimAnswer, net>>

Ask(o) ==
    /\ pc' = "claiming"
    /\ op' = o
    /\ claimAnswer' = "unserved"
    /\ UNCHANGED <<net>>

\* The exact persisted request is sent again as long as the operation is
\* active; a new one is begun only when none is.
ReplayClaim(o) ==
    /\ BeginIteration
    /\ \A k \in ClaimOps : ~ScanStops(k)
    /\ Active(o)
    /\ Ask(o)
    /\ UNCHANGED <<cpVars, durable>>

BeginClaim(o) ==
    /\ BeginIteration
    /\ \A k \in ClaimOps : ~ScanStops(k) /\ ~Active(k)
    /\ claimOp[o].state = "none"
    /\ \A k \in 1..(o - 1) : claimOp[k].state # "none"
    /\ claimOp' = [claimOp EXCEPT ![o].state = "pending", ![o].active = TRUE]
    /\ Ask(o)
    /\ UNCHANGED <<cpVars, localData>>

----------------------------------------------------------------------------
(* The claim call.                                                         *)

\* The claim transaction at the control plane, and what it answers.
ServeClaim ==
    /\ claimAnswer = "unserved"
    /\ \/ /\ cpClaim[op] # NoAttempt
          /\ claimAnswer' = "claim"
          /\ UNCHANGED cpVars
       \/ \E r \in Runs : GrantClaim(op, r) /\ claimAnswer' = "claim"
       \/ /\ cpClaim[op] = NoAttempt
          /\ \A r \in Runs : ~Claimable(r)
          /\ claimAnswer' = "empty"
          /\ UNCHANGED cpVars
       \/ /\ AuthorityMayChange
          /\ claimAnswer' = "conflict"
          /\ UNCHANGED cpVars
    /\ UNCHANGED <<durable, pc, op, net>>

\* (fault) The shell counts a whole lease from its arrival.
FreshShellLease(o) == Lease
ShellLease(o) == cpAttempt[cpClaim[o]].left

\* The answer of a claim call is taken in: a claim is persisted as a shell
\* (or found to be the very one already persisted), an empty poll closes the
\* operation, and a refusal abandons it unless it holds a shell.
TakeClaim ==
    /\ claimAnswer = "claim"
    /\ claimOp' = IF claimOp[op].state = "claimed" THEN claimOp
                  ELSE [claimOp EXCEPT
                          ![op].state = "claimed",
                          ![op].attempt = cpClaim[op],
                          ![op].left = ShellLease(op)]
    /\ claimAnswer' = "none"
    /\ pc' = "claimed"
    /\ UNCHANGED <<cpVars, localData, op, net>>

TakeNoClaim ==
    /\ claimAnswer \in {"empty", "conflict"}
    /\ claimOp' = IF claimOp[op].state # "pending" THEN claimOp
                  ELSE [claimOp EXCEPT ![op].state = "empty",
                                       ![op].active = FALSE]
    /\ claimAnswer' = "none"
    /\ pc' = "idle"
    /\ op' = 0
    /\ UNCHANGED <<cpVars, localData, net>>

MayBeLate == Cardinality(late) + Cardinality(lateClaims) < MaxLate

\* A request nobody waits for any more is lost, or still to be served (one
\* that can have no effect any more counts as lost: it never will have one).
Abandon(requests) ==
    \/ late' = late
    \/ \E q \in requests : /\ MayBeLate
                           /\ ~HasReceipt(q) /\ FencePasses(q)
                           /\ late' = late \cup {q}

AbandonClaim ==
    \/ lateClaims' = lateClaims
    \/ /\ claimAnswer = "unserved"
       /\ cpClaim[op] = NoAttempt
       /\ MayBeLate
       /\ lateClaims' = lateClaims \cup {op}

LoseClaim ==
    /\ claimAnswer # "none"
    /\ AbandonClaim
    /\ claimAnswer' = "none"
    /\ pc' = "idle"
    /\ op' = 0
    /\ UNCHANGED <<cpVars, durable, calls, late>>

----------------------------------------------------------------------------
(* From the persisted claim to the start of the executor.                  *)

\* A first import takes whatever attempt was claimed; a later one must follow
\* the attempt imported before, whose lease must be over.
ImportFits(a) ==
    LET run == localRun[a[1]]
    IN  \/ run.status = "none"
        \/ /\ run.status \in Live
           /\ localAttempt[LocalCurrent(a[1])].left = 0
           /\ a[2] = run.current + 1

Import ==
    LET a == claimOp[op].attempt
    IN  /\ pc = "claimed"
        /\ claimOp[op].left > 0
        /\ ImportFits(a)
        /\ localRun' = [localRun EXCEPT ![a[1]] =
                          [status |-> "assigned", current |-> a[2]]]
        /\ localAttempt' = [localAttempt EXCEPT ![a] =
                              [status |-> "assigned",
                               left |-> claimOp[op].left, ver |-> 0]]
        /\ claimOp' = [claimOp EXCEPT ![op].active = FALSE,
                                      ![op].imported = TRUE,
                                      ![op].left = 0]
        /\ pc' = "starting"
        /\ UNCHANGED <<cpVars, journal, op, claimAnswer, net>>

\* Anything that fails between the shell and the import (the authority, the
\* refetch of the comment, the import) journals a rejection, but never after
\* the lease: then the shell stays as it is.
FailImport ==
    /\ pc = "claimed"
    /\ IF claimOp[op].left > 0
       THEN Enqueue(claimOp[op].attempt, "reject", 0)
       ELSE UNCHANGED journal
    /\ pc' = "idle"
    /\ op' = 0
    /\ UNCHANGED <<cpVars, claimOp, localRun, localAttempt, claimAnswer,
                   net>>

\* (fault) The lease is not compared with the clock.
HoldsAnyLease(a, statuses) ==
    /\ LocalCurrent(a[1]) = a
    /\ localRun[a[1]].status \in statuses
    /\ localAttempt[a].status \in statuses

\* The attempt at hand is the local run's current one and its lease holds.
HoldsLease(a, statuses) ==
    /\ LocalCurrent(a[1]) = a
    /\ localRun[a[1]].status \in statuses
    /\ localAttempt[a].status \in statuses
    /\ localAttempt[a].left > 0

\* A failed preflight: the local run goes back to the queue and the rejection
\* is journaled, in one transaction.
RejectStart ==
    LET a == claimOp[op].attempt
    IN  /\ pc = "starting"
        /\ HoldsLease(a, {"assigned"})
        /\ MayEnqueue(a, "reject")
        /\ Enqueue(a, "reject", 0)
        /\ localAttempt' = [localAttempt EXCEPT ![a].status = "interrupted"]
        /\ localRun' = [localRun EXCEPT ![a[1]] =
                          [status |-> "queued", current |-> 0]]
        /\ pc' = "idle"
        /\ op' = 0
        /\ UNCHANGED <<cpVars, claimOp, claimAnswer, net>>

MarkRunning ==
    LET a == claimOp[op].attempt
    IN  /\ pc = "starting"
        /\ HoldsLease(a, Live)
        /\ ~Journaled(a, {"running"})
        /\ MayEnqueue(a, "running")
        /\ Enqueue(a, "running", 0)
        /\ localAttempt' = [localAttempt EXCEPT ![a].status = "running"]
        /\ localRun' = [localRun EXCEPT ![a[1]].status = "running"]
        /\ UNCHANGED <<cpVars, claimOp, loop, net>>

\* The executor may start once per claim, behind an acknowledged "running".
AcquireStart ==
    LET a == claimOp[op].attempt
    IN  /\ pc = "starting"
        /\ HoldsLease(a, {"running"})
        /\ Acknowledged(a, "running")
        /\ ~claimOp[op].started
        /\ claimOp' = [claimOp EXCEPT ![op].started = TRUE]
        /\ pc' = "executing"
        /\ UNCHANGED <<cpVars, localData, op, claimAnswer, net>>

\* The loop leaves a run it cannot start, or whose execution ended without a
\* result (an error, the lease deadline, a lost fence).
LeaveRun ==
    /\ pc \in {"starting", "executing"}
    /\ pc' = "idle"
    /\ op' = 0
    /\ UNCHANGED <<cpVars, durable, claimAnswer, net>>

----------------------------------------------------------------------------
(* Execution.                                                              *)

\* The renewal timer runs at a fraction of the lease, so never on the tick of
\* the grant; there is one heartbeat per lease, named by its expiry.
BeginHeartbeat ==
    LET a == claimOp[op].attempt
    IN  /\ pc = "executing"
        /\ HoldsLease(a, {"running"})
        /\ localAttempt[a].left < Lease
        /\ localAttempt[a].ver < MaxRenewals
        /\ \A e \in Entries(a) :
             e.action = "heartbeat" => e.ver # localAttempt[a].ver
        /\ MayEnqueue(a, "heartbeat")
        /\ Enqueue(a, "heartbeat", localAttempt[a].ver)
        /\ UNCHANGED <<cpVars, claimOp, localRun, localAttempt, loop, net>>

Progress ==
    LET a == claimOp[op].attempt
    IN  /\ pc = "executing"
        /\ HoldsLease(a, {"running"})
        /\ ~Journaled(a, {"progress"})
        /\ MayEnqueue(a, "progress")
        /\ Enqueue(a, "progress", 0)
        /\ UNCHANGED <<cpVars, claimOp, localRun, localAttempt, loop, net>>

Complete ==
    LET a == claimOp[op].attempt
    IN  /\ pc = "executing"
        /\ HoldsLease(a, {"running"})
        /\ MayEnqueue(a, "complete")
        /\ Enqueue(a, "complete", 0)
        /\ localAttempt' = [localAttempt EXCEPT ![a].status = "completed"]
        /\ localRun' = [localRun EXCEPT ![a[1]] =
                          [status |-> "done", current |-> 0]]
        /\ pc' = "idle"
        /\ op' = 0
        /\ UNCHANGED <<cpVars, claimOp, claimAnswer, net>>

----------------------------------------------------------------------------
(* The pump.                                                               *)

FreshToken == CHOOSE t \in 1..MaxCalls : \A c \in calls : c.tok # t

\* A due entry is leased under a new token and its request sent.
Send(a, i) ==
    /\ pc \notin {"claiming", "claimed"}
    /\ Cardinality(calls) < MaxCalls
    /\ Due(a, i)
    /\ journal' = [journal EXCEPT ![a][i].state = "leased",
                                  ![a][i].tok = FreshToken,
                                  ![a][i].left = EntryLease]
    /\ calls' = calls \cup {[request |-> RequestOf(a, journal[a][i]),
                             tok |-> FreshToken, answer |-> "unserved"]}
    /\ UNCHANGED <<cpVars, claimOp, localRun, localAttempt, loop, late,
                   lateClaims>>

ServeCall(c) ==
    /\ c.answer = "unserved"
    /\ ApplyLifecycle(c.request)
    /\ calls' = (calls \ {c}) \cup
                  {[c EXCEPT !.answer = LifecycleAnswer(c.request)]}
    /\ UNCHANGED <<durable, loop, late, lateClaims>>

\* The entry a call may still settle: leased under the call's token, in time.
Owns(c, i) ==
    LET a == c.request.attempt
    IN  /\ i \in DOMAIN journal[a]
        /\ RequestOf(a, journal[a][i]) = c.request
        /\ journal[a][i].state = "leased"
        /\ journal[a][i].tok = c.tok
        /\ journal[a][i].left > 0

\* A heartbeat's receipt renews the local lease only while the old one holds.
RenewalFits(q) ==
    LET a == q.attempt
    IN  /\ LocalCurrent(a[1]) = a
        /\ localAttempt[a].status \in Live
        /\ localAttempt[a].ver = q.ver
        /\ localAttempt[a].left > 0
        /\ ReceiptOf(q).left > localAttempt[a].left

FirstImport(a) ==
    \A o \in ClaimOps :
        claimOp[o].imported /\ claimOp[o].attempt[1] = a[1]
            => claimOp[o].attempt[2] >= a[2]

SetEntry(a, i, state) ==
    journal' = [journal EXCEPT ![a][i].state = state,
                               ![a][i].tok = 0, ![a][i].left = 0]

\* A receipt is verified and the entry acknowledged, with what hangs on it:
\* the renewed lease, or the shell released by its rejection.
Acknowledge(c, i) ==
    LET q == c.request
        a == q.attempt
    IN  /\ Owns(c, i)
        /\ c.answer = "receipt"
        /\ q.action = "heartbeat" => RenewalFits(q)
        /\ SetEntry(a, i, "acked")
        /\ localAttempt' = IF q.action # "heartbeat" THEN localAttempt
                           ELSE [localAttempt EXCEPT
                                   ![a].left = ReceiptOf(q).left,
                                   ![a].ver = @ + 1]
        /\ claimOp' = [o \in ClaimOps |->
                         IF q.action = "reject" /\ claimOp[o].attempt = a
                         THEN [claimOp[o] EXCEPT !.active = FALSE, !.left = 0]
                         ELSE claimOp[o]]
        /\ calls' = calls \ {c}
        /\ UNCHANGED <<cpVars, localRun, loop, late, lateClaims>>

\* A refusal, a renewal come too late, or a completion whose assessment was
\* recorded under the first imported attempt: the entry needs attention.
NeedAttention(c, i) ==
    LET q == c.request
    IN  /\ Owns(c, i)
        /\ \/ c.answer = "refused"
           \/ /\ c.answer = "receipt"
              /\ \/ q.action = "heartbeat" /\ ~RenewalFits(q)
                 \/ q.action = "complete" /\ ~FirstImport(q.attempt)
        /\ SetEntry(q.attempt, i, "attention")
        /\ calls' = calls \ {c}
        /\ UNCHANGED <<cpVars, claimOp, localRun, localAttempt, loop, late,
                       lateClaims>>

\* No answer came: the entry is to be sent again.
Retry(c, i) ==
    /\ Owns(c, i)
    /\ SetEntry(c.request.attempt, i, "pending")
    /\ Abandon(IF c.answer = "unserved" THEN {c.request} ELSE {})
    /\ calls' = calls \ {c}
    /\ UNCHANGED <<cpVars, claimOp, localRun, localAttempt, loop, lateClaims>>

\* Whatever the call ends with, its lease is over and it changes nothing.
Outlived(c) ==
    /\ \A i \in DOMAIN journal[c.request.attempt] : ~Owns(c, i)
    /\ Abandon(IF c.answer = "unserved" THEN {c.request} ELSE {})
    /\ calls' = calls \ {c}
    /\ UNCHANGED <<cpVars, durable, loop, lateClaims>>

----------------------------------------------------------------------------
(* The world around.                                                       *)

\* An abandoned request reaches the control plane after all.
ServeLateClaim(o) ==
    /\ IF cpClaim[o] = NoAttempt /\ \E r \in Runs : Claimable(r)
       THEN \E r \in Runs : GrantClaim(o, r)
       ELSE UNCHANGED cpVars
    /\ lateClaims' = lateClaims \ {o}
    /\ UNCHANGED <<durable, loop, calls, late>>

ServeLateCall(q) ==
    /\ ApplyLifecycle(q)
    /\ late' = late \ {q}
    /\ UNCHANGED <<durable, loop, calls, lateClaims>>

Coordinate(action) == action /\ UNCHANGED runnerVars

\* Whoever holds the credential and the fencing token may cancel a run.
Cancel(r) == /\ cpRun[r].current > 0
             /\ ApplyLifecycle(Request(CurrentAttempt(r), "cancel", 0))

\* The process dies with everything it has in memory, its open requests are
\* abandoned, and it is started again: a runner that is down is one whose loop
\* has not begun its next iteration yet.
Crash ==
    /\ pc # "idle" \/ calls # {}
    /\ pc' = "idle"
    /\ op' = 0
    /\ claimAnswer' = "none"
    /\ calls' = {}
    /\ \/ Abandon({c.request : c \in {d \in calls : d.answer = "unserved"}})
          /\ lateClaims' = lateClaims
       \/ AbandonClaim /\ late' = late
    /\ UNCHANGED <<cpVars, durable>>

\* Time: every lease on either side, and those a receipt grants.  A late
\* request whose lease is over has no effect any more and is forgotten.
SomeLeaseRuns ==
    \/ \E a \in Attempts : \/ cpAttempt[a].left > 0
                          \/ localAttempt[a].left > 0
                          \/ \E e \in Entries(a) : e.left > 0
    \/ \E rc \in receipts : rc.left > 0

Tick ==
    /\ SomeLeaseRuns
    /\ CoordinatorTick
    /\ localAttempt' = [a \in Attempts |->
                          [localAttempt[a] EXCEPT !.left = Less(@)]]
    /\ claimOp' = [o \in ClaimOps |-> [claimOp[o] EXCEPT !.left = Less(@)]]
    /\ journal' = [a \in Attempts |->
                     [i \in DOMAIN journal[a] |->
                        [journal[a][i] EXCEPT !.left = Less(@)]]]
    /\ late' = {q \in late : cpAttempt'[q.attempt].left > 0}
    /\ UNCHANGED <<localRun, loop, calls, lateClaims>>

----------------------------------------------------------------------------
Init == CoordinatorInit /\ RunnerInit

Loop ==
    \/ \E o \in ClaimOps : Recover(o) \/ ReplayClaim(o) \/ BeginClaim(o)
    \/ TakeClaim \/ TakeNoClaim \/ LoseClaim
    \/ Import \/ FailImport
    \/ RejectStart \/ MarkRunning \/ AcquireStart \/ LeaveRun
    \/ BeginHeartbeat \/ Progress \/ Complete

Pump ==
    \/ \E a \in Attempts : \E i \in DOMAIN journal[a] : Send(a, i)
    \/ \E c \in calls :
         \/ \E i \in DOMAIN journal[c.request.attempt] :
              Acknowledge(c, i) \/ NeedAttention(c, i) \/ Retry(c, i)
         \/ Outlived(c)

ControlPlane ==
    \/ \E r \in Runs : Coordinate(Admit(r)) \/ Coordinate(Cancel(r))
    \/ Coordinate(ReconcileExpiredAttempts)
    \/ ServeClaim
    \/ \E c \in calls : ServeCall(c)
    \/ \E o \in lateClaims : ServeLateClaim(o)
    \/ \E q \in late : ServeLateCall(q)

Next == Loop \/ Pump \/ ControlPlane \/ Crash \/ Tick

Spec == Init /\ [][Next]_vars

----------------------------------------------------------------------------
(* Properties.                                                             *)

EntryStates == {"pending", "leased", "acked", "attention"}
Actions == {"running", "heartbeat", "progress", "reject", "complete", "cancel"}
Requests == [attempt : Attempts, action : Actions, ver : 0..MaxRenewals]

\* The types of the control plane's and the runner's state.
TypeOK ==
    /\ cpRun \in [Runs -> [state : {"none", "pending", "claimed", "running"}
                                     \cup Settled,
                            current : 0..MaxAttempt]]
    /\ cpAttempt \in [Attempts ->
          [state : OpenAttempt \cup Settled \cup {"none", "expired"},
           left : 0..Lease, ver : 0..MaxRenewals]]
    /\ cpClaim \in [ClaimOps -> Attempts \cup {NoAttempt}]
    /\ receipts \subseteq [request : Requests, left : 0..Lease]
    /\ claimOp \in [ClaimOps ->
          [state : {"none", "pending", "claimed", "empty"}, active : BOOLEAN,
           attempt : Attempts \cup {NoAttempt}, left : 0..Lease,
           imported : BOOLEAN, started : BOOLEAN]]
    /\ localRun \in [Runs -> [status : Live \cup {"none", "queued", "done"},
                               current : 0..MaxAttempt]]
    /\ localAttempt \in [Attempts ->
          [status : Live \cup {"none", "interrupted", "completed"},
           left : 0..Lease, ver : 0..MaxRenewals]]
    /\ \A a \in Attempts : \A i \in DOMAIN journal[a] :
          journal[a][i] \in [action : Actions, ver : 0..MaxRenewals,
                             state : EntryStates, tok : 0..MaxCalls,
                             left : 0..EntryLease]
    /\ pc \in {"idle", "claiming", "claimed", "starting", "executing"}
    /\ op \in ClaimOps \cup {0}
    /\ claimAnswer \in {"none", "unserved", "claim", "empty", "conflict"}
    /\ calls \subseteq [request : Requests, tok : 1..MaxCalls,
                         answer : {"unserved", "receipt", "refused"}]
    /\ late \subseteq Requests
    /\ lateClaims \subseteq ClaimOps

\* The runner never believes in a lease the control plane no longer grants:
\* delayed receipts and claims replayed from the store carry the expiry first
\* granted, not a fresh one.
LocalLeaseWithinCloud ==
    /\ \A a \in Attempts : localAttempt[a].left <= cpAttempt[a].left
    /\ \A o \in ClaimOps :
         claimOp[o].left > 0 =>
            claimOp[o].left <= cpAttempt[claimOp[o].attempt].left

\* An attempt the runner may still act for is the newest one handed out: no
\* two attempts of a run can be executing, whatever was lost or came late.
OneHolder ==
    \A r \in Runs :
        HoldsLease(LocalCurrent(r), Live) =>
            localRun[r].current = cpRun[r].current

StartedAttempt(a) ==
    \E o \in ClaimOps : ImportedBy(o, a) /\ claimOp[o].started

\* What the control plane settled is what happened at the runner: completed by
\* an attempt it started and finished, rejected by one it never started and
\* never will.
SettlementTellsTheTruth ==
    \A r \in Runs :
        LET a == CurrentAttempt(r)
        IN  /\ cpRun[r].state = "completed" =>
                  /\ StartedAttempt(a)
                  /\ localAttempt[a].status = "completed"
                  /\ localRun[r].status = "done"
            /\ cpRun[r].state = "rejected" =>
                  /\ ~StartedAttempt(a)
                  /\ Journaled(a, {"reject"})
                  /\ localAttempt[a].status \in {"none", "interrupted"}

\* The control plane sees an attempt's journal in its order, although requests
\* are lost, repeated and served after their caller gave up: an acknowledged
\* entry was received, and a received one has only acknowledged ones before it.
JournalInOrder ==
    \A a \in Attempts : \A i \in DOMAIN journal[a] :
        LET e == journal[a][i]
        IN  /\ e.state = "acked" => HasReceipt(RequestOf(a, e))
            /\ HasReceipt(RequestOf(a, e)) =>
                  \A j \in 1..(i - 1) : journal[a][j].state = "acked"

Contract == INSTANCE HostedContract WITH
    attempt <- [r \in Runs |-> cpRun[r].current],
    started <- [r \in Runs |->
                  {n \in 1..MaxAttempt : StartedAttempt(<<r, n>>)}],
    verdict <- [r \in Runs |-> IF cpRun[r].state \in Settled
                               THEN cpRun[r].state ELSE "open"]

\* The control plane, the network and the runner together keep the contract.
KeepsHostedContract == Contract!Spec

----------------------------------------------------------------------------
\* The loop keeps iterating, the pump pumps and time passes; the network, for
\* all it loses, lets a claim call that is repeated for ever through, and an
\* import that can be made again and again is made.
FairSpec ==
    /\ Spec
    /\ WF_vars(Loop) /\ WF_vars(Pump) /\ WF_vars(Tick)
    /\ SF_vars(ServeClaim) /\ SF_vars(TakeClaim) /\ SF_vars(Import)

\* A claim whose shell was persisted is reconciled: imported, or rejected in
\* the journal (control-v1.ts, "must be reconciled as a durable reject-start
\* from the claimed shell").
ShellReconciled ==
    \A o \in ClaimOps :
        ActiveShell(o) ~> \/ claimOp[o].imported
                          \/ \E a \in Attempts : /\ claimOp[o].attempt = a
                                                 /\ Journaled(a, {"reject"})
=============================================================================
