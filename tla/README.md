# OpenTag: a verification development

OpenTag turns a mention in a chat thread or an issue into a *run* that a coding
agent executes on a paired runner, asks a human before material actions, and
reports back. This directory holds TLA+ specifications of the parts of the
repository where state, time, failure and concurrency meet, the TLC instances
that check them, and TLAPS proofs about them. Paths are relative to the
repository root; `repository.ts` is `packages/store/src/repository.ts`.

## 1. The system

| Component | State | Operations | What is hard |
|---|---|---|---|
| **Run ledger**: `repository.ts` (createRun, claimNextRun, rejectAttemptStart, markRunning, recordHeartbeat, completeRun, cancelRun) | tables `runs`, `attempts`; routing rejections; claim cursor | admit, recover, claim, refuse, start, renew, complete, cancel | stale runners that go on after losing a lease; expiry against completion; two tables that must agree |
| **Material actions**: `repository.ts` (requestActionPermission, recordApprovalDecision, resolveActionPermission, receipts, reconciliation), `core/src/action.ts` | `material_actions`, proposals, decisions, grants | request, decide, poll, receive, reconcile | at-most-once release over attempts; several requests of one attempt share the status of its run |
| **Local runner daemon**: `local-runtime/src/daemon.ts` | one executor per claimed attempt, timers | poll, preflight, start, heartbeat, hard timeout, report | crash at any point; timers against the store's refusals |
| **Delivery kernel**: `dispatcher/src/delivery/side-effect-kernel.ts`, `store/src/delivery-repository.ts`, `store/src/delivery-payload-custody.ts` | the delivery journal, payload files, what a worker holds in memory | record, claim, renew, load, begin, call, settle, sweep, recover | crash between mark and answer; late application; expired lease; sweep racing an answer; file and row written separately |
| **Projection outbox**: `repository.ts`, `local-runtime/src/control-v1.ts` | outbox rows with lease, parent, attempts | enqueue, lease, acknowledge, retry, attention, recover | ordering by parent and by the hosted completion; late acknowledgements |
| **Reassessment obligations**: `dispatcher/src/reassessment-*.ts`, `repository.ts` | an obligation per fact, with lease and attempts | record, claim, renew, satisfy, reschedule, block | a fact that arrives while an earlier one is processed; workers that stop |
| **Follow-ups and continuation**: `repository.ts`, `dispatcher/src/server.ts`, `governance/src/continuation.ts` | follow-up requests, reserved run ids | queue, promote, put back | promotion over several transactions, by several promoters |
| **Admission batches, factory workstreams**: `repository.ts`, `dispatcher/src/server.ts`, `governance/src/workstream.ts` | batches with items and leases, workstreams, budgets | post, claim, renew, record, finalize; converge, conclude | a batch taken over while the first request goes on; budgets checked and used apart |
| **Completion governance**: `dispatcher/src/completion-governance.ts`, `governance/src/evaluate.ts` | assessments, waivers, escalations | assess, waive, escalate | an assessment of a state that has moved on |
| **Hosted runs, control plane**: `apps/control-plane/src/modules/hosted-runs/index.ts` | hosted runs, attempts, stored claims, receipts | admit, claim, lifecycle, sweep | late and repeated requests; expiry against settlement |
| **Hosted runs, runner**: `control-v1.ts`, `repository.ts` | claim operations, imported runs, a journal of lifecycle operations | claim, import, start, renew, finish, reject, pump, recover | two ledgers, one run; crash between any two writes |
| **Hosted permissions and receipts**: `hosted-runs/permissions.ts`, `material-actions.ts`, `daemon.ts`, `runner/src/acp-executor.ts` | permission requests, receipts, what the session has granted and reported | ask, decide, poll, perform, report | decided late; a process that outlives its session; a report that fails |
| **GitHub ingress**: `apps/control-plane/src/modules/github-ingress/` | deliveries with processing token, evidence | receive, admit, record, replay | redelivery during and after processing; two deliveries of one comment |
| **Control-plane jobs**: `apps/control-plane/src/modules/jobs/` | leased jobs, settlements | enqueue, claim, succeed, fail | expiry and retry; a settlement whose answer is lost |
| Other dispatcher routes, source-thread control, client, platform adapters, CLI, console | none of their own, or configuration | parse a request, call one store operation, render | input and output |

Who calls whom: a platform adapter or the CLI posts an event to the dispatcher;
the dispatcher calls `createRun`. The daemon polls `claimNextRun` (which first
recovers expired leases), starts its executor, sends heartbeats, and ends with
`completeRun`. While it executes, the agent's permission requests go to
`requestActionPermission` and are polled with `resolveActionPermission`; the
human's word arrives through the dispatcher as `recordApprovalDecision`. The
store is SQLite behind `better-sqlite3`: a transaction is synchronous, so it is
atomic with respect to every other call in the process.

A hosted run lives in two places. A GitHub delivery makes it a run at the
control plane; the runner's control loop claims it there, imports it into its
own store, executes it with the same daemon, and sends what happened through a
journal. Facts recorded by a completion, by evidence or by a human leave a
reassessment obligation; the worker that takes it up assesses the work thread,
promotes a follow-up or dispatches a continuation, and leaves a projection of
the assessment in the outbox, which the pump sends once the hosted completion
is acknowledged. The control plane's store is PostgreSQL: an operation there is
one transaction that locks the rows it decides on.

## 2. The modules

| Module | Models |
|---|---|
| `RunLedger` | run ledger, material actions, and the daemon's handling of one attempt |
| `RunContract` | abstract: what a run promises, whoever executes it |
| `MCLedger`, `MC*.cfg` | instances of `RunLedger` for TLC |
| `RunLedgerProofs` | TLAPS proofs about `RunLedger`: types and leases |
| `RunActionProofs` | its material actions: who owns them, released once, not forgotten, on a human's word |
| `RunContractProofs` | what is over stays over, `RunContract` is implemented, capacity and budgets |
| `DeliveryKernel` | journal, payload custody, workers, provider |
| `DeliveryPromise` | abstract: what the journal promises of a side effect |
| `MCDelivery`, `MCDelivery.cfg` | instance of `DeliveryKernel` for TLC |
| `DeliveryKernelProofs` | TLAPS proofs about `DeliveryKernel` |
| `HostedCoordinator` | hosted runs at the control plane |
| `HostedRunner` | the runner of hosted runs, composed with `HostedCoordinator` and the network between |
| `HostedContract` | abstract: what hosted execution promises for each run |
| `HostedProofs` | TLAPS proofs about `HostedRunner` and that it implements `HostedContract` |
| `MCHosted`, `MCHosted.cfg`, `MCHostedShell.cfg` | instances of `HostedRunner` for TLC |
| `FollowUps`, `MCRunFound.cfg` | follow-up requests and their promotion; an instance of it alone |
| `Reassessment` | obligations and the workers that drain them |
| `ProjectionOutbox` | outbox, pumps, network and destination |
| `OutboxPromise` | abstract: in which order projections arrive |
| `JobQueue` | control-plane jobs and their workers |
| `HostedPermission` | permissions and receipts of hosted runs |
| `GithubDelivery` | deliveries at the control plane |
| `AdmissionBatch` | a workstream admission batch and the requests that post it |
| `MCRecords`, `MCRecords.cfg` | one instance each of these seven, for TLC |
| `QueueProofs` | TLAPS proofs about jobs, obligations, follow-ups and the outbox |
| `AdmissionProofs` | TLAPS proofs about permissions, GitHub deliveries and batches |
| `RecordsProofs` | the types of all seven, and their safety, in the composition of `MCRecords` |

Definitions marked `(fault)` in the modules are not used by any specification.
Each is a definition with a plausible bug in it: putting it in the place of the
definition below it makes a property fail, which shows what the property guards.

### RunLedger

`runStatus`, `runRunner`, `runAttempt`, `runLease` are the columns of `runs`;
`attStatus`, `attRunner`, `attLease` those of `attempts`; `actionStatus`,
`decision`, `grants` are the action, proposal and grant tables; `rejected` the
routing rejections; `runningEvents` the `run.running` events of the timeline
(the store consults them to recognise a replayed start); `stage` what the
daemon does with an attempt. `released` is a history variable: how often the
store answered "authorized" for a material action.

One action is one operation, with everything its transaction writes:

- *One action per operation is sound.* Several operations read before they open
  their transaction; what they decide on is read again inside it.
- *Fencing.* The server exposes the runner-scoped, fenced endpoints; the
  unfenced ones answer 410. `ActiveAttemptLease` is the comparison all fences
  share. A runner keeps the credentials it was given: a stale attempt acts
  whenever its `stage` lets it, and the fence has to stop it.
- *A lease* is the number of ticks left; 0 is expired, -1 is null. `Tick`
  lowers all of them together.
- *The claim scan* reads a window of queued runs behind a per-runner cursor and
  asks the router for each. The preference order and the cursor are abstracted:
  the scan sees any set of queued runs, and the router may pick any eligible
  runner. This only adds behaviours; hence nothing is claimed about which run
  is served next.
- *`markRunning`* is followed by the append of an event and by an answer; a
  crash or a lost answer may stop the sequence after each. The daemon calls it
  once per attempt, and the client never retries a request.
- *`RunnerStops`* stands for a lost claim answer, a crash, an observed loss of
  the lease and a failed call: the daemon then does nothing more for the attempt.
- *The hard timeout* cancels the executor, then reports `timed_out`. The daemon
  clears its heartbeat first, so nothing of that runner comes between.
- *Left out*: the status `proposed`, which nothing writes; the grant row of an
  `allow_once`, which matches no request; the administrator paths without a
  runner, which the server does not reach.

### RunContract

A run is held by one attempt at a time, attempts are granted in increasing
order, a replayable material action is let loose once and by the holder, and a
run closes once. `RunLedger!Contract` maps `holder` to `runAttempt`, `granted`
to `lastNumber`, `performed` to the released reusable actions with the attempt
that released them, and `outcome` to a terminal status. The property
`KeepsContract` says every step of the ledger is a step of the contract or none.

### DeliveryKernel

`state`, `revision`, `fence`, `lease` are the columns of `delivery_attempts`;
`custody` is the set of files of an intent (`.staged`, `.payload`); `job` is
what a `deliverNext` call holds in memory between its awaits; `sent`,
`inFlight`, `applied` count the requests made to the provider, still under way,
and applied by it. A lease is the ticks left until the expiry instant of the
row: claims and renewals write it (`Leased`), and only its passing is compared.
The random fence is a counter: only equality is ever used.

Journal operations are synchronous statements, one action each; `deliverNext`
is seven actions, one per await. `RecordIntent` has an alternative for a crash
after each of its three writes, and `RecoveryCut` for a crash in the middle of
recovery. `Deliver` is the point where the Slack adapter issues its request; it
may also refuse the shape or miss its credential and send nothing. The provider
handles a request at any time, also after the caller's timeout or the death of
the process; it applies it or refuses it. `Answers` is the adapter's reading of
the response: `ok` means applied, `ok: false` means refused, everything else,
a timeout included, `outcome_unknown`. That `ok` tells the truth is an
assumption about the provider.

One process owns the journal at a time; its repository does not start before
the custody of every journaled row is final. `deliverNext` and
`recoverStrandedBegun` have no production caller in the repository at this
commit (tests call them), so nothing is assumed of how often or by how many
callers they are run, and no liveness is claimed. `releaseUnusedClaim` has no
caller and is left out, as is `findAcceptedExternalResource`, which reads
settled rows to choose what an update edits.

### HostedCoordinator and HostedRunner

`cpRun`, `cpAttempt`, `cpClaim`, `receipts` are the tables of the control
plane. An attempt is a run and a number: id, epoch and fencing token are as
unique as the pair. A lease's identity, the expiry a heartbeat quotes, is its
renewal number. `claimOp`, `localRun`, `localAttempt`, `journal` are the
runner's durable tables, `pc`, `op`, `claimAnswer` its loop, `calls` the
lifecycle requests its pump has under way, `late` and `lateClaims` those given
up that may still be served.

- *One action per transaction*, on both sides; the loop's steps between two
  transactions are `pc`. `Crash` may come after any of them, and loses what is
  in memory only.
- *The journal*: what the runner reports is written in the transaction that
  changes its local state, and sent in order, at least once. `Due` is the
  selection: an entry is sent after those before it are acknowledged.
- *Claims* replay: the control plane stores the attempt it granted under the
  operation, and gives the same attempt with the same expiry again.
- *Left out*: the inspection of a run, audit rows, and the checks of digests and
  signatures, which refuse what the model never sends. Readiness is one fixed
  receipt; `AuthorityMayChange` lets the control plane refuse it.

`HostedContract` says: attempts are numbered in the order they are handed out,
only the newest starts, once, and the run is settled once, as completed only by
an attempt that started and as rejected only by one that never will.
`HostedRunner!Contract` maps it to the control plane's attempt counter, the
runner's started claims and the control plane's settlement.

### FollowUps, Reassessment

`FollowUps` follows a promotion through its transactions: `ReadRequest`,
`Reserve`, `CreateRun`, `RecordPromotion`, `FinishPromotion`; when a continuation
is active, `CheckCommitted` looks for a run and `PutBack` resets the request, in
two steps as in the code. A completion's handler, a worker and a person's
request may promote the same request at once and stop anywhere. A handler and a
worker bring a fresh run id (`PromoteNext`); the create-run route passes the
client's, which may be any, also one that another request reserved or a run has
(`PromoteOne`): the creation then fails and the request keeps the id. `contested`
is a history variable: the requests put back at a moment when their run existed
or was about to. The branch that gives a `promoting` request without a run id
one is for rows of an older schema and is not reachable here.

`Reassessment` keeps an obligation per fact, since its key is the digest of the
source, and what a worker has seen when its assessment commits. The thread has a
completion contract from the first run result that is processed on (`contract`).
Without one `ingestRunResult` and `reassessWorkThread` return nothing, and the
processor goes on all the same: `FindContract` then leads straight to `Dispatch`,
and the obligation may be satisfied without an assessment. The handler that
completes a run assesses too (`AssessElsewhere`). What the processor finds
otherwise - satisfied, to be deferred, blocked, or an error - is a free choice.
An assessment that lost a race reads again, up to eight times, in the code; that
only adds to what it covers. A worker's lease token is the worker.

### ProjectionOutbox and OutboxPromise

Rows with a chain of parents, one of them a report on the hosted completion; two
pumps; a destination that takes a projection, refuses it for now or for good,
and knows one it has taken. `OutboxPromise` is the log the destination sees: a
projection arrives after its parent and after the completion it reports, is
confirmed only when it has arrived, and stays confirmed. The branch for a
missing or foreign parent is `Broken`, which brings a row to attention. A row
that was taken ends acknowledged, or needs attention when the acknowledgement
itself fails.

### JobQueue, HostedPermission

`JobQueue`: a claim counts an attempt and leases the job; `Exhausted` jobs fail
when the next claim looks. The lease token is the number of the attempt. A call
of the worker may fail before or after it commits.

`HostedPermission`: the permission of an action at the control plane, decided by
people; the daemon that polls it and trusts its own lease (`trusts`), which ends
before the control plane's (`LocalLeaseWithinCloud` in `HostedRunner`); the
session that performs, reports, and repeats on closing what it could not report.
An agent that was allowed to act may act after its lease and its session. A
receipt that is sent again is repeated if it is the same, as one of a trusted
provider is, and refused if it differs, as the executor's own do by their time.
The control plane would let a receipt replace an `outcome_unknown` one that it
names as its predecessor; no runner names one.

### GithubDelivery, AdmissionBatch

`GithubDelivery`: a delivery is reserved under a token that expires; its run is
admitted from an envelope stamped with the delivery and the instant, so the same
envelope is replayed and any other conflicts; its outcome is recorded under the
token. The source event of a delivery is chosen when it first comes. `told`, the
answers GitHub was given, is a history variable. The creation of a binding, bad
signatures and a delivery id that returns with another payload are left out:
they touch no delivery.

`AdmissionBatch`: one batch, posted by several requests, each of which owns its
leases under a name of its own and so posts once. `AdmitItem` creates the run of
an item and is not fenced by a lease, as in the code. The branch for an item
leased to somebody else is not reachable: an item's lease ends with its batch's.

`MCRecords` holds one instance of each of these seven modules. They share no
state, so a behaviour picks one of them by `record` at its start; the states are
their sum, and one configuration serves all.

## 3. The runs

| Run | Instance | Question | Distinct states |
|---|---|---|---|
| `actions` | 1 run, 1 runner, a reusable and a one-shot key, modes ask and autonomous, 2 attempts | leases, attempts and actions agree; releases happen once and are not forgotten; the contract is kept | 1 343 781 |
| `capacity` | 2 factory runs, 1 runner with 1 slot, 2 attempts per run and 3 in all, 3 possible | capacity and budgets | 1 374 882 |
| `live` | 1 profiled run, 4 keys (two of one scope, one low-risk, one blocked), 1 attempt, leases of 2 ticks | nothing is released without a human's word; a dropped attempt loses its run; a decision arrives | 341 374 |
| `delivery` | 2 intents, 2 workers, 3 claims per intent | one call, truthful verdict, payload kept, settlement fits | 897 462 |
| `hosted` | 1 hosted run, 2 attempts, 2 claim operations, lease of 2 ticks, 1 renewal, 1 call under way and 1 late request | one holder, journal in order, local lease within the granted one, truthful settlement, the contract is kept | 795 933 |
| `records` | each module with 2 actors and 2 or 3 records, leases of 1 tick, 2 attempts | see the properties below | 513 657 |
| `approval_reachable`, `concurrency`, `start_recorded`, `timeout_recorded`, `hosted_shell`, `run_found` | small | violated, see section 6 | |

Bounds. `MaxAttempts` and `MaxClaims` are the only ones that cut behaviours:
they stop new claims. Two attempts are what "a stale attempt against its
successor" needs, and three claims let a lease expire under a worker, be
claimed by another, and expire again; a third attempt is used where budgets are
compared. A lease of one tick has both states the code tells apart. `live` uses
two ticks: with one, every lease runs out under a clock that must advance,
and a decision would count as delivered because the attempt is over; with two,
heartbeats can keep the attempt going for ever, and the decision has to arrive.
Runs are independent but for capacity and workstream budgets, so one run
suffices elsewhere. `capacity` declares symmetry over runs, which no
configured constant distinguishes. `hosted` needs two attempts for a successor,
a lease of two ticks for a renewal that changes something, and one late request,
the one that overtakes. In `records` two actors of each kind are the one whose
lease ran out and the one who took over; two attempts reach every limit; an
instant more than the first lets a GitHub handler outlive its reservation. Two
run ids (`MaxRuns`) are one for each request, or one that both want; ids are
taken up again when nothing has them. Of two facts one is a run's result
(`RunResults`), so that the other comes before the contract or after it.
Deadlock is checked in the runs of `RunLedger` and `DeliveryKernel`; `hosted`,
`hosted_shell`, `run_found` and `records` do stop, when every bounded supply of attempts,
requests and calls is used up.

Properties worth a word:

- `OneLeasedAttempt`: the lease columns of a run and its attempt rows tell one
  story; eight operations write them, and every fence compares them.
- `MaterialReleasedOnce`, `ReleaseNotForgotten`: exactly the pair a retry breaks
  in one direction or the other.
- `DeliveryTypeOK`: with its types, that a row has a fence and an expiry exactly
  from its first claim on (`RowsFit`), as the table's CHECK demands: a claim that
  left the expiry out would never run out.
- `NoReleaseWithoutApproval`: a grant reaches neither another scope nor a
  one-shot key, and no denial is overridden by it.
- `FinalStays`: run status, attempt status, settled actions and decisions are
  final, whichever stale caller comes.
- `AtMostOneCall`, `KeepsPromise`: the delivery kernel may never call twice, nor
  record a verdict that a late application proves wrong.
- `PayloadKept`: a row never exists without a file that recovery can start from.
- `SettlementTellsTheTruth`, `OneHolder`, `JournalInOrder`: the hosted run's two
  ledgers agree although every request may be lost, repeated or late and the
  runner may crash between any two writes.
- `ReservationKept`, `PromotionStays`: a follow-up's run can be found from its
  request after a crash anywhere, whatever was put back and reserved again under
  whichever id, and no second promoter exchanges it. The exception is a request
  put back just when another promoter has created its run or is about to
  (`contested`): there the code loses the reservation, which is the run
  `run_found` of section 6. `ReservationKept` says that this is the only way.
- `NoFactForgotten`, `FactsAreRead`: a fact recorded while another of its source
  is being assessed is read in the end, or a human is told. The exception is what
  the code does without a contract: an obligation may end satisfied although
  nothing was assessed. Then, says `NoFactForgotten`, no assessment has committed
  at all and whichever comes first reads the fact (`ReadFirst`); and
  `FactsAreRead` holds unless no assessment is ever made, which takes that every
  run's result waits for a human. docs/adr/0002 satisfies an obligation "because
  governance has incorporated the fact"; before the contract that is not so.
- `KeepsOutboxPromise`, `NotLeftBehind`: the destination sees parents first, and
  no row stays leased to a pump that is gone.
- `SettledForItsLastClaim`, `JobsEnd`: a job settles once, for its last claim,
  and ends even if every worker dies in every attempt.
- `PerformedWasAllowed`, `EndedIsAccounted`: nothing is performed without a
  decision for that attempt, and a session that ends well has reported all.
- `AnsweredOnce`, `AdmissionAccounted`: GitHub's redeliveries get one story, and
  it fits the runs that exist.
- `BatchTellsItsItems`: the result of a batch is that of its items, whoever took
  it over.

## 4. Fairness

`FairSpec` adds to the ledger weak fairness of the clock, of `RecoverExpiredLease`
for each run (every poll of any daemon's serve loop begins with recovery, oldest
expiry first) and of `ResolveActionPermission` (the daemon's resolver polls its
action every 250 ms while the executor lives). Nothing is assumed of humans,
runners, executors or the provider, so liveness is stated about what the system
owes them: `NoAbandonedAttempt` and `DecisionDelivered`, both with the escape
that the attempt ended.

`MCRecords!Spec` has the fairness of the drained queues. Obligations: weak
fairness of each worker's steps, of the clock and of the due times, and strong
fairness of the claim of each obligation, because claims are taken in the order
of due times. Nothing is assumed of assessments made by other handlers, nor of
renewals: that a worker's timer is in time, once the faults are over, is said by
`InTime`. Projections: weak fairness of the pumps' timers, of the answers
and of the clock. Both liveness properties speak of behaviours in which the
faults end: `NoMoreFaults` sets `calm` and `LastFault` sets `steady`, at any time
or never; afterwards nobody crashes, no request is lost, and a lease does not run
out under a holder who is at work. Nothing forces these steps, and no safety
property depends on them. Jobs need neither: `JobsEnd` assumes that time passes,
that workers claim, and that a handler that is running comes to an end
(`NextJob`), not that any worker ever settles a job.

`HostedRunner!FairSpec`, for `hosted_shell` only, lets the loop, the pump and the
clock go on, and assumes of the network that a claim repeated for ever gets
through, is taken in for ever, and that an import that stays possible is made:
with these the counterexample is the code's own cycle and not an idle runner.

## 5. The proofs

Every safety invariant, action property and refinement that a passing run checks
is also a theorem, for any values of the constants that satisfy the named
assumptions. These say that

- bounds are numbers, and positive where the code starts from one
  (`ConstantsAssumption`, `DeliveryAssumption`, `CoordinatorAssumption`,
  `RunnerAssumption`, `FollowUpsAssumption`, `ReassessmentAssumption`,
  `OutboxAssumption`, `JobQueueAssumption`, `PermissionAssumption`,
  `BatchAssumption`, `ReservationsExpire`);
- the values that stand for absence are not names of things (`NoRunner` and
  `NoIntent` in the first two, `WorkersAreNamed`, `PumpsAreNamed`,
  `DeliveriesAreNamed`);
- tables of constants have their domains, and a one-shot key shares no approval
  scope with a reusable one (`ConstantsAssumption`: whether a permission may be
  reused is a property of its scope).

Some theorems go beyond the properties of the runs (`RowsGoOn`, and the last ones
named under each record below). TLC checked what they state on the instances of
section 3 before they were proved.

Sets of runs, jobs, workers, callers and so on may be infinite. The models
declare no recursive operator.

### The run ledger

`RunLedgerProofs`: `TypeCorrect` (`Spec => []TypeOK`) and `LeaseCorrect`
(`Spec => []OneLeasedAttempt`). The inductive invariant is their conjunction,
and neither half is inductive alone: the types need that a leased run has an
attempt (recovery indexes the attempts by `runAttempt`), and the lease story
needs the types. Two lemmas carry most actions: `OneLeaseKept`, for steps that
leave a run's lease and attempts alone, and `OneLeaseReleased`, for a run whose
attempt ends as its columns are cleared; the clock and the claim have their own.

`RunActionProofs` adds the actions. `InFlightOwned` and `ParkedAsks` come from
`LedgerInv`, which strengthens `ExecutingOwned` and `ParkedHasWaiting` by

- `AskedAfterStart`: an attempt that has not begun to execute has no actions;
- `SupersededCancelled`: every action of a reusable key but the latest is
  cancelled, because a new one is asked for only then. Without it a replay
  could be served from an older action and the key let loose twice.

Every step is then classified once (`NextShape`): it settles some actions that
were in flight or waiting, or asks for one action, releases it, allows it or
takes a decision on it. `LetLooseOnce` and `NotForgotten` follow together, since
each breaks without the other: only what was never let loose, or settled as not
done, may be let loose. `ReleasedOnAWord` needs that a grant comes from a
decision (`GrantsApproved`) and a decision from an action (`DecidedAsked`).

`RunContractProofs`: `OverStaysOver` (`FinalStays`) from the same
classification and one of the steps on a run's row; `ContractKept`, the
refinement, where each step grants a lease, releases one, performs one action,
closes one run, or is a stutter; and the limits, `CapacityKept` and
`BudgetKept`. The limits count sets of runs that the constants do not bound, so
`CapacityInv` and `BudgetInv` carry that the counted set is finite: a step adds at
most one run to a runner, or one attempt to the workstream.

### The delivery kernel

`DeliveryKernelProofs`: `DeliveryTypes`, `OneCall`, `SettlementsFit`,
`PayloadSafe` and `PromiseKept` (`Spec => KeepsPromise`, the refinement). None
of the first three is inductive alone; `DeliveryInv` adds that

- two workers are never past the begin mark of one intent (`Apart`), since a
  fenced row is begun by one claim and begun rows are not claimable;
- nothing is sent before the mark or by a worker that has only the mark
  (`SentAfterBegin`);
- requests under way and applied are no more than those sent, at most one
  (`Counted`);
- what a worker is about to record, and what a row records, is what happened
  at the provider, and a row closed with a certain verdict has no worker past
  the mark any more (`AnswersTrue`, `VerdictsTrue`).

The refinement then needs two lemmas: a step that closes no row and applies
nothing is a stutter, and a step that closes one row truthfully is `Close`.
`RowsGoOn` is about each row by itself: a verdict stands, a begun row can only be
closed and keeps its fence, and whatever changes a row's state or fence gives it
a greater revision, which is what the compare-and-set statements rely on. It
needs that a row has a revision just when it is there (`RowsNumbered`).

### Hosted runs

`HostedProofs` climbs four invariants, each on top of the one before:

1. `HostedInv`: the shapes of the tables, where the runner's loop stands
   (`LoopControl`), that a claim the runner has recorded is the one granted
   (`ClaimSound`), and that an answered call has its receipt. Gives
   `HostedTypes`.
2. `LeaseInv`: claims are granted for different attempts, only a run's current
   attempt has a running lease (`Numbered`), and a receipt never promises more
   time than is left (`ReceiptsWithinCloud`). Gives `LeasesWithinCloud` and
   `OneAttemptHolds`.
3. `JournalInv`: a journal has no request twice and belongs to a claim that was
   imported or is being rejected; every request under way was sent from it, and
   every receipt but a cancellation's answers an entry. Gives
   `JournalKeepsOrder`: an entry is sent only when the ones before it were
   acknowledged, and a late copy meets the receipt of the first.
4. `TruthInv`: a completion in a journal belongs to an attempt that was started
   and has completed, a rejection to one that never started, and the control
   plane settles a run on the word of its current attempt only. Gives
   `SettlementsAreTrue` and, with the classification of a step into handing out,
   starting, settling and stuttering, `HostedContractKept`.

### The records beside the ledger

`QueueProofs`:

- `JobsSettleOnce`, from `JobInv`: the token of a claimed job is the number of
  its try, so that a later claim changes it, and a worker that reports success
  has handled the job under the token it reports. `ClaimsHaveOneWorker`: no two
  workers have the same claim in hand (`TokensPassed`: no worker has a token the
  job has not come to). `JobsStaySettled`: attempts are not uncounted, and a job
  that succeeded or failed stays as it is.
- `FactsAreKept` and `SettlementFenced`, from `ReassessInv`: what a
  worker has on hand was recorded, and what it goes on to dispatch or to call
  done is `Read`: a committed assessment has it, or none has committed and every
  one under way has it (`AtWork`); obligations exist exactly for the recorded
  facts, and a satisfied one is `Read` (`Owed`). `Read` stays true because an
  assessment reads all the facts there are, and begins only under a contract:
  without one nothing is covered or being assessed (`ContractFirst`).
- `PromotionsHaveRuns`, `ReservationsKept` and `PromotionsStay`, from
  `FollowUpInv`: what a request's columns say at each status (`Reservation`) and
  what each caller of the promotion has read that still holds (`Sound`). A caller
  about to create the run finds its reservation in the request, or the request
  has been put back under it, which is when it becomes `contested`.
  `RunsAreNotShared`: two requests never get the same run, although they may
  reserve the same id (`RunsApart`: creation refuses an id that is a run's).
- `OutboxPromiseKept`, the refinement of `OutboxPromise`, from `OutboxInv`: a
  request that is about to go, is on its way or is late was ready when its row
  was leased, and ready stays ready; only what arrived is acknowledged.
  `ProjectionsInOrder`: projections arrive at most once, none before its parent.

`AdmissionProofs`:

- `PerformedOnPermission` and `EndedAccounted`, from `PermissionInv`: a call ever
  granted is authorized, what was performed is a granted call, and a session
  that ended well has nothing left to report. `DecisionsAreFinal`: no decision is
  taken back, no receipt withdrawn, and no session comes back to life.
- `AnswersStand` and `AdmissionsAccounted`, from `GithubInv`: what a handler has
  decided and what is recorded is justified by the run or the evidence, and
  only final outcomes are told. `OneDeliveryAccepted`: of the deliveries of one
  comment at most one is accepted. `OutcomesStand`: final outcomes stay.
- `BatchTellsTrue`, from `BatchInv`: only the request that owns the batch
  answers for its items, and its results are theirs except for the one it is
  admitting. Requests that lost the batch may hold anything. `ItemsNotTaken`: the
  lease of an item does not outlive that of the request's batch, so the owner of
  a batch never finds an item in another's hands. `ResultsStay`: completed
  results are never exchanged.

`RecordsProofs`: `RecordsTypes`, in the composition `MCRecords`, where a step is a
step of one record that leaves the others alone. It adds what the types say
beyond the invariants above, such as that a lease has a holder exactly while it
runs, no projection arrives twice, and the token of a GitHub reservation, which
is the instant it was made at, is never later than its expiry. `RecordsSafe`
carries what the two modules prove of each record by itself over to the
composition that TLC checks: each of its behaviours is one of every record.

### Model-checked only

The properties under fairness: `NoAbandonedAttempt` and `DecisionDelivered` of the
ledger, `FactsAreRead`, `NotLeftBehind` and `JobsEnd` of the records. Their proofs
need `ENABLED` and well-founded induction over behaviours, which are outside this
prover's reach. The six runs of section 6 are counterexamples and need no proof.

The inductive invariants were checked by TLC on the instances of section 3 as
well: `DeliveryInv`, `LedgerInv`, `ReleaseInv`, `ApprovalInv`, `CapacityInv`,
`BudgetInv`, `TruthInv` (with the receipts in place of all values in
`ReceiptsJournaled`) and `RecordsInv`.

## 6. Disagreements between code and documentation

Each has a run that TLC ends with a counterexample.

- `approval_reachable`: two permission requests of one attempt wait; resolving
  the first sets the run to `running`, and `recordApprovalDecision` then refuses
  the decision of the second because the run is not `needs_approval`.
- `concurrency`: the workstream's concurrency budget counts `assigned` and
  `running` runs at claim time; a run parked for approval frees its place and
  takes it back without a check.
- `start_recorded`: the idempotency key of a start names runner and run, not the
  attempt; a second attempt on the same runner is taken for a replay, so its
  start leaves no `run.running` event.
- `timeout_recorded`: when the hard timeout fires while the run is parked for
  approval, `completeRun` refuses the result, and the run is requeued later
  instead of recorded as `timed_out`.
- `hosted_shell`: a claim is persisted and its lease runs out before the import.
  The import is refused, and the rejection is only journaled before the expiry;
  the operation stays active, each iteration replays it, the control plane
  answers with the same expired attempt, and the shell is never reconciled as
  the comment at `control-v1.ts:1894` promises. Until it is, the runner claims
  no other run.
- `run_found`: a promoter whose `createRun` was turned away by a continuation
  looks for a run of the reserved id (`repository.ts:8278`), finds none, and
  resets the request (`8283`-`8294`). Between the two it awaits; a second
  promoter, which took the same reservation up, creates the run there. The
  request is then queued and names no run, while its run exists: later
  promotions reserve another id and fail on the run of the same event. The test
  at `packages/store/test/repository.test.ts:3458` has a retry resume the run
  that was committed.

Two consequences of what the models say have no run of their own. A request
promoted under an id that is another run's stays `promoting` for ever: every
later promotion takes it up first, with that id, and fails, so the requests
behind it wait (`FollowUps`: `PromoteOne`, `CreateRun`). And a fact recorded
before its thread has a contract may have its obligation satisfied without an
assessment (`Reassessment`: `FindContract`).

## 7. Not modelled, and the plan

`PROJECT.json` lists every component and hazard. Details of the code that no
property of the models can tell are left out and named where they are: a
rejection of a start records the executor with the runner, and a runner has one
for a run; the replay of a start is looked for among the run's last 250 events,
more than two or three attempts write; and `resolveActionPermission` would
release an `authorized` action, which the runner never polls. In order:

1. *Done*: the ledger and the delivery kernel with their contracts, hosted runs
   with theirs, and the seven records beside the ledger.
2. *Done*: a theorem for each safety property of these (section 5).
3. Completion governance: waivers, escalations and conclusions against moving
   assessments; convergence of workstreams.
4. `ClaimScan`: the 64-row window and the cursor's round trip; every queued run
   is eventually looked at. Readiness receipts that are replaced while runs wait
   at the control plane.

Adapters, CLI, configuration, client and console convert, render or do single
reads and writes; they have no protocol of their own beyond the operations above.

## 8. Running

    tlc -workers 2 -config MCActions.cfg MCLedger
    tlc -workers 2 -config MCDelivery.cfg MCDelivery
    tlc -workers 2 -config MCHosted.cfg MCHosted
    tlc -workers 2 -config MCRecords.cfg MCRecords
    tlc -workers 2 -config MCRunFound.cfg FollowUps
    tlapm RunLedgerProofs.tla
    tlapm RunActionProofs.tla
    tlapm RunContractProofs.tla
    tlapm DeliveryKernelProofs.tla
    tlapm HostedProofs.tla
    tlapm QueueProofs.tla
    tlapm AdmissionProofs.tla
    tlapm RecordsProofs.tla
