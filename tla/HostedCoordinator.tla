------------------------- MODULE HostedCoordinator -------------------------
(***************************************************************************)
(* Hosted runs at the control plane (createHostedRunCoordinator in         *)
(* apps/control-plane/src/modules/hosted-runs/index.ts): a run is admitted *)
(* once, claimed by its runner under a fenced, leased attempt, moved by    *)
(* lifecycle requests of that attempt, and settled by exactly one of them. *)
(* Every operation is one PostgreSQL transaction that locks the run's row, *)
(* so it is one action here.                                               *)
(*                                                                         *)
(* An attempt is a pair <<run, number>>: the number is the epoch, and the  *)
(* attempt id and fencing token are as unique as the pair.  Time is kept   *)
(* as what is left of each lease, 0 for an expired one; a lease's identity *)
(* (the expiry instant a heartbeat quotes) is its renewal number.          *)
(***************************************************************************)
EXTENDS Naturals, FiniteSets

CONSTANTS
    Runs,           \* hosted runs of one organization, all of one runner
    MaxAttempt,     \* bound: attempts per run
    MaxClaim,       \* bound: claim operations the runner may begin
    Lease           \* ticks of an attempt lease (leaseDurationMs)

ASSUME CoordinatorAssumption ==
    /\ MaxAttempt \in Nat \ {0}
    /\ MaxClaim \in Nat \ {0}
    /\ Lease \in Nat \ {0}

VARIABLES
    cpRun,          \* cp_hosted_run: state and current attempt number
    cpAttempt,      \* cp_hosted_attempt: state, lease left, renewal number
    cpClaim,        \* cp_hosted_claim: the attempt stored for an operation
    receipts        \* cp_hosted_lifecycle_receipt: request -> lease granted

cpVars == <<cpRun, cpAttempt, cpClaim, receipts>>

Attempts == Runs \X (1..MaxAttempt)
ClaimOps == 1..MaxClaim
NoAttempt == <<>>
Settled == {"completed", "rejected", "cancelled"}
OpenAttempt == {"claimed", "running"}

\* A lifecycle request: its ids are digests of the attempt, the action and,
\* for a heartbeat, the lease it expects to renew.
Request(a, action, ver) == [attempt |-> a, action |-> action, ver |-> ver]

CoordinatorInit ==
    /\ cpRun = [r \in Runs |-> [state |-> "none", current |-> 0]]
    /\ cpAttempt = [a \in Attempts |->
                      [state |-> "none", left |-> 0, ver |-> 0]]
    /\ cpClaim = [o \in ClaimOps |-> NoAttempt]
    /\ receipts = {}

\* The admission transaction: a run is created pending, a repeated admission
\* is replayed without a write.
Admit(r) ==
    /\ cpRun[r].state = "none"
    /\ cpRun' = [cpRun EXCEPT ![r].state = "pending"]
    /\ UNCHANGED <<cpAttempt, cpClaim, receipts>>

CurrentAttempt(r) == <<r, cpRun[r].current>>

\* (fault) A run is claimed again while its lease holds.
ClaimableEarly(r) == cpRun[r].state \notin Settled \cup {"none"}

\* The candidate query: unsettled, and pending or with an expired lease.
Claimable(r) ==
    /\ cpRun[r].state \notin Settled \cup {"none"}
    /\ \/ cpRun[r].state = "pending"
       \/ cpRun[r].current > 0 /\ cpAttempt[CurrentAttempt(r)].left = 0

\* A first execution of a claim operation that finds run r: the old attempt
\* is expired, the next one inserted, the claim stored under the operation.
GrantClaim(o, r) ==
    LET n == cpRun[r].current + 1
        old == CurrentAttempt(r)
        expired == IF n > 1 /\ cpAttempt[old].state \in OpenAttempt
                   THEN [cpAttempt EXCEPT ![old].state = "expired"]
                   ELSE cpAttempt
    IN  /\ cpClaim[o] = NoAttempt
        /\ Claimable(r)
        /\ n <= MaxAttempt
        /\ cpRun' = [cpRun EXCEPT ![r] = [state |-> "claimed", current |-> n]]
        /\ cpAttempt' = [expired EXCEPT ![<<r, n>>] =
                            [state |-> "claimed", left |-> Lease, ver |-> 0]]
        /\ cpClaim' = [cpClaim EXCEPT ![o] = <<r, n>>]
        /\ UNCHANGED receipts

\* (fault) A fence that asks only whether the run is open.
UnsettledOnly(q) == cpRun[q.attempt[1]].state \notin Settled \cup {"none"}

\* The fence every lifecycle request must pass: the current attempt of an
\* unsettled run, its lease not expired and, for a heartbeat, the very lease
\* the request names.
FencePasses(q) ==
    LET r == q.attempt[1]
    IN  /\ cpRun[r].state \notin Settled \cup {"none"}
        /\ q.attempt = CurrentAttempt(r)
        /\ cpAttempt[q.attempt].left > 0
        /\ q.action = "heartbeat" => q.ver = cpAttempt[q.attempt].ver

HasReceipt(q) == \E rc \in receipts : rc.request = q
ReceiptOf(q) == CHOOSE rc \in receipts : rc.request = q

\* (fault) The state is named for the action.
StateNamedAction(action, state) == action

\* What the run and its attempt become when the action is accepted.
StateAfter(action, state) ==
    CASE action = "running"  -> "running"
      [] action = "reject"   -> "rejected"
      [] action = "complete" -> "completed"
      [] action = "cancel"   -> "cancelled"
      [] OTHER               -> state

\* The lifecycle transaction: a stored receipt is replayed and a request that
\* fails the fence refused, both without a write; otherwise the receipt, the
\* attempt and the run are written together.
ApplyLifecycle(q) ==
    LET a == q.attempt
        r == a[1]
        renews == q.action = "heartbeat"
        left == IF renews THEN Lease ELSE cpAttempt[a].left
        ver == IF renews THEN cpAttempt[a].ver + 1 ELSE cpAttempt[a].ver
    IN  IF HasReceipt(q) \/ ~FencePasses(q)
        THEN UNCHANGED cpVars
        ELSE /\ receipts' = receipts \cup
                   {[request |-> q, left |-> IF renews THEN Lease ELSE 0]}
             /\ cpAttempt' = [cpAttempt EXCEPT ![a] =
                   [state |-> StateAfter(q.action, @.state),
                    left  |-> left,
                    ver   |-> ver]]
             /\ cpRun' = [cpRun EXCEPT ![r].state =
                             StateAfter(q.action, @)]
             /\ UNCHANGED cpClaim

\* The answer that transaction returns: 200/201 with a receipt, or 409.
LifecycleAnswer(q) ==
    IF HasReceipt(q) \/ FencePasses(q) THEN "receipt" ELSE "refused"

\* The reconciliation job's sweep marks the lapsed attempts of open runs.
ReconcileExpiredAttempts ==
    LET lapsed == {a \in Attempts : /\ cpAttempt[a].state \in OpenAttempt
                                    /\ cpAttempt[a].left = 0
                                    /\ cpRun[a[1]].state \notin Settled}
    IN  /\ lapsed # {}
        /\ cpAttempt' = [a \in Attempts |->
                           IF a \in lapsed
                           THEN [cpAttempt[a] EXCEPT !.state = "expired"]
                           ELSE cpAttempt[a]]
        /\ UNCHANGED <<cpRun, cpClaim, receipts>>

\* One tick off a lease.
Less(k) == IF k > 0 THEN k - 1 ELSE 0

CoordinatorTick ==
    /\ cpAttempt' = [a \in Attempts |->
                       [cpAttempt[a] EXCEPT !.left = Less(@)]]
    /\ receipts' = {[rc EXCEPT !.left = Less(@)] : rc \in receipts}
    /\ UNCHANGED <<cpRun, cpClaim>>
=============================================================================
