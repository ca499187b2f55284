---------------------------- MODULE HostedProofs ----------------------------
(***************************************************************************)
(* Proofs about a runner that serves hosted runs (HostedRunner, composed   *)
(* with HostedCoordinator), for any number of runs, attempts, claim        *)
(* operations and requests under way.                                      *)
(***************************************************************************)
EXTENDS HostedRunner, SequenceTheorems, FiniteSetTheorems, TLAPS

----------------------------------------------------------------------------
(* Shapes and control.                                                     *)

RunRecord == [state : {"none", "pending", "claimed", "running"} \cup Settled,
              current : 0..MaxAttempt]
AttemptRecord == [state : OpenAttempt \cup Settled \cup {"none", "expired"},
                  left : 0..Lease, ver : 0..MaxRenewals]
ReceiptRecord == [request : Requests, left : 0..Lease]
ClaimRecord == [state : {"none", "pending", "claimed", "empty"}, active : BOOLEAN,
                attempt : Attempts \cup {NoAttempt}, left : 0..Lease,
                imported : BOOLEAN, started : BOOLEAN]
LocalRunRecord == [status : Live \cup {"none", "queued", "done"}, current : 0..MaxAttempt]
LocalAttemptRecord == [status : Live \cup {"none", "interrupted", "completed"},
                       left : 0..Lease, ver : 0..MaxRenewals]

\* What a journal may hold: never a cancellation, and heartbeats for the
\* renewals the bound allows only.
Sendable == {q \in Requests : /\ q.action # "cancel"
                              /\ q.action = "heartbeat" => q.ver < MaxRenewals}
EntryRecord == {e \in [action : Actions, ver : 0..MaxRenewals, state : EntryStates,
                       tok : 0..MaxCalls, left : 0..EntryLease] :
                  /\ e.action # "cancel"
                  /\ e.action = "heartbeat" => e.ver < MaxRenewals}
CallRecord == [request : Sendable, tok : 1..MaxCalls,
               answer : {"unserved", "receipt", "refused"}]

CpShape ==
    /\ cpRun \in [Runs -> RunRecord]
    /\ cpAttempt \in [Attempts -> AttemptRecord]
    /\ cpClaim \in [ClaimOps -> Attempts \cup {NoAttempt}]
    /\ receipts \subseteq ReceiptRecord

ClaimShape == claimOp \in [ClaimOps -> ClaimRecord]
LocalShape == /\ localRun \in [Runs -> LocalRunRecord]
              /\ localAttempt \in [Attempts -> LocalAttemptRecord]
JournalShape == journal \in [Attempts -> Seq(EntryRecord)]
LoopShape ==
    /\ pc \in {"idle", "claiming", "claimed", "starting", "executing"}
    /\ op \in ClaimOps \cup {0}
    /\ claimAnswer \in {"none", "unserved", "claim", "empty", "conflict"}
NetShape ==
    /\ calls \subseteq CallRecord /\ IsFiniteSet(calls)
    /\ late \subseteq Sendable
    /\ lateClaims \subseteq ClaimOps

Shape == /\ CpShape /\ ClaimShape /\ LocalShape /\ JournalShape
         /\ LoopShape /\ NetShape

\* Where the loop is, and what it holds there.
LoopControl ==
    /\ claimAnswer # "none" => pc = "claiming"
    /\ pc # "idle" => op \in ClaimOps
    /\ claimAnswer = "claim" => cpClaim[op] # NoAttempt
    /\ pc = "claimed" => claimOp[op].state = "claimed"
    /\ pc \in {"starting", "executing"} => claimOp[op].imported

\* A persisted claim is the control plane's; only a claimed one is imported,
\* which closes it, and only an imported one started.
ClaimSound(o, claim) ==
    /\ IF claim.state = "claimed"
       THEN claim.attempt \in Attempts /\ claim.attempt = cpClaim[o]
       ELSE claim.attempt = NoAttempt /\ claim.left = 0
    /\ claim.imported => claim.state = "claimed" /\ ~claim.active
    /\ claim.active => claim.state \in {"pending", "claimed"}
    /\ claim.started => claim.imported

RunControl == \A r \in Runs : localRun[r].status \in Live <=> localRun[r].current # 0
Answered == \A c \in calls : c.answer = "receipt" => HasReceipt(c.request)

HostedInv ==
    /\ Shape
    /\ LoopControl
    /\ \A o \in ClaimOps : ClaimSound(o, claimOp[o])
    /\ RunControl
    /\ Answered

LEMMA JournalEntry ==
    ASSUME JournalShape, NEW a \in Attempts
    PROVE  /\ journal[a] \in Seq(EntryRecord) /\ Len(journal[a]) \in Nat
           /\ DOMAIN journal[a] = 1..Len(journal[a])
           /\ \A i \in DOMAIN journal[a] : journal[a][i] \in EntryRecord
<1>1. journal[a] \in Seq(EntryRecord)
  BY DEF JournalShape
<1>2. /\ Len(journal[a]) \in Nat /\ DOMAIN journal[a] = 1..Len(journal[a])
      /\ journal[a] \in [1..Len(journal[a]) -> EntryRecord]
  BY <1>1, LenProperties
<1> QED BY <1>1, <1>2

LEMMA ShapeTypes == Shape => TypeOK
<1> SUFFICES ASSUME Shape PROVE TypeOK
  OBVIOUS
<1>1. CpShape /\ ClaimShape /\ LocalShape /\ JournalShape /\ LoopShape /\ NetShape
  BY DEF Shape
<1>2. ASSUME NEW a \in Attempts, NEW i \in DOMAIN journal[a]
      PROVE  journal[a][i] \in [action : Actions, ver : 0..MaxRenewals, state : EntryStates,
                                tok : 0..MaxCalls, left : 0..EntryLease]
  BY <1>1, <1>2, JournalEntry DEF EntryRecord
<1>3. /\ calls \subseteq [request : Requests, tok : 1..MaxCalls,
                          answer : {"unserved", "receipt", "refused"}]
      /\ late \subseteq Requests
  BY <1>1 DEF NetShape, CallRecord, Sendable
<1> QED BY <1>1, <1>2, <1>3
        DEF TypeOK, CpShape, ClaimShape, LocalShape, LoopShape, NetShape, RunRecord,
            AttemptRecord, ReceiptRecord, ClaimRecord, LocalRunRecord, LocalAttemptRecord

\* What the tuples and sets of attempts are.
LEMMA AttemptFacts ==
    /\ NoAttempt \notin Attempts
    /\ \A a \in Attempts : /\ a[1] \in Runs /\ a[2] \in 1..MaxAttempt
                           /\ a = <<a[1], a[2]>> /\ a[2] # 0
    /\ \A r \in Runs : \A n \in 1..MaxAttempt :
         /\ <<r, n>> \in Attempts /\ <<r, n>>[1] = r /\ <<r, n>>[2] = n
    /\ \A r \in Runs : \A a \in Attempts : a = CurrentAttempt(r) => a[1] = r /\ a[2] = cpRun[r].current
    /\ MaxAttempt \in Nat /\ MaxClaim \in Nat /\ Lease \in Nat \ {0} /\ MaxRenewals \in Nat
    /\ MaxCalls \in Nat \ {0} /\ EntryLease \in Nat \ {0} /\ 0 \notin ClaimOps
  BY CoordinatorAssumption, RunnerAssumption DEF NoAttempt, Attempts, CurrentAttempt, ClaimOps

\* The token of a new call is one no other call has.
LEMMA FreshTokenIsFree ==
    ASSUME NetShape, Cardinality(calls) < MaxCalls
    PROVE  FreshToken \in 1..MaxCalls
<1>1. \E t \in 1..MaxCalls : \A c \in calls : c.tok # t
  <2>1. SUFFICES ASSUME \A t \in 1..MaxCalls : \E c \in calls : c.tok = t PROVE FALSE
    OBVIOUS
  <2>2. [c \in calls |-> c.tok] \in Surjection(calls, 1..MaxCalls)
    BY <2>1 DEF NetShape, CallRecord, Surjection
  <2>3. Cardinality(1..MaxCalls) <= Cardinality(calls)
    BY <2>2, FS_Surjection DEF NetShape
  <2>4. Cardinality(1..MaxCalls) = MaxCalls
    <3>1. MaxCalls \in Int /\ 1 \in Int /\ ~(1 > MaxCalls) /\ MaxCalls - 1 + 1 = MaxCalls
      BY AttemptFacts
    <3> QED BY <3>1, FS_Interval
  <2>5. Cardinality(calls) \in Nat
    BY FS_CardinalityType DEF NetShape
  <2> QED BY <2>3, <2>4, <2>5, AttemptFacts
<1> QED BY <1>1 DEF FreshToken

----------------------------------------------------------------------------
(* What a step does at the control plane.                                  *)

\* Lifecycle requests it may be serving.
UnderWay == {c.request : c \in calls} \cup late

CpServes ==
    \/ UNCHANGED cpVars
    \/ ReconcileExpiredAttempts
    \/ \E r \in Runs : Admit(r) \/ Cancel(r)
    \/ \E o \in ClaimOps, r \in Runs : GrantClaim(o, r)
    \/ \E q \in UnderWay : ApplyLifecycle(q)
CpMoves == CpServes \/ CoordinatorTick

\* A lifecycle request is accepted.
Accepted(q) ==
    LET a == q.attempt
        renews == q.action = "heartbeat"
    IN  /\ ~HasReceipt(q) /\ FencePasses(q)
        /\ a \in Attempts /\ a[2] = cpRun[a[1]].current /\ cpAttempt[a].left > 0
        /\ receipts' = receipts \cup {[request |-> q, left |-> IF renews THEN Lease ELSE 0]}
        /\ cpAttempt' = [cpAttempt EXCEPT ![a] =
             [state |-> StateAfter(q.action, cpAttempt[a].state),
              left |-> IF renews THEN Lease ELSE cpAttempt[a].left,
              ver |-> IF renews THEN cpAttempt[a].ver + 1 ELSE cpAttempt[a].ver]]
        /\ cpRun' = [cpRun EXCEPT ![a[1]] =
             [state |-> StateAfter(q.action, cpRun[a[1]].state), current |-> cpRun[a[1]].current]]
        /\ UNCHANGED cpClaim
        /\ renews => q.ver = cpAttempt[a].ver

LEMMA LifecycleAccepted ==
    ASSUME CpShape, NEW q \in Requests, ApplyLifecycle(q)
    PROVE  UNCHANGED cpVars \/ Accepted(q)
<1>1. q.attempt \in Attempts /\ q.attempt[1] \in Runs
  BY AttemptFacts DEF Requests
<1>2. CASE HasReceipt(q) \/ ~FencePasses(q)
  BY <1>2 DEF ApplyLifecycle
<1>3. CASE ~(HasReceipt(q) \/ ~FencePasses(q))
  <2> DEFINE a == q.attempt
             r == a[1]
  <2>1. /\ receipts' = receipts \cup {[request |-> q,
                          left |-> IF q.action = "heartbeat" THEN Lease ELSE 0]}
        /\ cpAttempt' = [cpAttempt EXCEPT ![a] =
             [state |-> StateAfter(q.action, cpAttempt[a].state),
              left |-> IF q.action = "heartbeat" THEN Lease ELSE cpAttempt[a].left,
              ver |-> IF q.action = "heartbeat" THEN cpAttempt[a].ver + 1 ELSE cpAttempt[a].ver]]
        /\ cpRun' = [cpRun EXCEPT ![r].state = StateAfter(q.action, cpRun[r].state)]
        /\ UNCHANGED cpClaim
    BY <1>1, <1>3 DEF ApplyLifecycle, CpShape
  <2>2. cpRun[r] \in RunRecord
    BY <1>1 DEF CpShape
  <2>3. cpRun' = [cpRun EXCEPT ![r] =
             [state |-> StateAfter(q.action, cpRun[r].state), current |-> cpRun[r].current]]
    <3>1. [cpRun[r] EXCEPT !.state = StateAfter(q.action, cpRun[r].state)]
            = [state |-> StateAfter(q.action, cpRun[r].state), current |-> cpRun[r].current]
      BY <2>2 DEF RunRecord
    <3>2. cpRun' = [cpRun EXCEPT ![r] = [cpRun[r] EXCEPT !.state = StateAfter(q.action, cpRun[r].state)]]
      BY <1>1, <2>1 DEF CpShape
    <3> QED BY <3>1, <3>2
  <2>4. a[2] = cpRun[r].current /\ cpAttempt[a].left > 0
        /\ (q.action = "heartbeat" => q.ver = cpAttempt[a].ver)
    BY <1>1, <1>3, AttemptFacts DEF FencePasses
  <2> QED BY <1>1, <1>3, <2>1, <2>3, <2>4 DEF Accepted
<1> QED BY <1>2, <1>3

LEMMA StatesAfter ==
    ASSUME NEW action \in Actions
    PROVE  /\ \A s \in {"none", "pending", "claimed", "running"} \cup Settled :
                StateAfter(action, s) \in {"none", "pending", "claimed", "running"} \cup Settled
           /\ \A s \in OpenAttempt \cup Settled \cup {"none", "expired"} :
                StateAfter(action, s) \in OpenAttempt \cup Settled \cup {"none", "expired"}
  BY DEF StateAfter, Actions, Settled, OpenAttempt

\* A request the control plane may serve keeps within the bounds.
Servable(q) == q \in Requests /\ (q.action = "heartbeat" => q.ver < MaxRenewals)

LEMMA ServedAreServable ==
    ASSUME CpShape, NetShape
    PROVE  /\ \A q \in UnderWay : Servable(q) /\ q.action # "cancel"
           /\ \A r \in Runs : Cancel(r) => \E q : /\ Servable(q) /\ q.action = "cancel"
                                                  /\ ApplyLifecycle(q)
<1>1. \A q \in UnderWay : Servable(q) /\ q.action # "cancel"
  BY DEF UnderWay, NetShape, CallRecord, Sendable, Servable
<1>2. ASSUME NEW r \in Runs, Cancel(r)
      PROVE  \E q : Servable(q) /\ q.action = "cancel" /\ ApplyLifecycle(q)
  <2>1. CurrentAttempt(r) \in Attempts
    <3>1. cpRun[r].current \in 1..MaxAttempt
      BY <1>2 DEF Cancel, CpShape, RunRecord
    <3> QED BY <3>1, AttemptFacts DEF CurrentAttempt
  <2>2. PICK q : q = Request(CurrentAttempt(r), "cancel", 0)
    OBVIOUS
  <2>3. q \in Requests /\ q.action = "cancel"
    BY <2>1, <2>2, AttemptFacts DEF Request, Requests, Actions
  <2> QED BY <1>2, <2>2, <2>3 DEF Cancel, Servable
<1> QED BY <1>1, <1>2

\* The control plane's move, with every lifecycle request in its accepted form.
ServeCases ==
    \/ UNCHANGED cpVars
    \/ ReconcileExpiredAttempts
    \/ \E r \in Runs : Admit(r)
    \/ \E o \in ClaimOps, r \in Runs : GrantClaim(o, r)
    \/ \E q : /\ Servable(q) /\ Accepted(q)
              /\ q \in UnderWay \/ q.action = "cancel"
CpCases == ServeCases \/ CoordinatorTick

LEMMA ServeSplit == CpShape /\ NetShape /\ CpServes => ServeCases
<1> SUFFICES ASSUME CpShape, NetShape, CpServes PROVE ServeCases
  OBVIOUS
<1>1. ASSUME NEW q, Servable(q), ApplyLifecycle(q), q \in UnderWay \/ q.action = "cancel"
      PROVE  ServeCases
  BY <1>1, LifecycleAccepted DEF ServeCases, Servable
<1>2. CASE \E q \in UnderWay : ApplyLifecycle(q)
  BY <1>1, <1>2, ServedAreServable
<1>3. CASE \E r \in Runs : Cancel(r)
  BY <1>1, <1>3, ServedAreServable
<1> QED BY <1>2, <1>3 DEF CpServes, ServeCases

LEMMA CpSplit == CpShape /\ NetShape /\ CpMoves => CpCases
  BY ServeSplit DEF CpMoves, CpCases

\* The grant of a claim, with the attempts that are not touched set apart.
LEMMA GrantEffect ==
    ASSUME CpShape, NEW o \in ClaimOps, NEW r \in Runs, GrantClaim(o, r)
    PROVE  LET n == cpRun[r].current + 1 IN
           /\ n \in 1..MaxAttempt /\ <<r, n>> \in Attempts
           /\ Claimable(r) /\ cpClaim[o] = NoAttempt
           /\ cpRun' = [cpRun EXCEPT ![r] = [state |-> "claimed", current |-> n]]
           /\ cpClaim' = [cpClaim EXCEPT ![o] = <<r, n>>]
           /\ UNCHANGED receipts
           /\ cpAttempt' \in [Attempts -> AttemptRecord]
           /\ cpAttempt'[<<r, n>>] = [state |-> "claimed", left |-> Lease, ver |-> 0]
           /\ \A a \in Attempts : a # <<r, n>> => cpAttempt'[a].left = cpAttempt[a].left
<1> DEFINE n == cpRun[r].current + 1
           old == CurrentAttempt(r)
           expired == IF n > 1 /\ cpAttempt[old].state \in OpenAttempt
                      THEN [cpAttempt EXCEPT ![old].state = "expired"]
                      ELSE cpAttempt
<1>1. /\ cpClaim[o] = NoAttempt /\ Claimable(r) /\ n <= MaxAttempt
      /\ cpRun' = [cpRun EXCEPT ![r] = [state |-> "claimed", current |-> n]]
      /\ cpAttempt' = [expired EXCEPT ![<<r, n>>] = [state |-> "claimed", left |-> Lease, ver |-> 0]]
      /\ cpClaim' = [cpClaim EXCEPT ![o] = <<r, n>>]
      /\ UNCHANGED receipts
  BY DEF GrantClaim
<1>2. n \in 1..MaxAttempt /\ <<r, n>> \in Attempts
  BY <1>1, AttemptFacts DEF CpShape, RunRecord
<1>3. expired \in [Attempts -> AttemptRecord]
      /\ \A a \in Attempts : expired[a].left = cpAttempt[a].left
  <2>1. CASE n > 1 /\ cpAttempt[old].state \in OpenAttempt
    <3>1. old \in Attempts
      BY <1>2, <2>1, AttemptFacts DEF CurrentAttempt, CpShape, RunRecord
    <3>2. [cpAttempt[old] EXCEPT !.state = "expired"] \in AttemptRecord
          /\ [cpAttempt[old] EXCEPT !.state = "expired"].left = cpAttempt[old].left
      BY <3>1 DEF CpShape, AttemptRecord
    <3>3. expired = [cpAttempt EXCEPT ![old] = [cpAttempt[old] EXCEPT !.state = "expired"]]
      BY <2>1, <3>1 DEF CpShape
    <3> QED BY <3>1, <3>2, <3>3 DEF CpShape
  <2>2. CASE ~(n > 1 /\ cpAttempt[old].state \in OpenAttempt)
    BY <2>2 DEF CpShape
  <2> QED BY <2>1, <2>2
<1>4. [state |-> "claimed", left |-> Lease, ver |-> 0] \in AttemptRecord
  BY AttemptFacts DEF AttemptRecord, OpenAttempt
<1> HIDE DEF expired
<1> QED BY <1>1, <1>2, <1>3, <1>4

LEMMA CpShapeStep == CpShape /\ NetShape /\ CpMoves => CpShape'
<1> SUFFICES ASSUME CpShape, NetShape, CpMoves PROVE CpShape'
  OBVIOUS
<1>0. CpCases
  BY CpSplit
<1>1. CASE UNCHANGED cpVars
  BY <1>1 DEF CpShape, cpVars
<1>2. CASE CoordinatorTick
  <2>1. \A k \in 0..Lease : Less(k) \in 0..Lease
    BY AttemptFacts DEF Less
  <2>2. cpAttempt' \in [Attempts -> AttemptRecord]
    BY <1>2, <2>1 DEF CoordinatorTick, CpShape, AttemptRecord
  <2>3. receipts' \subseteq ReceiptRecord
    BY <1>2, <2>1 DEF CoordinatorTick, CpShape, ReceiptRecord
  <2> QED BY <1>2, <2>2, <2>3 DEF CoordinatorTick, CpShape
<1>3. CASE ReconcileExpiredAttempts
  <2>1. \A a \in Attempts : [cpAttempt[a] EXCEPT !.state = "expired"] \in AttemptRecord
    BY DEF CpShape, AttemptRecord
  <2> QED BY <1>3, <2>1 DEF ReconcileExpiredAttempts, CpShape
<1>4. ASSUME NEW r \in Runs, Admit(r) PROVE CpShape'
  <2>1. [cpRun[r] EXCEPT !.state = "pending"] \in RunRecord
    BY DEF CpShape, RunRecord
  <2> QED BY <1>4, <2>1 DEF Admit, CpShape
<1>5. ASSUME NEW o \in ClaimOps, NEW r \in Runs, GrantClaim(o, r) PROVE CpShape'
  <2> DEFINE n == cpRun[r].current + 1
  <2>1. [state |-> "claimed", current |-> n] \in RunRecord
    <3>1. n \in 1..MaxAttempt
      BY <1>5, GrantEffect
    <3> QED BY <3>1, AttemptFacts DEF RunRecord
  <2> QED BY <1>5, <2>1, GrantEffect DEF CpShape
<1>6. ASSUME NEW q, Servable(q), Accepted(q) PROVE CpShape'
  <2> DEFINE a == q.attempt
  <2>1. a \in Attempts /\ a[1] \in Runs /\ q.action \in Actions
    BY <1>6, AttemptFacts DEF Servable, Requests
  <2>2. cpRun' \in [Runs -> RunRecord]
    <3>1. [state |-> StateAfter(q.action, cpRun[a[1]].state), current |-> cpRun[a[1]].current] \in RunRecord
      BY <2>1, StatesAfter DEF CpShape, RunRecord
    <3> QED BY <1>6, <3>1 DEF Accepted, CpShape
  <2>3. cpAttempt' \in [Attempts -> AttemptRecord]
    <3> DEFINE new == [state |-> StateAfter(q.action, cpAttempt[a].state),
              left |-> IF q.action = "heartbeat" THEN Lease ELSE cpAttempt[a].left,
              ver |-> IF q.action = "heartbeat" THEN cpAttempt[a].ver + 1 ELSE cpAttempt[a].ver]
    <3>1. cpAttempt[a] \in AttemptRecord
      BY <2>1 DEF CpShape
    <3>2. StateAfter(q.action, cpAttempt[a].state) \in OpenAttempt \cup Settled \cup {"none", "expired"}
      BY <2>1, <3>1, StatesAfter DEF AttemptRecord
    <3>3. q.action = "heartbeat" => cpAttempt[a].ver + 1 \in 0..MaxRenewals
      BY <1>6, <3>1, AttemptFacts DEF Accepted, Servable, Requests, AttemptRecord
    <3>4. new \in AttemptRecord
      BY <3>1, <3>2, <3>3, AttemptFacts DEF AttemptRecord
    <3>5. cpAttempt' = [cpAttempt EXCEPT ![a] = new]
      BY <1>6 DEF Accepted
    <3> HIDE DEF new
    <3> QED BY <3>4, <3>5 DEF CpShape
  <2>4. receipts' \subseteq ReceiptRecord
    <3>1. [request |-> q, left |-> IF q.action = "heartbeat" THEN Lease ELSE 0] \in ReceiptRecord
      BY <1>6, AttemptFacts DEF Servable, ReceiptRecord
    <3> QED BY <1>6, <3>1 DEF Accepted, CpShape
  <2> QED BY <1>6, <2>2, <2>3, <2>4 DEF Accepted, CpShape
<1> QED BY <1>0, <1>1, <1>2, <1>3, <1>4, <1>5, <1>6 DEF CpCases, ServeCases

\* A receipt stays.
LEMMA ReceiptsStay ==
    ASSUME CpShape, NetShape, CpMoves, NEW q, HasReceipt(q)
    PROVE  HasReceipt(q)'
<1>1. CpCases
  BY CpSplit
<1>2. PICK rc \in receipts : rc.request = q
  BY DEF HasReceipt
<1>3. CASE receipts \subseteq receipts'
  BY <1>2, <1>3 DEF HasReceipt
<1>4. CASE CoordinatorTick
  <2>1. [rc EXCEPT !.left = Less(@)] \in receipts' /\ [rc EXCEPT !.left = Less(@)].request = q
    BY <1>2, <1>4 DEF CoordinatorTick, CpShape, ReceiptRecord
  <2> QED BY <2>1 DEF HasReceipt
<1> QED BY <1>1, <1>3, <1>4
        DEF CpCases, ServeCases, cpVars, ReconcileExpiredAttempts, Admit, GrantClaim, Accepted

\* A stored claim is never replaced.
LEMMA ClaimsStay ==
    ASSUME CpShape, NetShape, CpMoves
    PROVE  \A o \in ClaimOps : cpClaim[o] # NoAttempt => cpClaim'[o] = cpClaim[o]
<1>1. CpCases
  BY CpSplit
<1>2. CASE UNCHANGED cpClaim
  BY <1>2
<1>3. CASE \E o \in ClaimOps, r \in Runs : GrantClaim(o, r)
  BY <1>3 DEF GrantClaim, CpShape
<1> QED BY <1>1, <1>2, <1>3
        DEF CpCases, ServeCases, cpVars, CoordinatorTick, ReconcileExpiredAttempts, Admit, Accepted

----------------------------------------------------------------------------
(* What a step changes.                                                    *)

Acks == \E c \in calls : \E i \in DOMAIN journal[c.request.attempt] : Acknowledge(c, i)
ClaimChanges ==
    \/ \E o \in ClaimOps : BeginClaim(o)
    \/ TakeClaim \/ TakeNoClaim \/ Import \/ AcquireStart \/ Acks \/ Tick
LocalChanges == Import \/ RejectStart \/ MarkRunning \/ Complete \/ Acks \/ Tick
EntryChanges ==
    \/ \E a \in Attempts : \E i \in DOMAIN journal[a] : Send(a, i)
    \/ \E c \in calls : \E i \in DOMAIN journal[c.request.attempt] :
         Acknowledge(c, i) \/ NeedAttention(c, i) \/ Retry(c, i)
JournalChanges ==
    \/ FailImport \/ RejectStart \/ MarkRunning \/ BeginHeartbeat \/ Progress \/ Complete
    \/ EntryChanges \/ Tick
LoopChanges ==
    \/ \E o \in ClaimOps : Recover(o) \/ ReplayClaim(o) \/ BeginClaim(o)
    \/ ServeClaim \/ TakeClaim \/ TakeNoClaim \/ LoseClaim \/ Import \/ FailImport
    \/ RejectStart \/ AcquireStart \/ LeaveRun \/ Complete \/ Crash

\* A step of the pump on an entry leaves the control plane and the loop alone,
\* and the runner's tables unless an acknowledgement is taken in.
LEMMA EntryFrame ==
    ASSUME EntryChanges
    PROVE  UNCHANGED cpVars /\ UNCHANGED loop /\ (Acks \/ UNCHANGED <<claimOp, localRun, localAttempt>>)
<1>1. ASSUME NEW a \in Attempts, NEW i \in DOMAIN journal[a], Send(a, i)
      PROVE  UNCHANGED cpVars /\ UNCHANGED loop /\ UNCHANGED <<claimOp, localRun, localAttempt>>
  BY <1>1 DEF Send
<1>2. ASSUME NEW c \in calls, NEW i \in DOMAIN journal[c.request.attempt], Acknowledge(c, i)
      PROVE  UNCHANGED cpVars /\ UNCHANGED loop /\ Acks
  <2>1. UNCHANGED cpVars /\ UNCHANGED loop
    BY <1>2 DEF Acknowledge
  <2> QED BY <1>2, <2>1 DEF Acks
<1>3. ASSUME NEW c \in calls, NEW i \in DOMAIN journal[c.request.attempt], NeedAttention(c, i) \/ Retry(c, i)
      PROVE  UNCHANGED cpVars /\ UNCHANGED loop /\ UNCHANGED <<claimOp, localRun, localAttempt>>
  BY <1>3 DEF NeedAttention, Retry
<1> QED BY <1>1, <1>2, <1>3 DEF EntryChanges

Parts == /\ CpMoves
         /\ UNCHANGED cpVars \/ (CpServes /\ UNCHANGED durable) \/ Tick
         /\ UNCHANGED claimOp \/ ClaimChanges
         /\ UNCHANGED <<localRun, localAttempt>> \/ LocalChanges
         /\ UNCHANGED journal \/ JournalChanges
         /\ UNCHANGED loop \/ LoopChanges

LEMMA StepParts ==
    ASSUME LoopControl, NetShape, [Next]_vars
    PROVE  Parts
<1> USE DEF durable, localData, loop, net, runnerVars
<1>1. CASE UNCHANGED vars
  BY <1>1 DEF vars, Parts, CpMoves, CpServes
<1>2. ASSUME NEW o \in ClaimOps, Recover(o) \/ ReplayClaim(o) PROVE Parts
  BY <1>2 DEF Recover, ReplayClaim, Parts, CpMoves, CpServes, LoopChanges
<1>3. ASSUME NEW o \in ClaimOps, BeginClaim(o) PROVE Parts
  BY <1>3 DEF BeginClaim, Ask, Parts, CpMoves, CpServes, ClaimChanges, LoopChanges
<1>4. CASE TakeClaim \/ TakeNoClaim \/ LoseClaim
  BY <1>4 DEF TakeClaim, TakeNoClaim, LoseClaim, Parts, CpMoves, CpServes, ClaimChanges, LoopChanges
<1>5. CASE Import \/ AcquireStart
  BY <1>5 DEF Import, AcquireStart, Parts, CpMoves, CpServes, ClaimChanges, LocalChanges, LoopChanges
<1>6. CASE FailImport \/ RejectStart \/ LeaveRun
  BY <1>6 DEF FailImport, RejectStart, LeaveRun, Parts, CpMoves, CpServes, LocalChanges, JournalChanges,
              LoopChanges
<1>7. CASE MarkRunning \/ BeginHeartbeat \/ Progress \/ Complete
  BY <1>7 DEF MarkRunning, BeginHeartbeat, Progress, Complete, Parts, CpMoves, CpServes, LocalChanges,
              JournalChanges, LoopChanges
<1>8. CASE Pump
  <2>1. ASSUME NEW c \in calls, Outlived(c) PROVE Parts
    BY <2>1 DEF Outlived, Parts, CpMoves, CpServes
  <2>2. CASE EntryChanges
    <3>1. UNCHANGED cpVars /\ UNCHANGED loop
          /\ (Acks \/ UNCHANGED <<claimOp, localRun, localAttempt>>)
      BY <2>2, EntryFrame
    <3> QED BY <2>2, <3>1 DEF Parts, CpMoves, CpServes, ClaimChanges, LocalChanges, JournalChanges
  <2> QED BY <1>8, <2>1, <2>2 DEF Pump, EntryChanges
<1>9. CASE ControlPlane
  <2>1. ASSUME NEW r \in Runs, Coordinate(Admit(r)) \/ Coordinate(Cancel(r)) PROVE Parts
    BY <2>1 DEF Coordinate, Parts, CpMoves, CpServes
  <2>2. CASE Coordinate(ReconcileExpiredAttempts)
    BY <2>2 DEF Coordinate, Parts, CpMoves, CpServes
  <2>3. CASE ServeClaim
    <3>1. op \in ClaimOps
      BY <2>3 DEF ServeClaim, LoopControl
    <3>2. CpServes
      BY <2>3, <3>1 DEF ServeClaim, CpServes
    <3> QED BY <2>3, <3>2 DEF ServeClaim, Parts, LoopChanges, CpMoves
  <2>4. ASSUME NEW c \in calls, ServeCall(c) PROVE Parts
    BY <2>4 DEF ServeCall, Parts, CpMoves, CpServes, UnderWay
  <2>5. ASSUME NEW o \in ClaimOps, ServeLateClaim(o) PROVE Parts
    BY <2>5 DEF ServeLateClaim, Parts, CpMoves, CpServes
  <2>6. ASSUME NEW q \in late, ServeLateCall(q) PROVE Parts
    BY <2>6 DEF ServeLateCall, Parts, CpMoves, CpServes, UnderWay
  <2> QED BY <1>9, <2>1, <2>2, <2>3, <2>4, <2>5, <2>6 DEF ControlPlane, NetShape
<1>10. CASE Crash
  BY <1>10 DEF Crash, Parts, CpMoves, CpServes, LoopChanges
<1>11. CASE Tick
  BY <1>11 DEF Tick, Parts, CpMoves, CpServes, ClaimChanges, LocalChanges, JournalChanges
<1> QED BY <1>1, <1>2, <1>3, <1>4, <1>5, <1>6, <1>7, <1>8, <1>9, <1>10, <1>11 DEF Next, Loop

LEMMA InvParts ==
    ASSUME HostedInv, [Next]_vars
    PROVE  /\ Parts /\ CpShape /\ CpShape' /\ ClaimShape /\ LocalShape /\ JournalShape
           /\ LoopShape /\ NetShape /\ LoopControl
           /\ \A o \in ClaimOps : /\ claimOp[o] \in ClaimRecord /\ ClaimSound(o, claimOp[o])
                                  /\ claimOp[o] = [claimOp[o] EXCEPT !.left = @]
           /\ \A r \in Runs : localRun[r] \in LocalRunRecord
           /\ \A a \in Attempts : localAttempt[a] \in LocalAttemptRecord
<1>1. /\ CpShape /\ ClaimShape /\ LocalShape /\ JournalShape
      /\ LoopShape /\ NetShape /\ LoopControl
  BY DEF HostedInv, Shape
<1>2. Parts
  BY <1>1, StepParts
<1>3. CpShape'
  BY <1>1, <1>2, CpShapeStep DEF Parts
<1>4. \A o \in ClaimOps : claimOp[o] \in ClaimRecord
  BY <1>1 DEF ClaimShape
<1> QED BY <1>1, <1>2, <1>3, <1>4 DEF HostedInv, ClaimShape, LocalShape, ClaimRecord

\* Only the attempt a claim was granted for is acted upon.
LEMMA ReceiptLeft ==
    ASSUME CpShape, NEW q, HasReceipt(q)
    PROVE  ReceiptOf(q) \in receipts /\ ReceiptOf(q).request = q /\ ReceiptOf(q).left \in 0..Lease
<1>1. ReceiptOf(q) \in receipts /\ ReceiptOf(q).request = q
  BY DEF HasReceipt, ReceiptOf
<1> QED BY <1>1 DEF CpShape, ReceiptRecord

\* What a step does to the claims: at most that of the operation at hand is
\* changed, but for the leases that run down and the shells a rejection lets go.
LEMMA ClaimStep ==
    ASSUME HostedInv, [Next]_vars
    PROVE  ClaimShape' /\ \A o \in ClaimOps : ClaimSound(o, claimOp[o])'
<1>1. /\ Parts /\ CpShape /\ ClaimShape /\ NetShape /\ LoopControl /\ LoopShape
      /\ \A o \in ClaimOps : claimOp[o] \in ClaimRecord /\ ClaimSound(o, claimOp[o])
  BY InvParts
<1>2. \A o \in ClaimOps : cpClaim[o] # NoAttempt => cpClaim'[o] = cpClaim[o]
  BY <1>1, ClaimsStay DEF Parts
<1>3. \A o \in ClaimOps, k \in ClaimRecord : ClaimSound(o, k) => ClaimSound(o, k)'
  BY <1>2, AttemptFacts DEF ClaimSound
<1>4. ASSUME NEW o \in ClaimOps, NEW k \in ClaimRecord, claimOp'[o] = k, ClaimSound(o, k)
      PROVE  ClaimSound(o, claimOp[o])'
  <2>1. ClaimSound(o, k)'
    BY <1>3, <1>4
  <2> QED BY <1>4, <2>1 DEF ClaimSound
<1>5. CASE UNCHANGED claimOp
  BY <1>1, <1>4, <1>5 DEF ClaimShape
<1>6. ASSUME NEW k \in ClaimOps, NEW new \in ClaimRecord, claimOp' = [claimOp EXCEPT ![k] = new],
             ClaimSound(k, new)
      PROVE  ClaimStep!3
  BY <1>1, <1>4, <1>6 DEF ClaimShape
<1>7. ASSUME NEW o \in ClaimOps, BeginClaim(o) PROVE ClaimStep!3
  <2> DEFINE new == [claimOp[o] EXCEPT !.state = "pending", !.active = TRUE]
  <2>1. claimOp' = [claimOp EXCEPT ![o] = new]
    BY <1>1, <1>7 DEF BeginClaim, ClaimShape
  <2>2. claimOp[o].state = "none"
    BY <1>7 DEF BeginClaim
  <2>3. new \in ClaimRecord /\ ClaimSound(o, new)
    BY <1>1, <2>2 DEF ClaimRecord, ClaimSound
  <2> HIDE DEF new
  <2> QED BY <1>6, <2>1, <2>3
<1>8. CASE TakeClaim
  <2>1. op \in ClaimOps /\ cpClaim[op] # NoAttempt
    BY <1>1, <1>8 DEF TakeClaim, LoopControl
  <2>2. CASE claimOp[op].state = "claimed"
    BY <1>5, <1>8, <2>2 DEF TakeClaim
  <2>3. CASE claimOp[op].state # "claimed"
    <3> DEFINE new == [claimOp[op] EXCEPT !.state = "claimed", !.attempt = cpClaim[op],
                                          !.left = ShellLease(op)]
    <3>1. claimOp' = [claimOp EXCEPT ![op] = new]
      BY <1>1, <1>8, <2>1, <2>3 DEF TakeClaim, ClaimShape
    <3>2. cpClaim[op] \in Attempts /\ ShellLease(op) \in 0..Lease
      BY <1>1, <2>1 DEF CpShape, ShellLease, AttemptRecord
    <3>3. new \in ClaimRecord /\ ClaimSound(op, new)
      BY <1>1, <2>1, <2>3, <3>2 DEF ClaimRecord, ClaimSound
    <3> HIDE DEF new
    <3> QED BY <1>6, <2>1, <3>1, <3>3
  <2> QED BY <2>2, <2>3
<1>9. CASE TakeNoClaim
  <2>1. op \in ClaimOps
    BY <1>1, <1>9 DEF TakeNoClaim, LoopControl
  <2>2. CASE claimOp[op].state # "pending"
    BY <1>5, <1>9, <2>2 DEF TakeNoClaim
  <2>3. CASE claimOp[op].state = "pending"
    <3> DEFINE new == [claimOp[op] EXCEPT !.state = "empty", !.active = FALSE]
    <3>1. claimOp' = [claimOp EXCEPT ![op] = new]
      BY <1>1, <1>9, <2>1, <2>3 DEF TakeNoClaim, ClaimShape
    <3>2. new \in ClaimRecord /\ ClaimSound(op, new)
      BY <1>1, <2>1, <2>3 DEF ClaimRecord, ClaimSound
    <3> HIDE DEF new
    <3> QED BY <1>6, <2>1, <3>1, <3>2
  <2> QED BY <2>2, <2>3
<1>10. CASE Import
  <2> DEFINE new == [claimOp[op] EXCEPT !.active = FALSE, !.imported = TRUE, !.left = 0]
  <2>1. op \in ClaimOps /\ claimOp[op].state = "claimed"
    BY <1>1, <1>10 DEF Import, LoopControl
  <2>2. claimOp' = [claimOp EXCEPT ![op] = new]
    BY <1>1, <1>10, <2>1 DEF Import, ClaimShape
  <2>3. claimOp[op] \in ClaimRecord /\ ClaimSound(op, claimOp[op]) /\ 0 \in 0..Lease
    BY <1>1, <2>1, AttemptFacts
  <2>4. new \in ClaimRecord
    BY <2>3 DEF ClaimRecord
  <2>5. /\ new.state = "claimed" /\ new.attempt = claimOp[op].attempt /\ new.imported = TRUE
        /\ new.active = FALSE /\ new.started = claimOp[op].started
    BY <2>1, <2>3 DEF ClaimRecord
  <2> HIDE DEF new
  <2>6. ClaimSound(op, new)
    BY <2>1, <2>3, <2>5 DEF ClaimSound
  <2> QED BY <1>6, <2>1, <2>2, <2>4, <2>6
<1>11. CASE AcquireStart
  <2> DEFINE new == [claimOp[op] EXCEPT !.started = TRUE]
  <2>1. op \in ClaimOps /\ claimOp[op].imported
    BY <1>1, <1>11 DEF AcquireStart, LoopControl
  <2>2. claimOp' = [claimOp EXCEPT ![op] = new]
    BY <1>1, <1>11, <2>1 DEF AcquireStart, ClaimShape
  <2>3. new \in ClaimRecord /\ ClaimSound(op, new)
    BY <1>1, <2>1 DEF ClaimRecord, ClaimSound
  <2> HIDE DEF new
  <2> QED BY <1>6, <2>1, <2>2, <2>3
<1>12. ASSUME claimOp' = [o \in ClaimOps |-> claimOp'[o]],
              \A o \in ClaimOps : /\ claimOp'[o] \in ClaimRecord /\ ClaimSound(o, claimOp'[o])
       PROVE  ClaimStep!3
  <2>1. ASSUME NEW o \in ClaimOps PROVE ClaimSound(o, claimOp[o])'
    <3>1. PICK k \in ClaimRecord : k = claimOp'[o]
      BY <1>12
    <3>2. ClaimSound(o, k)
      BY <1>12, <3>1
    <3> QED BY <1>4, <3>1, <3>2
  <2> QED BY <1>12, <2>1 DEF ClaimShape
<1>13. CASE Acks
  <2>1. /\ claimOp' = [o \in ClaimOps |-> claimOp'[o]]
        /\ \A o \in ClaimOps : \/ claimOp'[o] = claimOp[o]
                               \/ claimOp'[o] = [claimOp[o] EXCEPT !.active = FALSE, !.left = 0]
    BY <1>13 DEF Acks, Acknowledge
  <2>2. ASSUME NEW o \in ClaimOps
        PROVE  LET new == [claimOp[o] EXCEPT !.active = FALSE, !.left = 0] IN
               new \in ClaimRecord /\ ClaimSound(o, new)
    <3> DEFINE new == [claimOp[o] EXCEPT !.active = FALSE, !.left = 0]
    <3>1. claimOp[o] \in ClaimRecord /\ ClaimSound(o, claimOp[o]) /\ 0 \in 0..Lease
      BY <1>1, AttemptFacts
    <3>2. /\ new \in ClaimRecord /\ new.state = claimOp[o].state /\ new.active = FALSE
          /\ new.attempt = claimOp[o].attempt /\ new.imported = claimOp[o].imported
          /\ new.started = claimOp[o].started /\ new.left = 0
      BY <3>1 DEF ClaimRecord
    <3> HIDE DEF new
    <3>3. ClaimSound(o, new)
      BY <3>1, <3>2 DEF ClaimSound
    <3> QED BY <3>2, <3>3 DEF new
  <2> QED BY <1>1, <1>12, <2>1, <2>2
<1>14. CASE Tick
  <2>1. claimOp' = [o \in ClaimOps |-> [claimOp[o] EXCEPT !.left = Less(claimOp[o].left)]]
    BY <1>14 DEF Tick
  <2>2. \A o \in ClaimOps : LET new == [claimOp[o] EXCEPT !.left = Less(claimOp[o].left)] IN
          new \in ClaimRecord /\ ClaimSound(o, new)
    BY <1>1, AttemptFacts DEF ClaimRecord, ClaimSound, Less
  <2> QED BY <1>12, <2>1, <2>2
<1> QED BY <1>1, <1>5, <1>7, <1>8, <1>9, <1>10, <1>11, <1>13, <1>14 DEF Parts, ClaimChanges

\* What a step does to the local runs: an import takes up an attempt, a
\* rejection or a completion lets it go; the other steps leave which attempt is
\* current alone.
LEMMA LocalStep ==
    ASSUME HostedInv, [Next]_vars
    PROVE  LocalShape' /\ RunControl'
<1>1. /\ Parts /\ CpShape /\ ClaimShape /\ LocalShape /\ NetShape /\ LoopControl
      /\ localRun \in [Runs -> LocalRunRecord]
      /\ localAttempt \in [Attempts -> LocalAttemptRecord]
      /\ \A r \in Runs : localRun[r] \in LocalRunRecord
      /\ \A a \in Attempts : localAttempt[a] \in LocalAttemptRecord
      /\ \A o \in ClaimOps : claimOp[o] \in ClaimRecord /\ ClaimSound(o, claimOp[o])
      /\ RunControl
  BY InvParts DEF LocalShape, HostedInv
<1>2. CASE UNCHANGED <<localRun, localAttempt>>
  BY <1>1, <1>2 DEF LocalShape, RunControl
<1>3. ASSUME NEW a \in Attempts, NEW run \in LocalRunRecord, NEW new \in LocalAttemptRecord,
             localRun' = [localRun EXCEPT ![a[1]] = run],
             localAttempt' = [localAttempt EXCEPT ![a] = new],
             run.status \in Live <=> run.current # 0
      PROVE  LocalStep!3
  BY <1>1, <1>3, AttemptFacts DEF LocalShape, RunControl
<1>4. CASE pc \in {"claimed", "starting", "executing"}
           /\ (Import \/ RejectStart \/ MarkRunning \/ Complete)
  <2> DEFINE a == claimOp[op].attempt
  <2>1. /\ op \in ClaimOps /\ a \in Attempts /\ a[1] \in Runs /\ a[2] \in 1..MaxAttempt
        /\ localRun[a[1]] \in LocalRunRecord /\ localAttempt[a] \in LocalAttemptRecord
        /\ claimOp[op].left \in 0..Lease
    BY <1>1, <1>4, AttemptFacts DEF LoopControl, ClaimSound, ClaimRecord
  <2>2. CASE Import
    <3> DEFINE run == [status |-> "assigned", current |-> a[2]]
               new == [status |-> "assigned", left |-> claimOp[op].left, ver |-> 0]
    <3>1. run \in LocalRunRecord /\ new \in LocalAttemptRecord
      BY <2>1, AttemptFacts DEF LocalRunRecord, LocalAttemptRecord, Live
    <3>2. run.status \in Live /\ run.current # 0
      BY <2>1 DEF Live
    <3>3. localRun' = [localRun EXCEPT ![a[1]] = run] /\ localAttempt' = [localAttempt EXCEPT ![a] = new]
      BY <2>2 DEF Import
    <3> HIDE DEF run, new
    <3> QED BY <1>3, <2>1, <3>1, <3>2, <3>3
  <2>3. ASSUME NEW s \in {"interrupted", "completed", "running"},
               localAttempt' = [localAttempt EXCEPT ![a].status = s],
               NEW run \in LocalRunRecord, localRun' = [localRun EXCEPT ![a[1]] = run],
               run.status \in Live <=> run.current # 0
        PROVE  LocalStep!3
    <3> DEFINE new == [localAttempt[a] EXCEPT !.status = s]
    <3>1. new \in LocalAttemptRecord /\ localAttempt' = [localAttempt EXCEPT ![a] = new]
      BY <1>1, <2>1, <2>3 DEF LocalAttemptRecord, Live
    <3> HIDE DEF new
    <3> QED BY <1>3, <2>1, <2>3, <3>1
  <2>4. CASE RejectStart
    <3>1. [status |-> "queued", current |-> 0] \in LocalRunRecord
      BY AttemptFacts DEF LocalRunRecord
    <3> QED BY <2>3, <2>4, <3>1 DEF RejectStart, Live
  <2>5. CASE Complete
    <3>1. [status |-> "done", current |-> 0] \in LocalRunRecord
      BY AttemptFacts DEF LocalRunRecord
    <3> QED BY <2>3, <2>5, <3>1 DEF Complete, Live
  <2>6. CASE MarkRunning
    <3> DEFINE run == [localRun[a[1]] EXCEPT !.status = "running"]
    <3>1. run \in LocalRunRecord /\ run.status = "running" /\ run.current = localRun[a[1]].current
      BY <2>1 DEF LocalRunRecord, Live
    <3>2. localRun[a[1]].current # 0
      BY <1>1, <2>1, <2>6 DEF MarkRunning, HoldsLease, RunControl
    <3>3. localRun' = [localRun EXCEPT ![a[1]] = run]
      BY <1>1, <2>1, <2>6 DEF MarkRunning
    <3> HIDE DEF run
    <3> QED BY <2>3, <2>6, <3>1, <3>2, <3>3 DEF MarkRunning, Live
  <2> QED BY <1>4, <2>2, <2>4, <2>5, <2>6
<1>5. ASSUME NEW c \in calls, NEW i \in DOMAIN journal[c.request.attempt], Acknowledge(c, i)
      PROVE  LocalStep!3
  <2> DEFINE q == c.request
             a == q.attempt
  <2>1. q \in Requests /\ a \in Attempts /\ UNCHANGED localRun
    BY <1>1, <1>5 DEF NetShape, CallRecord, Sendable, Requests, Acknowledge
  <2>2. CASE q.action # "heartbeat"
    BY <1>2, <1>5, <2>1, <2>2 DEF Acknowledge
  <2>3. CASE q.action = "heartbeat"
    <3> DEFINE new == [localAttempt[a] EXCEPT !.left = ReceiptOf(q).left,
                                              !.ver = localAttempt[a].ver + 1]
    <3>1. localAttempt' = [localAttempt EXCEPT ![a] = new]
      BY <1>1, <1>5, <2>1, <2>3 DEF Acknowledge
    <3>2. ReceiptOf(q).left \in 0..Lease
      BY <1>1, <1>5, ReceiptLeft DEF HostedInv, Answered, Acknowledge
    <3>3. localAttempt[a].ver + 1 \in 0..MaxRenewals
      <4>1. localAttempt[a].ver = q.ver /\ q.ver < MaxRenewals /\ q.ver \in Nat
        BY <1>1, <1>5, <2>3, AttemptFacts
           DEF Acknowledge, RenewalFits, NetShape, CallRecord, Sendable, Requests
      <4> QED BY <4>1, AttemptFacts
    <3>4. new \in LocalAttemptRecord
      BY <1>1, <2>1, <3>2, <3>3 DEF LocalAttemptRecord
    <3> HIDE DEF new
    <3> QED BY <1>1, <2>1, <3>1, <3>4 DEF LocalShape, RunControl
  <2> QED BY <2>2, <2>3
<1>6. CASE Tick
  <2>1. /\ localAttempt' = [a \in Attempts |->
                              [localAttempt[a] EXCEPT !.left = Less(localAttempt[a].left)]]
        /\ UNCHANGED localRun
    BY <1>6 DEF Tick
  <2>2. \A a \in Attempts : [localAttempt[a] EXCEPT !.left = Less(localAttempt[a].left)]
                              \in LocalAttemptRecord
    BY <1>1, AttemptFacts DEF LocalAttemptRecord, Less
  <2> QED BY <1>1, <2>1, <2>2 DEF LocalShape, RunControl
<1>7. CASE Import \/ RejectStart \/ MarkRunning \/ Complete
  BY <1>4, <1>7 DEF Import, RejectStart, MarkRunning, Complete
<1> QED BY <1>1, <1>2, <1>5, <1>6, <1>7 DEF Parts, LocalChanges, Acks

----------------------------------------------------------------------------
(* What a step does to a journal.                                          *)

\* The entries stay what they are and acknowledged ones stay so; one is
\* acknowledged behind its receipt.
KeepsEntries(a) ==
    /\ DOMAIN journal'[a] = DOMAIN journal[a]
    /\ \A i \in DOMAIN journal[a] :
         /\ journal'[a][i].action = journal[a][i].action
         /\ journal'[a][i].ver = journal[a][i].ver
         /\ journal[a][i].state = "acked" => journal'[a][i].state = "acked"
         /\ journal'[a][i].state = "acked" => \/ journal[a][i].state = "acked"
                                              \/ HasReceipt(RequestOf(a, journal[a][i]))

\* An entry for the claim at hand is added.
Writes(action, ver) ==
    /\ op \in ClaimOps /\ claimOp[op].attempt \in Attempts
    /\ pc # "idle"
    /\ Entry(action, ver) \in EntryRecord
    /\ Enqueue(claimOp[op].attempt, action, ver)

JournalMoves ==
    \/ \A a \in Attempts : KeepsEntries(a)
    \/ FailImport /\ Writes("reject", 0)
    \/ RejectStart /\ Writes("reject", 0)
    \/ MarkRunning /\ Writes("running", 0)
    \/ BeginHeartbeat /\ Writes("heartbeat", localAttempt[claimOp[op].attempt].ver)
    \/ Progress /\ Writes("progress", 0)
    \/ Complete /\ Writes("complete", 0)

LEMMA EntrySet ==
    ASSUME JournalShape, NEW a \in Attempts, NEW i \in DOMAIN journal[a],
           NEW s \in EntryStates, NEW t \in 0..MaxCalls, NEW l \in 0..EntryLease,
           journal' = [journal EXCEPT ![a][i].state = s, ![a][i].tok = t, ![a][i].left = l],
           s = "acked" => HasReceipt(RequestOf(a, journal[a][i])),
           journal[a][i].state # "acked"
    PROVE  JournalShape' /\ \A b \in Attempts : KeepsEntries(b)
<1> DEFINE new == [journal[a][i] EXCEPT !.state = s, !.tok = t, !.left = l]
<1>1. journal[a][i] \in EntryRecord /\ journal[a] \in Seq(EntryRecord) /\ i \in 1..Len(journal[a])
      /\ DOMAIN journal[a] = 1..Len(journal[a])
  BY JournalEntry
<1>2. new \in EntryRecord /\ new.state = s /\ new.action = journal[a][i].action
      /\ new.ver = journal[a][i].ver
  BY <1>1 DEF EntryRecord
<1>3. journal' = [journal EXCEPT ![a] = [journal[a] EXCEPT ![i] = new]]
  BY <1>1 DEF JournalShape
<1> HIDE DEF new
<1>4. /\ [journal[a] EXCEPT ![i] = new] \in Seq(EntryRecord)
      /\ DOMAIN [journal[a] EXCEPT ![i] = new] = DOMAIN journal[a]
      /\ \A j \in DOMAIN journal[a] :
           [journal[a] EXCEPT ![i] = new][j] = IF j = i THEN new ELSE journal[a][j]
  BY <1>1, <1>2, ExceptSeq
<1>5. JournalShape'
  <2>1. PICK list : list = [journal[a] EXCEPT ![i] = new]
    OBVIOUS
  <2>2. list \in Seq(EntryRecord) /\ journal' = [journal EXCEPT ![a] = list]
    BY <1>3, <1>4, <2>1
  <2> QED BY <2>2 DEF JournalShape
<1>6. ASSUME NEW b \in Attempts PROVE KeepsEntries(b)
  <2>1. CASE b = a
    <3>1. journal'[a] = [journal[a] EXCEPT ![i] = new]
      BY <1>3 DEF JournalShape
    <3>2. /\ DOMAIN journal'[a] = DOMAIN journal[a]
          /\ \A j \in DOMAIN journal[a] : journal'[a][j] = IF j = i THEN new ELSE journal[a][j]
      BY <1>4, <3>1
    <3> QED BY <1>2, <2>1, <3>2 DEF KeepsEntries
  <2>2. CASE b # a
    <3>1. journal'[b] = journal[b]
      BY <1>3, <2>2 DEF JournalShape
    <3> QED BY <3>1 DEF KeepsEntries
  <2> QED BY <2>1, <2>2
<1> QED BY <1>5, <1>6

LEMMA EnqueueShape ==
    ASSUME JournalShape, NEW action, NEW ver, Writes(action, ver)
    PROVE  JournalShape'
<1> DEFINE a == claimOp[op].attempt
<1>1. a \in Attempts /\ Entry(action, ver) \in EntryRecord
      /\ journal' = [journal EXCEPT ![a] = Append(journal[a], Entry(action, ver))]
  BY DEF Writes, Enqueue, JournalShape
<1>2. Append(journal[a], Entry(action, ver)) \in Seq(EntryRecord)
  BY <1>1, AppendProperties DEF JournalShape
<1> QED BY <1>1, <1>2 DEF JournalShape

LEMMA JournalStep ==
    ASSUME HostedInv, [Next]_vars
    PROVE  JournalShape' /\ JournalMoves
<1>1. /\ Parts /\ CpShape /\ ClaimShape /\ LocalShape /\ NetShape /\ LoopControl /\ JournalShape
      /\ \A o \in ClaimOps : claimOp[o] \in ClaimRecord /\ ClaimSound(o, claimOp[o])
      /\ \A a \in Attempts : localAttempt[a] \in LocalAttemptRecord
  BY InvParts
<1>2. CASE UNCHANGED journal
  BY <1>1, <1>2 DEF JournalShape, JournalMoves, KeepsEntries
<1>3. ASSUME NEW a \in Attempts, NEW i \in DOMAIN journal[a], Send(a, i) PROVE JournalStep!3
  <2>1. journal' = [journal EXCEPT ![a][i].state = "leased", ![a][i].tok = FreshToken,
                                   ![a][i].left = EntryLease]
        /\ journal[a][i].state # "acked" /\ FreshToken \in 0..MaxCalls
    BY <1>1, <1>3, FreshTokenIsFree, AttemptFacts DEF Send, Due
  <2>2. EntryLease \in 0..EntryLease /\ "leased" \in EntryStates /\ "leased" # "acked"
    BY AttemptFacts DEF EntryStates
  <2>3. JournalShape' /\ \A b \in Attempts : KeepsEntries(b)
    BY <1>1, <2>1, <2>2, EntrySet
  <2> QED BY <2>3 DEF JournalMoves
<1>4. ASSUME NEW c \in calls, NEW i \in DOMAIN journal[c.request.attempt],
             Acknowledge(c, i) \/ NeedAttention(c, i) \/ Retry(c, i)
      PROVE  JournalStep!3
  <2> DEFINE a == c.request.attempt
  <2>1. a \in Attempts
    BY <1>1 DEF NetShape, CallRecord, Sendable, Requests
  <2>2. Owns(c, i) /\ journal[a][i].state = "leased" /\ RequestOf(a, journal[a][i]) = c.request
    BY <1>4 DEF Acknowledge, NeedAttention, Retry, Owns
  <2>3. PICK s \in {"acked", "attention", "pending"} :
          /\ journal' = [journal EXCEPT ![a][i].state = s, ![a][i].tok = 0, ![a][i].left = 0]
          /\ s = "acked" => HasReceipt(c.request)
    BY <1>4 DEF Acknowledge, NeedAttention, Retry, SetEntry, HostedInv, Answered
  <2>4. 0 \in 0..EntryLease /\ 0 \in 0..MaxCalls /\ s \in EntryStates
        /\ journal[a][i].state # "acked"
    BY <2>2, AttemptFacts DEF EntryStates
  <2>5. s = "acked" => HasReceipt(RequestOf(a, journal[a][i]))
    BY <2>2, <2>3
  <2>6. JournalShape' /\ \A b \in Attempts : KeepsEntries(b)
    BY <1>1, <2>1, <2>3, <2>4, <2>5, EntrySet
  <2> QED BY <2>6 DEF JournalMoves
<1>5. CASE Tick
  <2>1. ASSUME NEW a \in Attempts
        PROVE  journal'[a] \in Seq(EntryRecord) /\ KeepsEntries(a)
    <3>1. journal'[a] = [i \in DOMAIN journal[a] |->
                           [journal[a][i] EXCEPT !.left = Less(journal[a][i].left)]]
      BY <1>5 DEF Tick
    <3>2. ASSUME NEW i \in DOMAIN journal[a]
          PROVE  LET new == [journal[a][i] EXCEPT !.left = Less(journal[a][i].left)] IN
                 /\ new \in EntryRecord /\ new.action = journal[a][i].action
                 /\ new.ver = journal[a][i].ver /\ new.state = journal[a][i].state
      <4>1. journal[a][i] \in EntryRecord
        BY <1>1, JournalEntry
      <4>2. Less(journal[a][i].left) \in 0..EntryLease
        BY <4>1, AttemptFacts DEF EntryRecord, Less
      <4> QED BY <4>1, <4>2 DEF EntryRecord
    <3>3. journal'[a] \in [1..Len(journal[a]) -> EntryRecord] /\ Len(journal[a]) \in Nat
      <4>1. DOMAIN journal[a] = 1..Len(journal[a]) /\ Len(journal[a]) \in Nat
        BY <1>1, JournalEntry
      <4>2. \A i \in DOMAIN journal[a] :
              [journal[a][i] EXCEPT !.left = Less(journal[a][i].left)] \in EntryRecord
        BY <3>2
      <4> QED BY <3>1, <4>1, <4>2
    <3>4. journal'[a] \in Seq(EntryRecord)
      BY <3>3, SeqDef
    <3> QED BY <3>1, <3>2, <3>4 DEF KeepsEntries
  <2>2. journal' \in [Attempts -> Seq(EntryRecord)]
    BY <1>5, <2>1 DEF Tick
  <2> QED BY <2>1, <2>2 DEF JournalShape, JournalMoves
<1>6. ASSUME pc \in {"claimed", "starting", "executing"}
      PROVE  op \in ClaimOps /\ claimOp[op].attempt \in Attempts
  BY <1>1, <1>6 DEF LoopControl, ClaimSound
<1>7. \A action \in {"reject", "running", "progress", "complete"} : Entry(action, 0) \in EntryRecord
  BY AttemptFacts DEF Entry, EntryRecord, Actions, EntryStates
<1>8. CASE FailImport
  <2>1. CASE claimOp[op].left > 0
    <3>1. Writes("reject", 0)
      BY <1>6, <1>7, <1>8, <2>1 DEF FailImport, Writes
    <3> QED BY <1>1, <1>8, <3>1, EnqueueShape DEF JournalMoves
  <2>2. CASE ~(claimOp[op].left > 0)
    BY <1>2, <1>8, <2>2 DEF FailImport
  <2> QED BY <2>1, <2>2
<1>9. CASE RejectStart
  <2>1. Writes("reject", 0)
    BY <1>6, <1>7, <1>9 DEF RejectStart, Writes
  <2> QED BY <1>1, <1>9, <2>1, EnqueueShape DEF JournalMoves
<1>10. CASE MarkRunning
  <2>1. Writes("running", 0)
    BY <1>6, <1>7, <1>10 DEF MarkRunning, Writes
  <2> QED BY <1>1, <1>10, <2>1, EnqueueShape DEF JournalMoves
<1>11. CASE BeginHeartbeat
  <2> DEFINE ver == localAttempt[claimOp[op].attempt].ver
  <2>1. ver \in 0..MaxRenewals /\ ver < MaxRenewals
    BY <1>1, <1>6, <1>11 DEF BeginHeartbeat, LocalAttemptRecord
  <2>2. Entry("heartbeat", ver) \in EntryRecord
    BY <2>1, AttemptFacts DEF Entry, EntryRecord, Actions, EntryStates
  <2>3. Writes("heartbeat", ver)
    BY <1>6, <1>11, <2>2 DEF BeginHeartbeat, Writes
  <2> QED BY <1>1, <1>11, <2>3, EnqueueShape DEF JournalMoves
<1>12. CASE Progress
  <2>1. Writes("progress", 0)
    BY <1>6, <1>7, <1>12 DEF Progress, Writes
  <2> QED BY <1>1, <1>12, <2>1, EnqueueShape DEF JournalMoves
<1>13. CASE Complete
  <2>1. Writes("complete", 0)
    BY <1>6, <1>7, <1>13 DEF Complete, Writes
  <2> QED BY <1>1, <1>13, <2>1, EnqueueShape DEF JournalMoves
<1> QED BY <1>1, <1>2, <1>3, <1>4, <1>5, <1>8, <1>9, <1>10, <1>11, <1>12, <1>13
        DEF Parts, JournalChanges, EntryChanges

----------------------------------------------------------------------------
(* The claims, the loop and the requests under way.                        *)

\* A persisted claim stays persisted, imported and started.
ClaimsGrow ==
    \A o \in ClaimOps :
        /\ claimOp[o].state = "claimed" => /\ claimOp'[o].state = "claimed"
                                           /\ claimOp'[o].attempt = claimOp[o].attempt
        /\ claimOp[o].imported => claimOp'[o].imported
        /\ claimOp[o].started => claimOp'[o].started

LEMMA ClaimsGrowStep ==
    ASSUME HostedInv, [Next]_vars
    PROVE  ClaimsGrow
<1>1. /\ Parts /\ ClaimShape /\ LoopControl
      /\ \A o \in ClaimOps : claimOp[o] \in ClaimRecord /\ ClaimSound(o, claimOp[o])
  BY InvParts
<1>2. CASE UNCHANGED claimOp
  BY <1>2 DEF ClaimsGrow
<1>3. ASSUME NEW o \in ClaimOps, BeginClaim(o) PROVE ClaimsGrow
  BY <1>1, <1>3 DEF BeginClaim, ClaimsGrow, ClaimShape, ClaimRecord
<1>4. CASE TakeClaim
  BY <1>1, <1>4 DEF TakeClaim, ClaimsGrow, ClaimShape, ClaimRecord
<1>5. CASE TakeNoClaim
  BY <1>1, <1>5 DEF TakeNoClaim, ClaimsGrow, ClaimShape, ClaimRecord
<1>6. CASE Import \/ AcquireStart
  BY <1>1, <1>6 DEF Import, AcquireStart, ClaimsGrow, ClaimShape, ClaimRecord
<1>7. CASE Acks \/ Tick
  <2>1. \A o \in ClaimOps : \/ claimOp'[o] = claimOp[o]
                            \/ claimOp'[o] = [claimOp[o] EXCEPT !.active = FALSE, !.left = 0]
                            \/ claimOp'[o] = [claimOp[o] EXCEPT !.left = Less(claimOp[o].left)]
    BY <1>7 DEF Acks, Acknowledge, Tick
  <2>2. \A o \in ClaimOps : /\ claimOp'[o].state = claimOp[o].state
                            /\ claimOp'[o].attempt = claimOp[o].attempt
                            /\ claimOp'[o].imported = claimOp[o].imported
                            /\ claimOp'[o].started = claimOp[o].started
    BY <1>1, <2>1 DEF ClaimRecord
  <2> QED BY <2>2 DEF ClaimsGrow
<1> QED BY <1>1, <1>2, <1>3, <1>4, <1>5, <1>6, <1>7 DEF Parts, ClaimChanges

LEMMA LoopStep ==
    ASSUME HostedInv, [Next]_vars
    PROVE  LoopShape' /\ LoopControl'
<1>1. /\ Parts /\ CpShape /\ CpShape' /\ ClaimShape /\ LoopShape /\ NetShape /\ LoopControl
      /\ \A o \in ClaimOps : claimOp[o] \in ClaimRecord /\ ClaimSound(o, claimOp[o])
  BY InvParts
<1>2. ClaimsGrow
  BY ClaimsGrowStep
<1>3. \A o \in ClaimOps : cpClaim[o] # NoAttempt => cpClaim'[o] = cpClaim[o]
  BY <1>1, ClaimsStay DEF Parts
<1>4. CASE UNCHANGED loop
  <2>1. pc' = pc /\ op' = op /\ claimAnswer' = claimAnswer
    BY <1>4 DEF loop
  <2>2. LoopShape'
    BY <1>1, <2>1 DEF LoopShape
  <2>3. LoopControl'
    BY <1>1, <1>2, <1>3, <2>1 DEF LoopControl, ClaimsGrow
  <2> QED BY <2>2, <2>3
<1>5. ASSUME pc' = "idle", op' = 0, claimAnswer' = "none" PROVE LoopStep!3
  BY <1>5 DEF LoopShape, LoopControl
<1>6. ASSUME NEW o \in ClaimOps, Recover(o) PROVE LoopStep!3
  <2>1. claimOp[o].imported /\ pc = "idle" /\ claimAnswer = "none"
    BY <1>1, <1>6 DEF Recover, BeginIteration, Recoverable, ImportedBy, LoopControl
  <2>2. pc' = "starting" /\ op' = o /\ claimAnswer' = "none"
    BY <1>6, <2>1 DEF Recover
  <2> QED BY <1>2, <2>1, <2>2 DEF LoopShape, LoopControl, ClaimsGrow
<1>7. ASSUME NEW o \in ClaimOps, ReplayClaim(o) \/ BeginClaim(o) PROVE LoopStep!3
  BY <1>7 DEF ReplayClaim, BeginClaim, Ask, LoopShape, LoopControl
<1>8. CASE ServeClaim
  <2>1. pc = "claiming" /\ op \in ClaimOps /\ pc' = pc /\ op' = op
    BY <1>1, <1>8 DEF ServeClaim, LoopControl
  <2>2. CASE claimAnswer' # "claim"
    BY <1>1, <1>8, <2>1, <2>2 DEF ServeClaim, LoopShape, LoopControl
  <2>3. CASE claimAnswer' = "claim"
    <3>1. cpClaim'[op] # NoAttempt
      <4>1. CASE cpClaim[op] # NoAttempt
        BY <1>3, <2>1, <4>1
      <4>2. ASSUME NEW r \in Runs, GrantClaim(op, r) PROVE cpClaim'[op] # NoAttempt
        <5>1. PICK n \in 1..MaxAttempt : cpClaim' = [cpClaim EXCEPT ![op] = <<r, n>>]
          BY <1>1, <2>1, <4>2, GrantEffect
        <5> QED BY <1>1, <2>1, <5>1, AttemptFacts DEF CpShape
      <4> QED BY <1>8, <2>3, <4>1, <4>2 DEF ServeClaim
    <3> QED BY <2>1, <2>3, <3>1 DEF LoopShape, LoopControl
  <2> QED BY <2>2, <2>3
<1>9. CASE TakeClaim
  <2>1. op \in ClaimOps /\ pc' = "claimed" /\ op' = op /\ claimAnswer' = "none"
        /\ claimOp'[op].state = "claimed"
    BY <1>1, <1>9 DEF TakeClaim, LoopControl, ClaimShape, ClaimRecord
  <2> QED BY <2>1 DEF LoopShape, LoopControl
<1>10. CASE TakeNoClaim \/ LoseClaim \/ Crash
  BY <1>5, <1>10 DEF TakeNoClaim, LoseClaim, Crash
<1>11. CASE FailImport \/ RejectStart \/ LeaveRun \/ Complete
  <2>1. claimAnswer = "none" /\ claimAnswer' = claimAnswer /\ pc' = "idle" /\ op' = 0
    BY <1>1, <1>11 DEF LoopControl, FailImport, RejectStart, LeaveRun, Complete
  <2> QED BY <1>5, <2>1
<1>12. CASE Import \/ AcquireStart
  <2>1. /\ pc' \in {"starting", "executing"} /\ op' = op /\ op \in ClaimOps
        /\ claimAnswer' = "none"
    BY <1>1, <1>12 DEF Import, AcquireStart, LoopControl
  <2>2. claimOp'[op].imported
    BY <1>1, <1>2, <1>12, <2>1 DEF Import, AcquireStart, LoopControl, ClaimShape, ClaimRecord,
                                   ClaimsGrow
  <2> QED BY <2>1, <2>2 DEF LoopShape, LoopControl
<1> QED BY <1>1, <1>4, <1>6, <1>7, <1>8, <1>9, <1>10, <1>11, <1>12 DEF Parts, LoopChanges

\* What a step does to the requests under way: a new call carries the request
\* of a due entry, the others come from those that were under way.
SentNow(q) == \E a \in Attempts : \E i \in DOMAIN journal[a] :
                 Send(a, i) /\ q = RequestOf(a, journal[a][i])
NetMoves ==
    /\ \A c \in calls' : \/ c \in calls
                         \/ SentNow(c.request) /\ c.answer = "unserved" /\ UNCHANGED cpVars
                         \/ /\ c.request \in UnderWay
                            /\ c.answer = "receipt" => HasReceipt(c.request)'
    /\ late' \subseteq UnderWay

LEMMA ServedHasReceipt ==
    ASSUME CpShape, NEW q \in Requests, ApplyLifecycle(q), LifecycleAnswer(q) = "receipt"
    PROVE  HasReceipt(q)'
<1>1. CASE HasReceipt(q)
  BY <1>1 DEF ApplyLifecycle, HasReceipt, cpVars
<1>2. CASE ~HasReceipt(q)
  <2>1. FencePasses(q)
    BY <1>2 DEF LifecycleAnswer
  <2>2. PICK rc : rc.request = q /\ rc \in receipts'
    BY <1>2, <2>1 DEF ApplyLifecycle
  <2> QED BY <2>2 DEF HasReceipt
<1> QED BY <1>1, <1>2

LEMMA NetStep ==
    ASSUME HostedInv, [Next]_vars
    PROVE  NetShape' /\ NetMoves
<1>1. /\ Parts /\ CpShape /\ ClaimShape /\ LoopShape /\ NetShape /\ LoopControl /\ JournalShape
      /\ calls \subseteq CallRecord /\ IsFiniteSet(calls)
      /\ late \subseteq Sendable /\ lateClaims \subseteq ClaimOps
      /\ UnderWay \subseteq Sendable
  BY InvParts DEF NetShape, UnderWay, CallRecord
<1>2. ASSUME calls' \subseteq calls, late' \subseteq UnderWay, lateClaims' \subseteq ClaimOps
      PROVE  NetStep!3
  <2>1. IsFiniteSet(calls')
    BY <1>1, <1>2, FS_Subset
  <2> QED BY <1>1, <1>2, <2>1 DEF NetShape, NetMoves
<1>3. CASE UNCHANGED net
  BY <1>1, <1>2, <1>3 DEF net, UnderWay
<1>4. ASSUME NEW requests \in SUBSET UnderWay, Abandon(requests) PROVE late' \subseteq UnderWay
  BY <1>4 DEF Abandon, UnderWay
<1>5. ASSUME AbandonClaim, op \in ClaimOps \/ claimAnswer # "unserved"
      PROVE  lateClaims' \subseteq ClaimOps
  BY <1>1, <1>5 DEF AbandonClaim
<1>6. CASE LoseClaim
  BY <1>1, <1>2, <1>5, <1>6 DEF LoseClaim, LoopControl, UnderWay
<1>7. CASE Crash
  <2> DEFINE open == {c.request : c \in {d \in calls : d.answer = "unserved"}}
  <2>1. open \in SUBSET UnderWay
    BY DEF UnderWay
  <2>2. calls' = {} /\ (\/ Abandon(open) /\ lateClaims' = lateClaims
                        \/ AbandonClaim /\ late' = late)
    BY <1>7 DEF Crash
  <2>3. op \in ClaimOps \/ claimAnswer # "unserved"
    BY <1>1 DEF LoopControl
  <2> HIDE DEF open
  <2>4. late' \subseteq UnderWay /\ lateClaims' \subseteq ClaimOps
    BY <1>1, <1>4, <1>5, <2>1, <2>2, <2>3 DEF UnderWay
  <2> QED BY <1>2, <2>2, <2>4
<1>8. ASSUME NEW a \in Attempts, NEW i \in DOMAIN journal[a], Send(a, i) PROVE NetStep!3
  <2> DEFINE new == [request |-> RequestOf(a, journal[a][i]), tok |-> FreshToken,
                     answer |-> "unserved"]
  <2>1. /\ calls' = calls \cup {new} /\ UNCHANGED <<cpVars, late, lateClaims>>
        /\ Cardinality(calls) < MaxCalls
    BY <1>8 DEF Send
  <2>2. RequestOf(a, journal[a][i]) \in Sendable
    <3>1. journal[a][i] \in EntryRecord
      BY <1>1, JournalEntry
    <3> QED BY <3>1 DEF EntryRecord, RequestOf, Request, Sendable, Requests
  <2>3. new \in CallRecord
    BY <1>1, <2>1, <2>2, FreshTokenIsFree DEF CallRecord
  <2>4. IsFiniteSet(calls')
    BY <1>1, <2>1, FS_AddElement
  <2>5. \A c \in calls' : c \in calls \/ (SentNow(c.request) /\ c.answer = "unserved"
                                           /\ UNCHANGED cpVars)
    BY <1>8, <2>1 DEF SentNow
  <2> HIDE DEF new
  <2> QED BY <1>1, <2>1, <2>3, <2>4, <2>5 DEF NetShape, NetMoves, UnderWay
<1>9. ASSUME NEW c \in calls, ServeCall(c) PROVE NetStep!3
  <2> DEFINE new == [c EXCEPT !.answer = LifecycleAnswer(c.request)]
  <2>1. /\ calls' = (calls \ {c}) \cup {new} /\ UNCHANGED <<late, lateClaims>>
        /\ ApplyLifecycle(c.request)
    BY <1>9 DEF ServeCall
  <2>2. /\ new \in CallRecord /\ new.request = c.request
        /\ new.answer = LifecycleAnswer(c.request) /\ c.request \in Requests
    BY <1>1 DEF CallRecord, LifecycleAnswer, Sendable
  <2>3. new.answer = "receipt" => HasReceipt(c.request)'
    BY <1>1, <2>1, <2>2, ServedHasReceipt
  <2>4. IsFiniteSet(calls')
    BY <1>1, <2>1, FS_AddElement, FS_RemoveElement
  <2> HIDE DEF new
  <2>5. ASSUME NEW d \in calls'
        PROVE  d \in calls \/ (/\ d.request \in UnderWay
                               /\ d.answer = "receipt" => HasReceipt(d.request)')
    BY <2>1, <2>2, <2>3, <2>5 DEF UnderWay, HasReceipt
  <2> QED BY <1>1, <2>1, <2>2, <2>4, <2>5 DEF NetShape, NetMoves, UnderWay
<1>10. ASSUME NEW c \in calls, NEW i \in DOMAIN journal[c.request.attempt],
              Acknowledge(c, i) \/ NeedAttention(c, i)
       PROVE  NetStep!3
  BY <1>1, <1>2, <1>10 DEF Acknowledge, NeedAttention, UnderWay
<1>11. ASSUME NEW c \in calls, Outlived(c) \/ \E i \in DOMAIN journal[c.request.attempt] : Retry(c, i)
       PROVE  NetStep!3
  <2> DEFINE open == IF c.answer = "unserved" THEN {c.request} ELSE {}
  <2>1. open \in SUBSET UnderWay /\ Abandon(open) /\ calls' = calls \ {c} /\ UNCHANGED lateClaims
    BY <1>11 DEF Outlived, Retry, UnderWay
  <2> HIDE DEF open
  <2> QED BY <1>1, <1>2, <1>4, <2>1
<1>12. ASSUME NEW o \in lateClaims, ServeLateClaim(o) PROVE NetStep!3
  BY <1>1, <1>2, <1>12 DEF ServeLateClaim, UnderWay
<1>13. ASSUME NEW q \in late, ServeLateCall(q) PROVE NetStep!3
  BY <1>1, <1>2, <1>13 DEF ServeLateCall, UnderWay
<1>14. CASE Tick
  BY <1>1, <1>2, <1>14 DEF Tick, UnderWay
<1>15. CASE Loop
  <2>1. UNCHANGED net \/ LoseClaim
    BY <1>15 DEF Loop, net, Recover, ReplayClaim, BeginClaim, Ask, TakeClaim, TakeNoClaim, Import,
                 FailImport, RejectStart, MarkRunning, AcquireStart, LeaveRun, BeginHeartbeat,
                 Progress, Complete
  <2> QED BY <1>3, <1>6, <2>1
<1>16. CASE Pump
  BY <1>8, <1>10, <1>11, <1>16 DEF Pump
<1>17. CASE ControlPlane
  <2>1. ASSUME NEW r \in Runs, Coordinate(Admit(r)) \/ Coordinate(Cancel(r)) PROVE UNCHANGED net
    BY <2>1 DEF Coordinate, runnerVars, net
  <2>2. CASE Coordinate(ReconcileExpiredAttempts) \/ ServeClaim
    BY <1>3, <2>2 DEF Coordinate, runnerVars, ServeClaim
  <2> QED BY <1>3, <1>9, <1>12, <1>13, <1>17, <2>1, <2>2 DEF ControlPlane
<1>18. CASE UNCHANGED vars
  BY <1>3, <1>18 DEF vars, runnerVars
<1> QED BY <1>7, <1>14, <1>15, <1>16, <1>17, <1>18 DEF Next

LEMMA AnsweredStep ==
    ASSUME HostedInv, [Next]_vars
    PROVE  Answered'
<1>1. Parts /\ CpShape /\ NetShape /\ NetMoves /\ Answered
  BY InvParts, NetStep DEF HostedInv
<1>2. ASSUME NEW c \in calls', c.answer = "receipt" PROVE HasReceipt(c.request)'
  <2>1. CASE c \in calls
    <3>1. HasReceipt(c.request)
      BY <1>1, <1>2, <2>1 DEF Answered
    <3> QED BY <1>1, <3>1, ReceiptsStay DEF Parts
  <2> QED BY <1>1, <1>2, <2>1 DEF NetMoves
<1> QED BY <1>2 DEF Answered, HasReceipt

LEMMA HostedInvInit == Init => HostedInv
<1> SUFFICES ASSUME Init PROVE HostedInv
  OBVIOUS
<1> USE DEF Init, CoordinatorInit, RunnerInit
<1>1. CpShape
  BY AttemptFacts DEF CpShape, RunRecord, AttemptRecord
<1>2. ClaimShape /\ \A o \in ClaimOps : ClaimSound(o, claimOp[o])
  BY AttemptFacts DEF ClaimShape, ClaimRecord, ClaimSound
<1>3. LocalShape /\ RunControl
  BY AttemptFacts DEF LocalShape, LocalRunRecord, LocalAttemptRecord, RunControl, Live
<1>4. JournalShape
  BY EmptySeq DEF JournalShape
<1>5. LoopShape /\ NetShape /\ LoopControl
  BY FS_EmptySet DEF LoopShape, NetShape, LoopControl
<1> QED BY <1>1, <1>2, <1>3, <1>4, <1>5 DEF HostedInv, Shape, Answered

LEMMA HostedInvStep == HostedInv /\ [Next]_vars => HostedInv'
  BY InvParts, ClaimStep, LocalStep, JournalStep, LoopStep, NetStep, AnsweredStep
     DEF HostedInv, Shape

\* The control plane's rows, the runner's tables and its loop have their types
\* in every reachable state, for every number of runs and claims: a journal
\* only holds what the runner may send, a claim operation is moved by the loop
\* that holds it, and a call takes a token no other call has.
THEOREM HostedTypes == Spec => []TypeOK
<1>1. Spec => []HostedInv
  BY HostedInvInit, HostedInvStep, PTL DEF Spec
<1>2. HostedInv => TypeOK
  BY ShapeTypes DEF HostedInv
<1> QED BY <1>1, <1>2, PTL

----------------------------------------------------------------------------
(* Leases.                                                                 *)

\* Claims are granted for different attempts, numbered up to the run's current
\* one; only that one's lease may be running.
Numbered ==
    /\ \A o, k \in ClaimOps : cpClaim[o] = cpClaim[k] /\ cpClaim[o] # NoAttempt => o = k
    /\ \A o \in ClaimOps : cpClaim[o] # NoAttempt =>
          cpClaim[o][2] <= cpRun[cpClaim[o][1]].current
    /\ \A r \in Runs : cpRun[r].state \in {"none", "pending"} => cpRun[r].current = 0
    /\ \A a \in Attempts : cpAttempt[a].left > 0 => a[2] = cpRun[a[1]].current

\* A receipt grants no more than the control plane does.
ReceiptsWithinCloud ==
    \A rc \in receipts : rc.left <= cpAttempt[rc.request.attempt].left

LeaseInv == HostedInv /\ Numbered /\ ReceiptsWithinCloud /\ LocalLeaseWithinCloud

LEMMA NumberedStep ==
    ASSUME CpShape, NetShape, CpMoves, Numbered
    PROVE  Numbered'
<1>1. CpCases
  BY CpSplit
<1>2. /\ \A r \in Runs : cpRun[r] \in RunRecord
      /\ \A a \in Attempts : cpAttempt[a] \in AttemptRecord
      /\ \A o \in ClaimOps : cpClaim[o] # NoAttempt => cpClaim[o] \in Attempts
  BY DEF CpShape
<1>3. ASSUME UNCHANGED cpClaim,
             \A r \in Runs : /\ cpRun'[r].current = cpRun[r].current
                             /\ cpRun'[r].state \in {"none", "pending"} =>
                                  cpRun[r].state \in {"none", "pending"},
             \A a \in Attempts : cpAttempt'[a].left > 0 => cpAttempt[a].left > 0
      PROVE  Numbered'
  BY <1>2, <1>3, AttemptFacts DEF Numbered
<1>4. CASE UNCHANGED cpVars
  BY <1>3, <1>4 DEF cpVars
<1>5. CASE CoordinatorTick
  <2>1. \A a \in Attempts : cpAttempt'[a].left > 0 => cpAttempt[a].left > 0
    BY <1>2, <1>5 DEF CoordinatorTick, Less, AttemptRecord
  <2> QED BY <1>3, <1>5, <2>1 DEF CoordinatorTick
<1>6. CASE ReconcileExpiredAttempts
  <2>1. \A a \in Attempts : cpAttempt'[a].left = cpAttempt[a].left
    BY <1>2, <1>6 DEF ReconcileExpiredAttempts, AttemptRecord
  <2> QED BY <1>3, <1>6, <2>1 DEF ReconcileExpiredAttempts
<1>7. ASSUME NEW r \in Runs, Admit(r) PROVE Numbered'
  <2>1. \A s \in Runs : cpRun'[s].current = cpRun[s].current
                        /\ (cpRun'[s].state = cpRun[s].state \/ cpRun[s].state = "none")
    BY <1>2, <1>7 DEF Admit, CpShape, RunRecord
  <2> QED BY <1>3, <1>7, <2>1 DEF Admit
<1>8. ASSUME NEW q, Servable(q), Accepted(q) PROVE Numbered'
  <2> DEFINE a == q.attempt
  <2>1. /\ a \in Attempts /\ a[1] \in Runs /\ a[2] # 0 /\ a[2] = cpRun[a[1]].current
        /\ cpAttempt[a].left > 0 /\ UNCHANGED cpClaim /\ q.action \in Actions
    BY <1>8, AttemptFacts DEF Accepted, Servable, Requests
  <2>2. \A r \in Runs : cpRun'[r].current = cpRun[r].current
    BY <1>8, <2>1 DEF Accepted, CpShape
  <2>3. \A r \in Runs : r # a[1] => cpRun'[r] = cpRun[r]
    BY <1>8, <2>1 DEF Accepted, CpShape
  <2>4. cpRun'[a[1]].state \notin {"none", "pending"}
    <3>1. cpRun'[a[1]].state = StateAfter(q.action, cpRun[a[1]].state)
      BY <1>8, <2>1 DEF Accepted, CpShape
    <3>2. cpRun[a[1]].state \notin {"none", "pending"}
      BY <2>1 DEF Numbered
    <3> QED BY <3>1, <3>2 DEF StateAfter
  <2>5. \A b \in Attempts : b # a => cpAttempt'[b] = cpAttempt[b]
    BY <1>8, <2>1 DEF Accepted, CpShape
  <2> QED BY <1>3, <2>1, <2>2, <2>3, <2>4, <2>5
<1>9. ASSUME NEW o \in ClaimOps, NEW r \in Runs, GrantClaim(o, r) PROVE Numbered'
  <2> DEFINE n == cpRun[r].current + 1
  <2>1. /\ n \in 1..MaxAttempt /\ <<r, n>> \in Attempts /\ Claimable(r) /\ cpClaim[o] = NoAttempt
        /\ cpRun' = [cpRun EXCEPT ![r] = [state |-> "claimed", current |-> n]]
        /\ cpClaim' = [cpClaim EXCEPT ![o] = <<r, n>>]
        /\ \A a \in Attempts : a # <<r, n>> => cpAttempt'[a].left = cpAttempt[a].left
    BY <1>9, GrantEffect
  <2>2. /\ \A s \in Runs : cpRun'[s] = IF s = r THEN [state |-> "claimed", current |-> n] ELSE cpRun[s]
        /\ \A k \in ClaimOps : cpClaim'[k] = IF k = o THEN <<r, n>> ELSE cpClaim[k]
    BY <2>1 DEF CpShape
  <2>3. \A a \in Attempts : a[1] = r => cpAttempt[a].left = 0
    <3>1. cpRun[r].state = "pending" => cpRun[r].current = 0
      BY DEF Numbered
    <3>2. \/ cpRun[r].current > 0 /\ cpAttempt[CurrentAttempt(r)].left = 0
          \/ cpRun[r].current = 0
      BY <2>1, <3>1 DEF Claimable
    <3>3. ASSUME NEW a \in Attempts, a[1] = r, cpAttempt[a].left > 0 PROVE FALSE
      <4>1. a[2] = cpRun[r].current /\ a[2] # 0 /\ a = CurrentAttempt(r)
        BY <3>3, AttemptFacts DEF Numbered, CurrentAttempt
      <4> QED BY <3>2, <3>3, <4>1
    <3> QED BY <1>2, <3>3 DEF AttemptRecord
  <2>4. \A k \in ClaimOps : cpClaim[k] # <<r, n>>
    <3>1. \A k \in ClaimOps : cpClaim[k] = <<r, n>> =>
             cpClaim[k] # NoAttempt /\ cpClaim[k][1] = r /\ cpClaim[k][2] = n
      BY <2>1, AttemptFacts
    <3> QED BY <1>2, <2>1, <3>1 DEF Numbered, RunRecord
  <2>5. \A k, l \in ClaimOps : cpClaim'[k] = cpClaim'[l] /\ cpClaim'[k] # NoAttempt => k = l
    BY <2>2, <2>4 DEF Numbered
  <2>6. ASSUME NEW k \in ClaimOps, cpClaim'[k] # NoAttempt
        PROVE  cpClaim'[k][2] <= cpRun'[cpClaim'[k][1]].current
    <3>1. CASE k = o
      <4>1. cpClaim'[k] = <<r, n>> /\ cpRun'[r].current = n
        BY <2>2, <3>1
      <4> QED BY <2>1, <4>1
    <3>2. CASE k # o
      <4>1. cpClaim'[k] = cpClaim[k] /\ cpClaim[k] \in Attempts /\ cpClaim[k][1] \in Runs
            /\ cpClaim[k][2] \in Nat
        BY <1>2, <2>2, <2>6, <3>2, AttemptFacts
      <4>2. cpClaim[k][2] <= cpRun[cpClaim[k][1]].current
        BY <4>1, AttemptFacts DEF Numbered
      <4>3. cpRun[cpClaim[k][1]].current <= cpRun'[cpClaim[k][1]].current
            /\ cpRun[cpClaim[k][1]].current \in Nat /\ cpRun'[cpClaim[k][1]].current \in Nat
        BY <1>2, <2>1, <2>2, <4>1 DEF RunRecord
      <4> QED BY <4>1, <4>2, <4>3
    <3> QED BY <3>1, <3>2
  <2>7. ASSUME NEW a \in Attempts, cpAttempt'[a].left > 0 PROVE a[2] = cpRun'[a[1]].current
    <3>1. CASE a = <<r, n>>
      <4>1. a[1] = r /\ a[2] = n
        BY <3>1
      <4> QED BY <2>2, <4>1
    <3>2. CASE a # <<r, n>>
      <4>1. a[1] # r /\ cpAttempt[a].left > 0
        BY <2>1, <2>3, <2>7, <3>2
      <4> QED BY <2>2, <4>1, AttemptFacts DEF Numbered
    <3> QED BY <3>1, <3>2
  <2>8. \A s \in Runs : cpRun'[s].state \in {"none", "pending"} => cpRun'[s].current = 0
    BY <2>2 DEF Numbered
  <2> QED BY <2>5, <2>6, <2>7, <2>8 DEF Numbered
<1> QED BY <1>1, <1>4, <1>5, <1>6, <1>7, <1>8, <1>9 DEF CpCases, ServeCases

\* But for the passage of time, no lease of the control plane gets shorter, and
\* a new receipt grants no more than its attempt then has.
LEMMA CloudLeases ==
    ASSUME CpShape, NetShape, CpServes
    PROVE  /\ \A a \in Attempts : cpAttempt'[a].left >= cpAttempt[a].left
           /\ \A rc \in receipts' : \/ rc \in receipts
                                    \/ rc.left <= cpAttempt'[rc.request.attempt].left
<1>1. ServeCases
  BY ServeSplit
<1>2. /\ \A a \in Attempts : cpAttempt[a] \in AttemptRecord
      /\ \A a \in Attempts : cpAttempt[a].left \in 0..Lease
  BY DEF CpShape, AttemptRecord
<1>3. CASE ReconcileExpiredAttempts
  BY <1>2, <1>3, AttemptFacts DEF ReconcileExpiredAttempts, AttemptRecord
<1>4. ASSUME NEW o \in ClaimOps, NEW r \in Runs, GrantClaim(o, r)
      PROVE  UNCHANGED receipts /\ \A a \in Attempts : cpAttempt'[a].left >= cpAttempt[a].left
  <2>1. PICK n \in 1..MaxAttempt :
          /\ <<r, n>> \in Attempts /\ UNCHANGED receipts
          /\ cpAttempt'[<<r, n>>] = [state |-> "claimed", left |-> Lease, ver |-> 0]
          /\ \A a \in Attempts : a # <<r, n>> => cpAttempt'[a].left = cpAttempt[a].left
    BY <1>4, GrantEffect
  <2>2. cpAttempt'[<<r, n>>].left = Lease
    BY <2>1
  <2> QED BY <1>2, <2>1, <2>2, AttemptFacts
<1>5. ASSUME NEW q, Servable(q), Accepted(q)
      PROVE  /\ \A a \in Attempts : cpAttempt'[a].left >= cpAttempt[a].left
             /\ \A rc \in receipts' : rc \in receipts \/ rc.left <= cpAttempt'[rc.request.attempt].left
  <2> DEFINE a == q.attempt
  <2>1. a \in Attempts /\ \A b \in Attempts : b # a => cpAttempt'[b] = cpAttempt[b]
    BY <1>5 DEF Accepted, CpShape
  <2>2. cpAttempt'[a].left = IF q.action = "heartbeat" THEN Lease ELSE cpAttempt[a].left
    BY <1>5, <2>1 DEF Accepted, CpShape
  <2>3. ASSUME NEW rc \in receipts', rc \notin receipts
        PROVE  rc.request = q /\ rc.left = IF q.action = "heartbeat" THEN Lease ELSE 0
    BY <1>5, <2>3 DEF Accepted
  <2>4. cpAttempt[a].left \in 0..Lease
    BY <1>2, <2>1
  <2> QED BY <1>2, <2>1, <2>2, <2>3, <2>4, AttemptFacts
<1>6. CASE UNCHANGED <<cpAttempt, receipts>>
  BY <1>2, <1>6, AttemptFacts
<1> QED BY <1>1, <1>3, <1>4, <1>5, <1>6, <1>2 DEF ServeCases, cpVars, Admit

LEMMA LessMonotone ==
    /\ \A k, l \in 0..Lease : k <= l => Less(k) <= Less(l)
    /\ \A k \in 0..Lease : Less(k) \in 0..Lease
    /\ \A k \in 0..Lease : Less(k) > 0 => k > 0
  BY AttemptFacts DEF Less

LEMMA LeaseTick ==
    ASSUME LeaseInv, Tick
    PROVE  ReceiptsWithinCloud' /\ LocalLeaseWithinCloud'
<1>1. /\ CpShape /\ ClaimShape /\ LocalShape
      /\ \A o \in ClaimOps : claimOp[o] \in ClaimRecord /\ ClaimSound(o, claimOp[o])
      /\ \A a \in Attempts : localAttempt[a] \in LocalAttemptRecord
  BY InvParts DEF LeaseInv, HostedInv, Shape, ClaimShape, LocalShape
<1>2. /\ \A a \in Attempts : cpAttempt'[a].left = Less(cpAttempt[a].left)
                             /\ cpAttempt[a].left \in 0..Lease
      /\ \A a \in Attempts : localAttempt'[a].left = Less(localAttempt[a].left)
                             /\ localAttempt[a].left \in 0..Lease
  BY <1>1 DEF Tick, CoordinatorTick, CpShape, LocalShape, AttemptRecord, LocalAttemptRecord
<1>3. \A o \in ClaimOps : /\ claimOp'[o].left = Less(claimOp[o].left)
                          /\ claimOp'[o].attempt = claimOp[o].attempt
                          /\ claimOp[o].left \in 0..Lease
  BY <1>1 DEF Tick, ClaimRecord
<1>4. ASSUME NEW rc \in receipts' PROVE rc.left <= cpAttempt'[rc.request.attempt].left
  <2>1. PICK old \in receipts : rc = [old EXCEPT !.left = Less(old.left)]
    BY <1>4 DEF Tick, CoordinatorTick
  <2>2. /\ old.left \in 0..Lease /\ old.request.attempt \in Attempts
        /\ rc.left = Less(old.left) /\ rc.request = old.request
    BY <1>1, <2>1 DEF CpShape, ReceiptRecord, Requests
  <2>3. old.left <= cpAttempt[old.request.attempt].left
    BY DEF LeaseInv, ReceiptsWithinCloud
  <2> QED BY <1>2, <2>2, <2>3, LessMonotone
<1>5. \A a \in Attempts : localAttempt'[a].left <= cpAttempt'[a].left
  BY <1>2, LessMonotone DEF LeaseInv, LocalLeaseWithinCloud
<1>6. ASSUME NEW o \in ClaimOps, claimOp'[o].left > 0
      PROVE  claimOp'[o].left <= cpAttempt'[claimOp'[o].attempt].left
  <2>1. claimOp[o].left > 0
    BY <1>3, <1>6, LessMonotone
  <2>2. claimOp[o].attempt \in Attempts
    BY <1>1, <2>1, AttemptFacts DEF ClaimSound
  <2>3. claimOp[o].left <= cpAttempt[claimOp[o].attempt].left
    BY <2>1 DEF LeaseInv, LocalLeaseWithinCloud
  <2> QED BY <1>2, <1>3, <2>2, <2>3, LessMonotone
<1> QED BY <1>4, <1>5, <1>6 DEF ReceiptsWithinCloud, LocalLeaseWithinCloud

\* But for time, the runner takes a lease from a claim or from a receipt.
LEMMA LocalLeaseSources ==
    ASSUME LeaseInv, [Next]_vars, UNCHANGED cpVars \/ UNCHANGED durable, ~Tick
    PROVE  /\ \A a \in Attempts : localAttempt'[a].left <= cpAttempt[a].left
           /\ \A o \in ClaimOps : claimOp'[o].left > 0 =>
                /\ claimOp'[o].attempt \in Attempts
                /\ claimOp'[o].left <= cpAttempt[claimOp'[o].attempt].left
<1>1. /\ Parts /\ CpShape /\ ClaimShape /\ LocalShape /\ NetShape /\ LoopControl
      /\ \A o \in ClaimOps : claimOp[o] \in ClaimRecord /\ ClaimSound(o, claimOp[o])
      /\ \A a \in Attempts : localAttempt[a] \in LocalAttemptRecord
      /\ \A a \in Attempts : localAttempt[a].left <= cpAttempt[a].left
      /\ \A o \in ClaimOps : claimOp[o].left > 0 =>
                claimOp[o].left <= cpAttempt[claimOp[o].attempt].left
      /\ Answered
  BY InvParts DEF LeaseInv, LocalLeaseWithinCloud, HostedInv
<1>2. \A a \in Attempts : localAttempt'[a].left <= cpAttempt[a].left
  <2>1. CASE UNCHANGED localAttempt
    BY <1>1, <2>1
  <2>2. CASE Import
    <3>1. /\ op \in ClaimOps /\ claimOp[op].attempt \in Attempts /\ claimOp[op].left > 0
      BY <1>1, <2>2 DEF Import, LoopControl, ClaimSound
    <3>2. localAttempt' = [localAttempt EXCEPT ![claimOp[op].attempt] =
            [status |-> "assigned", left |-> claimOp[op].left, ver |-> 0]]
      BY <2>2 DEF Import
    <3> QED BY <1>1, <3>1, <3>2 DEF LocalShape
  <2>3. CASE RejectStart \/ MarkRunning \/ Complete
    <3>1. \A a \in Attempts : localAttempt'[a].left = localAttempt[a].left
      BY <1>1, <2>3 DEF RejectStart, MarkRunning, Complete, LocalShape, LocalAttemptRecord
    <3> QED BY <1>1, <3>1
  <2>4. ASSUME NEW c \in calls, NEW i \in DOMAIN journal[c.request.attempt], Acknowledge(c, i)
        PROVE  \A a \in Attempts : localAttempt'[a].left <= cpAttempt[a].left
    <3> DEFINE q == c.request
    <3>1. q.attempt \in Attempts
      BY <1>1 DEF NetShape, CallRecord, Sendable, Requests
    <3>2. CASE q.action # "heartbeat"
      BY <2>1, <2>4, <3>2 DEF Acknowledge
    <3>3. CASE q.action = "heartbeat"
      <4>1. HasReceipt(q)
        BY <1>1, <2>4 DEF Acknowledge, Answered
      <4>2. ReceiptOf(q).left <= cpAttempt[q.attempt].left
        BY <1>1, <4>1, ReceiptLeft DEF LeaseInv, ReceiptsWithinCloud
      <4>3. \A a \in Attempts : localAttempt'[a].left =
              IF a = q.attempt THEN ReceiptOf(q).left ELSE localAttempt[a].left
        BY <1>1, <2>4, <3>1, <3>3 DEF Acknowledge, LocalShape, LocalAttemptRecord
      <4> QED BY <1>1, <4>2, <4>3
    <3> QED BY <3>2, <3>3
  <2> QED BY <1>1, <2>1, <2>2, <2>3, <2>4 DEF Parts, LocalChanges, Acks
<1>3. ASSUME NEW o \in ClaimOps, claimOp'[o].left > 0
      PROVE  /\ claimOp'[o].attempt \in Attempts
             /\ claimOp'[o].left <= cpAttempt[claimOp'[o].attempt].left
  <2>1. CASE claimOp'[o].left = claimOp[o].left /\ claimOp'[o].attempt = claimOp[o].attempt
    <3>1. claimOp[o].attempt \in Attempts
      BY <1>1, <1>3, <2>1, AttemptFacts DEF ClaimSound
    <3> QED BY <1>1, <1>3, <2>1, <3>1
  <2>2. CASE TakeClaim
    <3>1. op \in ClaimOps /\ cpClaim[op] \in Attempts
      BY <1>1, <2>2 DEF TakeClaim, LoopControl, CpShape
    <3>2. \/ claimOp'[o].left = claimOp[o].left /\ claimOp'[o].attempt = claimOp[o].attempt
          \/ o = op /\ claimOp'[o].attempt = cpClaim[op] /\ claimOp'[o].left = cpAttempt[cpClaim[op]].left
      BY <1>1, <2>2, <3>1 DEF TakeClaim, ClaimShape, ClaimRecord, ShellLease
    <3>3. cpAttempt[cpClaim[op]].left \in Nat
      BY <1>1, <3>1 DEF CpShape, AttemptRecord
    <3> QED BY <2>1, <3>1, <3>2, <3>3
  <2>3. CASE Import
    <3>1. claimOp'[o].attempt = claimOp[o].attempt
          /\ (claimOp'[o].left = claimOp[o].left \/ claimOp'[o].left = 0)
      BY <1>1, <2>3 DEF Import, ClaimShape, ClaimRecord
    <3> QED BY <1>3, <2>1, <3>1
  <2>4. CASE Acks
    <3>1. claimOp'[o] = claimOp[o] \/ claimOp'[o] = [claimOp[o] EXCEPT !.active = FALSE, !.left = 0]
      BY <2>4 DEF Acks, Acknowledge
    <3>2. claimOp'[o].attempt = claimOp[o].attempt
          /\ (claimOp'[o].left = claimOp[o].left \/ claimOp'[o].left = 0)
      BY <1>1, <3>1 DEF ClaimRecord
    <3> QED BY <1>3, <2>1, <3>2
  <2>5. CASE TakeNoClaim \/ AcquireStart \/ \E k \in ClaimOps : BeginClaim(k)
    <3>1. claimOp'[o].attempt = claimOp[o].attempt /\ claimOp'[o].left = claimOp[o].left
      <4>1. CASE TakeNoClaim
        BY <1>1, <4>1 DEF TakeNoClaim, ClaimShape, ClaimRecord
      <4>2. CASE AcquireStart
        BY <1>1, <4>2 DEF AcquireStart, ClaimShape, ClaimRecord
      <4>3. CASE \E k \in ClaimOps : BeginClaim(k)
        BY <1>1, <4>3 DEF BeginClaim, ClaimShape, ClaimRecord
      <4> QED BY <2>5, <4>1, <4>2, <4>3
    <3> QED BY <2>1, <3>1
  <2>6. CASE UNCHANGED claimOp
    BY <2>1, <2>6
  <2> QED BY <1>1, <2>2, <2>3, <2>4, <2>5, <2>6 DEF Parts, ClaimChanges
<1> QED BY <1>2, <1>3

LEMMA LeaseInvStep == LeaseInv /\ [Next]_vars => LeaseInv'
<1> SUFFICES ASSUME LeaseInv, [Next]_vars PROVE LeaseInv'
  OBVIOUS
<1>1. /\ HostedInv /\ HostedInv' /\ Parts /\ CpShape /\ CpShape' /\ NetShape /\ LocalShape'
      /\ ClaimShape' /\ Numbered /\ ReceiptsWithinCloud
  BY InvParts, HostedInvStep DEF LeaseInv, HostedInv, Shape
<1>2. Numbered'
  BY <1>1, NumberedStep DEF Parts
<1>3. CASE Tick
  BY <1>1, <1>2, <1>3, LeaseTick DEF LeaseInv
<1>4. CASE ~Tick
  <2>1. CpServes /\ (UNCHANGED cpVars \/ UNCHANGED durable)
    BY <1>1, <1>4 DEF Parts, CpServes
  <2>2. /\ \A a \in Attempts : cpAttempt'[a].left >= cpAttempt[a].left
        /\ \A rc \in receipts' : \/ rc \in receipts
                                 \/ rc.left <= cpAttempt'[rc.request.attempt].left
    BY <1>1, <2>1, CloudLeases
  <2>3. /\ \A a \in Attempts : localAttempt'[a].left <= cpAttempt[a].left
        /\ \A o \in ClaimOps : claimOp'[o].left > 0 =>
             /\ claimOp'[o].attempt \in Attempts
             /\ claimOp'[o].left <= cpAttempt[claimOp'[o].attempt].left
    BY <1>4, <2>1, LocalLeaseSources
  <2>4. /\ \A a \in Attempts : /\ cpAttempt[a].left \in Nat /\ cpAttempt'[a].left \in Nat
                               /\ localAttempt'[a].left \in Nat
        /\ \A o \in ClaimOps : claimOp'[o].left \in Nat
        /\ \A rc \in receipts : rc.left \in Nat /\ rc.request.attempt \in Attempts
    BY <1>1 DEF CpShape, LocalShape, ClaimShape, AttemptRecord, LocalAttemptRecord, ClaimRecord,
                ReceiptRecord, Requests
  <2>5. LocalLeaseWithinCloud'
    <3>1. \A a \in Attempts : localAttempt'[a].left <= cpAttempt'[a].left
      BY <2>2, <2>3, <2>4
    <3>2. \A o \in ClaimOps : claimOp'[o].left > 0 =>
                claimOp'[o].left <= cpAttempt'[claimOp'[o].attempt].left
      BY <2>2, <2>3, <2>4
    <3> QED BY <3>1, <3>2 DEF LocalLeaseWithinCloud
  <2>6. ReceiptsWithinCloud'
    <3>1. ASSUME NEW rc \in receipts' PROVE rc.left <= cpAttempt'[rc.request.attempt].left
      <4>1. CASE rc \in receipts
        BY <1>1, <2>2, <2>4, <4>1 DEF ReceiptsWithinCloud
      <4> QED BY <2>2, <4>1
    <3> QED BY <3>1 DEF ReceiptsWithinCloud
  <2> QED BY <1>1, <1>2, <2>5, <2>6 DEF LeaseInv
<1> QED BY <1>3, <1>4

LEMMA LeaseInvInit == Init => LeaseInv
<1> SUFFICES ASSUME Init PROVE LeaseInv
  OBVIOUS
<1>1. HostedInv
  BY HostedInvInit
<1>2. Numbered
  BY AttemptFacts DEF Init, CoordinatorInit, Numbered
<1>3. ReceiptsWithinCloud /\ LocalLeaseWithinCloud
  BY DEF Init, CoordinatorInit, RunnerInit, ReceiptsWithinCloud, LocalLeaseWithinCloud
<1> QED BY <1>1, <1>2, <1>3 DEF LeaseInv

\* The runner never believes in a lease the control plane no longer grants:
\* the shell of a claim carries what was left of the lease granted
\* (persistHostedClaimAuthorityShell), the import hands that on, and a heartbeat's receipt
\* renews with the expiry the control plane stored
\* (acknowledgeHostedLifecycleOperationTx).
THEOREM LeasesWithinCloud == Spec => []LocalLeaseWithinCloud
<1>1. Spec => []LeaseInv
  BY LeaseInvInit, LeaseInvStep, PTL DEF Spec
<1>2. LeaseInv => LocalLeaseWithinCloud
  BY DEF LeaseInv
<1> QED BY <1>1, <1>2, PTL

\* An attempt under which the runner may still act is the newest one the control
\* plane handed out (claim, in createHostedRunCoordinator), whatever requests were lost or came late.
THEOREM OneAttemptHolds == Spec => []OneHolder
<1>1. Spec => []LeaseInv
  BY LeaseInvInit, LeaseInvStep, PTL DEF Spec
<1>2. LeaseInv => OneHolder
  <2> SUFFICES ASSUME LeaseInv, NEW r \in Runs, HoldsLease(LocalCurrent(r), Live)
               PROVE  localRun[r].current = cpRun[r].current
    BY DEF OneHolder
  <2> DEFINE a == LocalCurrent(r)
  <2>1. a[1] = r /\ a[2] = localRun[r].current
    BY DEF LocalCurrent
  <2>2. /\ CpShape /\ localRun[r] \in LocalRunRecord /\ RunControl /\ localRun[r].status \in Live
        /\ localAttempt[a].left > 0
    BY <2>1 DEF HoldsLease, LeaseInv, HostedInv, Shape, LocalShape
  <2>3. localRun[r].current \in 1..MaxAttempt
    BY <2>2, AttemptFacts DEF RunControl, LocalRunRecord
  <2>4. a \in Attempts
    BY <2>3, AttemptFacts DEF LocalCurrent
  <2>5. cpAttempt[a].left > 0
    <3>1. localAttempt[a].left <= cpAttempt[a].left
      BY <2>4 DEF LeaseInv, LocalLeaseWithinCloud
    <3>2. cpAttempt[a].left \in Nat /\ localAttempt[a].left \in Nat
      BY <2>4 DEF CpShape, AttemptRecord, LeaseInv, HostedInv, Shape, LocalShape, LocalAttemptRecord
    <3> QED BY <2>2, <3>1, <3>2
  <2> QED BY <2>1, <2>4, <2>5 DEF LeaseInv, Numbered
<1> QED BY <1>1, <1>2, PTL

----------------------------------------------------------------------------
(* The journal and what the control plane has received of it.              *)

HasEntry(q) == \E i \in DOMAIN journal[q.attempt] :
                  RequestOf(q.attempt, journal[q.attempt][i]) = q
\* A request was sent when all entries before its own were acknowledged.
Sent(q) == \E i \in DOMAIN journal[q.attempt] :
              /\ RequestOf(q.attempt, journal[q.attempt][i]) = q
              /\ \A j \in 1..(i - 1) : journal[q.attempt][j].state = "acked"

DistinctEntries ==
    \A a \in Attempts : \A i, j \in DOMAIN journal[a] :
        RequestOf(a, journal[a][i]) = RequestOf(a, journal[a][j]) => i = j

\* A journal belongs to a claim that was imported, or is rejected from its
\* shell.
BackedJournals ==
    \A a \in Attempts : \A i \in DOMAIN journal[a] :
        \E o \in ClaimOps : /\ claimOp[o].attempt = a
                            /\ claimOp[o].imported \/ Journaled(a, {"reject"})

ReceiptsJournaled == \A q : HasReceipt(q) => q.action = "cancel" \/ HasEntry(q)
RequestsSent == \A q \in UnderWay : Sent(q)
ClaimAtHand == pc \in {"claiming", "claimed"} => Active(op) /\ ~AwaitsRejection

JournalInv ==
    /\ LeaseInv
    /\ DistinctEntries /\ BackedJournals /\ ReceiptsJournaled /\ RequestsSent
    /\ ClaimAtHand
    /\ JournalInOrder

LEMMA SameRequest ==
    \A a, e, f : RequestOf(a, e) = RequestOf(a, f) <=> e.action = f.action /\ e.ver = f.ver
  BY DEF RequestOf, Request

\* One attempt, one claim.
LEMMA OneClaim ==
    ASSUME LeaseInv, NEW o \in ClaimOps, claimOp[o].attempt \in Attempts
    PROVE  /\ claimOp[o].state = "claimed" /\ cpClaim[o] = claimOp[o].attempt
           /\ \A k \in ClaimOps : cpClaim[k] = claimOp[o].attempt => k = o
           /\ \A k \in ClaimOps : claimOp[k].attempt = claimOp[o].attempt => k = o
<1>1. \A k \in ClaimOps : ClaimSound(k, claimOp[k])
  BY DEF LeaseInv, HostedInv
<1>2. claimOp[o].state = "claimed" /\ cpClaim[o] = claimOp[o].attempt /\ cpClaim[o] # NoAttempt
  BY <1>1, AttemptFacts DEF ClaimSound
<1>3. \A k \in ClaimOps : cpClaim[k] = claimOp[o].attempt => k = o
  BY <1>2 DEF LeaseInv, Numbered
<1>4. \A k \in ClaimOps : claimOp[k].attempt = claimOp[o].attempt => cpClaim[k] = claimOp[o].attempt
  BY <1>1, AttemptFacts DEF ClaimSound
<1> QED BY <1>2, <1>3, <1>4

\* The step of a journal, whether entries are kept or one is added.
EntriesStay(a) ==
    /\ DOMAIN journal[a] \subseteq DOMAIN journal'[a]
    /\ \A i \in DOMAIN journal[a] :
         /\ RequestOf(a, journal'[a][i]) = RequestOf(a, journal[a][i])
         /\ journal[a][i].state = "acked" => journal'[a][i].state = "acked"
         /\ journal'[a][i].state = "acked" => \/ journal[a][i].state = "acked"
                                              \/ HasReceipt(RequestOf(a, journal[a][i]))
    /\ \A i \in DOMAIN journal'[a] : i \notin DOMAIN journal[a] =>
         /\ journal'[a][i].state = "pending"
         /\ ~HasEntry(RequestOf(a, journal'[a][i]))
         /\ \A k \in DOMAIN journal'[a] : k \notin DOMAIN journal[a] => k = i
         /\ op \in ClaimOps /\ claimOp[op].attempt = a
         /\ claimOp[op].imported \/ journal'[a][i].action = "reject"

LEMMA WriteEffect ==
    ASSUME JournalShape, NEW action, NEW ver, Writes(action, ver)
    PROVE  LET a == claimOp[op].attempt IN
           /\ Entry(action, ver) \in EntryRecord
           /\ DOMAIN journal[a] = 1..Len(journal[a]) /\ Len(journal[a]) \in Nat
           /\ DOMAIN journal'[a] = 1..(Len(journal[a]) + 1)
           /\ \A i \in DOMAIN journal[a] : journal'[a][i] = journal[a][i]
           /\ journal'[a][Len(journal[a]) + 1] = Entry(action, ver)
           /\ \A b \in Attempts : b # a => journal'[b] = journal[b]
<1> DEFINE a == claimOp[op].attempt
           new == Append(journal[a], Entry(action, ver))
<1>1. a \in Attempts /\ Entry(action, ver) \in EntryRecord /\ journal[a] \in Seq(EntryRecord)
      /\ DOMAIN journal[a] = 1..Len(journal[a]) /\ Len(journal[a]) \in Nat
  BY JournalEntry DEF Writes
<1>2. /\ new \in Seq(EntryRecord) /\ Len(new) = Len(journal[a]) + 1
      /\ \A i \in 1..Len(journal[a]) : new[i] = journal[a][i]
      /\ new[Len(journal[a]) + 1] = Entry(action, ver)
  BY <1>1, AppendProperties
<1>3. DOMAIN new = 1..(Len(journal[a]) + 1)
  BY <1>2, LenProperties
<1>4. journal'[a] = new /\ \A b \in Attempts : b # a => journal'[b] = journal[b]
  BY <1>1 DEF Writes, Enqueue, JournalShape
<1> HIDE DEF new
<1> QED BY <1>1, <1>2, <1>3, <1>4

\* No request is journaled twice: a claim that was imported adds one of another
\* kind or version, and a shell only the first.
WritesNew(action, ver) ==
    /\ ~HasEntry(Request(claimOp[op].attempt, action, ver))
    /\ claimOp[op].imported \/ action = "reject"
    /\ \/ claimOp[op].imported /\ ~Journaled(claimOp[op].attempt, Terminal)
       \/ DOMAIN journal[claimOp[op].attempt] = {} /\ FailImport /\ ~claimOp[op].imported

LEMMA WritesFresh ==
    ASSUME JournalInv, NEW action, NEW ver, Writes(action, ver),
           \/ FailImport /\ action = "reject"
           \/ RejectStart /\ action = "reject"
           \/ MarkRunning /\ action = "running"
           \/ BeginHeartbeat /\ action = "heartbeat" /\ ver = localAttempt[claimOp[op].attempt].ver
           \/ Progress /\ action = "progress"
           \/ Complete /\ action = "complete"
    PROVE  WritesNew(action, ver)
<1> DEFINE a == claimOp[op].attempt
<1>1. op \in ClaimOps /\ a \in Attempts /\ LoopControl /\ JournalShape
  BY DEF Writes, JournalInv, LeaseInv, HostedInv, Shape
<1>2. CASE FailImport /\ action = "reject"
  <2>1. pc = "claimed" /\ Active(op) /\ ActiveShell(op) /\ ~Journaled(a, {"reject"})
        /\ ~claimOp[op].imported
    BY <1>1, <1>2 DEF FailImport, JournalInv, ClaimAtHand, ActiveShell, Active, AwaitsRejection,
                      LoopControl, LeaseInv, HostedInv, ClaimSound
  <2>2. ASSUME NEW i \in DOMAIN journal[a] PROVE FALSE
    <3>1. PICK o \in ClaimOps : claimOp[o].attempt = a /\ claimOp[o].imported
      BY <1>1, <2>1 DEF JournalInv, BackedJournals
    <3>2. o = op
      BY <1>1, <3>1, OneClaim DEF JournalInv
    <3> QED BY <2>1, <3>1, <3>2
  <2>3. DOMAIN journal[a] = {}
    BY <2>2
  <2>5. Request(a, action, ver).attempt = a
    BY DEF Request
  <2> QED BY <1>2, <2>1, <2>3, <2>5 DEF HasEntry, WritesNew
<1>3. ASSUME pc \in {"starting", "executing"}, ~Journaled(a, Terminal),
             \A i \in DOMAIN journal[a] : journal[a][i].action = action => journal[a][i].ver # ver
      PROVE  WritesNew(action, ver)
  <2>1. claimOp[op].imported
    BY <1>1, <1>3 DEF LoopControl
  <2>2. ~HasEntry(Request(a, action, ver))
    BY <1>3 DEF HasEntry, RequestOf, Request
  <2> QED BY <1>3, <2>1, <2>2 DEF WritesNew
<1>4. \A actions : ~Journaled(a, actions) => \A i \in DOMAIN journal[a] : journal[a][i].action \notin actions
  BY DEF Journaled, Entries
<1>5. CASE RejectStart /\ action = "reject"
  BY <1>3, <1>4, <1>5 DEF RejectStart, MayEnqueue, Terminal
<1>6. CASE MarkRunning /\ action = "running"
  BY <1>3, <1>4, <1>6 DEF MarkRunning, MayEnqueue
<1>7. CASE BeginHeartbeat /\ action = "heartbeat" /\ ver = localAttempt[a].ver
  BY <1>3, <1>4, <1>7 DEF BeginHeartbeat, MayEnqueue, Entries
<1>8. CASE Progress /\ action = "progress"
  BY <1>3, <1>4, <1>8 DEF Progress, MayEnqueue
<1>9. CASE Complete /\ action = "complete"
  BY <1>3, <1>4, <1>9 DEF Complete, MayEnqueue, Terminal
<1> QED BY <1>2, <1>5, <1>6, <1>7, <1>8, <1>9

LEMMA EntriesStep ==
    ASSUME JournalInv, [Next]_vars
    PROVE  \A a \in Attempts : EntriesStay(a)
<1>1. JournalMoves /\ JournalShape
  BY JournalStep DEF JournalInv, LeaseInv, HostedInv, Shape
<1>2. CASE \A a \in Attempts : KeepsEntries(a)
  <2>1. ASSUME NEW a \in Attempts PROVE EntriesStay(a)
    <3>1. KeepsEntries(a)
      BY <1>2
    <3> QED BY <3>1, SameRequest DEF KeepsEntries, EntriesStay
  <2> QED BY <2>1
<1>3. ASSUME NEW action, NEW ver, Writes(action, ver), WritesNew(action, ver)
      PROVE  \A a \in Attempts : EntriesStay(a)
  <2> DEFINE b == claimOp[op].attempt
             n == Len(journal[b])
  <2>1. /\ Entry(action, ver) \in EntryRecord
        /\ DOMAIN journal[b] = 1..n /\ n \in Nat /\ DOMAIN journal'[b] = 1..(n + 1)
        /\ \A i \in DOMAIN journal[b] : journal'[b][i] = journal[b][i]
        /\ journal'[b][n + 1] = Entry(action, ver)
        /\ \A a \in Attempts : a # b => journal'[a] = journal[a]
    BY <1>1, <1>3, WriteEffect
  <2>2. b \in Attempts /\ op \in ClaimOps
    BY <1>3 DEF Writes
  <2>3. ASSUME NEW a \in Attempts, a # b PROVE EntriesStay(a)
    BY <2>1, <2>3 DEF EntriesStay
  <2>4. /\ RequestOf(b, Entry(action, ver)) = Request(b, action, ver)
        /\ Entry(action, ver).state = "pending" /\ Entry(action, ver).action = action
    BY DEF RequestOf, Entry
  <2>5. ASSUME NEW i \in DOMAIN journal'[b], i \notin DOMAIN journal[b] PROVE i = n + 1
    BY <2>1, <2>5
  <2> HIDE DEF n
  <2>6. EntriesStay(b)
    BY <1>3, <2>1, <2>2, <2>4, <2>5 DEF EntriesStay, WritesNew
  <2> QED BY <2>3, <2>6
<1> QED BY <1>1, <1>2, <1>3, WritesFresh DEF JournalMoves

\* The rest of the journal's invariant, from what its entries do.
LEMMA EntriesKeep ==
    ASSUME JournalShape, JournalShape', \A a \in Attempts : EntriesStay(a)
    PROVE  /\ \A a \in Attempts : /\ DOMAIN journal[a] = 1..Len(journal[a])
                                  /\ DOMAIN journal'[a] = 1..Len(journal'[a])
                                  /\ Len(journal[a]) \in Nat /\ Len(journal'[a]) \in Nat
           /\ \A q : q.attempt \in Attempts /\ HasEntry(q) => HasEntry(q)'
           /\ \A q : q.attempt \in Attempts /\ Sent(q) => Sent(q)'
           /\ \A a \in Attempts : \A actions : Journaled(a, actions) => Journaled(a, actions)'
<1>1. \A a \in Attempts : /\ DOMAIN journal[a] = 1..Len(journal[a])
                          /\ DOMAIN journal'[a] = 1..Len(journal'[a])
                          /\ Len(journal[a]) \in Nat /\ Len(journal'[a]) \in Nat
  BY LenProperties DEF JournalShape
<1>2. ASSUME NEW q, q.attempt \in Attempts, HasEntry(q) PROVE HasEntry(q)'
  BY <1>2 DEF HasEntry, EntriesStay
<1>3. ASSUME NEW q, q.attempt \in Attempts, Sent(q) PROVE Sent(q)'
  <2> DEFINE a == q.attempt
  <2>1. PICK i \in DOMAIN journal[a] : /\ RequestOf(a, journal[a][i]) = q
                                       /\ \A j \in 1..(i - 1) : journal[a][j].state = "acked"
    BY <1>3 DEF Sent
  <2>2. \A j \in 1..(i - 1) : j \in DOMAIN journal[a]
    BY <1>1, <1>3, <2>1
  <2>3. /\ i \in DOMAIN journal'[a] /\ RequestOf(a, journal'[a][i]) = q
        /\ \A j \in 1..(i - 1) : journal'[a][j].state = "acked"
    BY <1>3, <2>1, <2>2 DEF EntriesStay
  <2> QED BY <2>3 DEF Sent
<1>4. ASSUME NEW a \in Attempts, NEW actions, Journaled(a, actions) PROVE Journaled(a, actions)'
  <2>1. PICK i \in DOMAIN journal[a] : journal[a][i].action \in actions
    BY <1>4 DEF Journaled, Entries
  <2>2. i \in DOMAIN journal'[a] /\ RequestOf(a, journal'[a][i]) = RequestOf(a, journal[a][i])
    BY <2>1 DEF EntriesStay
  <2>3. journal'[a][i].action = journal[a][i].action
    BY <2>2, SameRequest
  <2> QED BY <2>1, <2>2, <2>3 DEF Journaled, Entries
<1> QED BY <1>1, <1>2, <1>3, <1>4

\* Where a receipt comes from.
LEMMA ReceiptSources ==
    ASSUME CpShape, NetShape, CpMoves, NEW q, HasReceipt(q)'
    PROVE  HasReceipt(q) \/ q \in UnderWay \/ q.action = "cancel"
<1>1. CpCases
  BY CpSplit
<1>2. PICK rc \in receipts' : rc.request = q
  BY DEF HasReceipt
<1>3. CASE receipts' = receipts
  BY <1>2, <1>3 DEF HasReceipt
<1>4. CASE CoordinatorTick
  <2>1. PICK old \in receipts : rc = [old EXCEPT !.left = Less(old.left)]
    BY <1>2, <1>4 DEF CoordinatorTick
  <2>2. old.request = q
    BY <1>2, <2>1 DEF CpShape, ReceiptRecord
  <2> QED BY <2>2 DEF HasReceipt
<1>5. ASSUME NEW p, Accepted(p), p \in UnderWay \/ p.action = "cancel"
      PROVE  HasReceipt(q) \/ q \in UnderWay \/ q.action = "cancel"
  <2>1. rc \in receipts \/ rc.request = p
    BY <1>2, <1>5 DEF Accepted
  <2> QED BY <1>2, <1>5, <2>1 DEF HasReceipt
<1> QED BY <1>1, <1>3, <1>4, <1>5
        DEF CpCases, ServeCases, cpVars, ReconcileExpiredAttempts, Admit, GrantClaim

LEMMA OrderStep ==
    ASSUME JournalInv, [Next]_vars
    PROVE  DistinctEntries' /\ ReceiptsJournaled' /\ RequestsSent' /\ JournalInOrder'
<1>1. /\ Parts /\ CpShape /\ CpShape' /\ NetShape /\ NetShape' /\ NetMoves /\ JournalShape /\ JournalShape'
      /\ CpMoves /\ DistinctEntries /\ ReceiptsJournaled /\ RequestsSent /\ JournalInOrder
  BY InvParts, JournalStep, NetStep DEF JournalInv, LeaseInv, Parts
<1>2. \A a \in Attempts : EntriesStay(a)
  BY EntriesStep
<1>3. /\ \A a \in Attempts : /\ DOMAIN journal[a] = 1..Len(journal[a])
                             /\ DOMAIN journal'[a] = 1..Len(journal'[a])
                             /\ Len(journal[a]) \in Nat /\ Len(journal'[a]) \in Nat
      /\ \A q : q.attempt \in Attempts /\ HasEntry(q) => HasEntry(q)'
      /\ \A q : q.attempt \in Attempts /\ Sent(q) => Sent(q)'
  BY <1>1, <1>2, EntriesKeep
<1>4. \A q : Sent(q) => HasEntry(q)
  BY DEF Sent, HasEntry
<1>5. \A q \in UnderWay : q.attempt \in Attempts /\ Sent(q) /\ HasEntry(q)
  BY <1>1, <1>4 DEF RequestsSent, UnderWay, NetShape, CallRecord, Sendable, Requests
<1>6. \A a \in Attempts : \A e : RequestOf(a, e).attempt = a /\ RequestOf(a, e).action = e.action
  BY DEF RequestOf, Request
<1>7. DistinctEntries'
  <2> SUFFICES ASSUME NEW a \in Attempts, NEW i \in DOMAIN journal'[a], NEW j \in DOMAIN journal'[a],
                      RequestOf(a, journal'[a][i]) = RequestOf(a, journal'[a][j])
               PROVE  i = j
    BY DEF DistinctEntries, RequestOf
  <2>1. EntriesStay(a)
    BY <1>2
  <2>2. CASE i \in DOMAIN journal[a] /\ j \in DOMAIN journal[a]
    BY <1>1, <2>1, <2>2 DEF EntriesStay, DistinctEntries
  <2>3. ASSUME NEW k \in DOMAIN journal[a], NEW l \in DOMAIN journal'[a], l \notin DOMAIN journal[a]
        PROVE  RequestOf(a, journal'[a][k]) # RequestOf(a, journal'[a][l])
    <3>1. ~HasEntry(RequestOf(a, journal'[a][l]))
      BY <2>1, <2>3 DEF EntriesStay
    <3>2. HasEntry(RequestOf(a, journal[a][k]))
      BY <1>6 DEF HasEntry
    <3>3. RequestOf(a, journal'[a][k]) = RequestOf(a, journal[a][k])
      BY <2>1 DEF EntriesStay
    <3> QED BY <3>1, <3>2, <3>3
  <2>4. CASE i \notin DOMAIN journal[a] /\ j \notin DOMAIN journal[a]
    BY <2>1, <2>4 DEF EntriesStay
  <2> QED BY <2>2, <2>3, <2>4
<1>8. ReceiptsJournaled'
  <2>1. ASSUME NEW q, HasReceipt(q)', q.action # "cancel" PROVE HasEntry(q)'
    <3>1. HasReceipt(q) \/ q \in UnderWay
      BY <1>1, <2>1, ReceiptSources
    <3>2. HasEntry(q)
      BY <1>1, <1>5, <2>1, <3>1 DEF ReceiptsJournaled
    <3>3. q.attempt \in Attempts
      BY <1>1, <1>5, <3>1 DEF HasReceipt, CpShape, ReceiptRecord, Requests
    <3> QED BY <1>3, <3>2, <3>3
  <2> QED BY <2>1 DEF ReceiptsJournaled
<1>9. ASSUME NEW q, q \in UnderWay' PROVE Sent(q)'
  <2>1. CASE q \in UnderWay
    BY <1>3, <1>5, <2>1
  <2>2. CASE SentNow(q)
    <3>0. PICK a \in Attempts : \E i \in DOMAIN journal[a] : Send(a, i) /\ q = RequestOf(a, journal[a][i])
      BY <2>2 DEF SentNow
    <3>1. PICK i \in DOMAIN journal[a] : Send(a, i) /\ q = RequestOf(a, journal[a][i])
      BY <3>0
    <3>2. q.attempt = a /\ \A j \in 1..(i - 1) : journal[a][j].state = "acked"
      BY <1>6, <3>1 DEF Send, Due
    <3>3. Sent(q)
      BY <3>1, <3>2 DEF Sent
    <3> QED BY <1>3, <3>2, <3>3
  <2>3. q \in UnderWay \/ SentNow(q)
    BY <1>1, <1>9 DEF NetMoves, UnderWay
  <2> QED BY <2>1, <2>2, <2>3
<1>10. RequestsSent'
  BY <1>9 DEF RequestsSent
<1>11. JournalInOrder'
  <2> SUFFICES ASSUME NEW a \in Attempts, NEW i \in DOMAIN journal'[a],
                      NEW q, q = RequestOf(a, journal'[a][i])
               PROVE  /\ journal'[a][i].state = "acked" => HasReceipt(q)'
                      /\ HasReceipt(q)' => \A j \in 1..(i - 1) : journal'[a][j].state = "acked"
    BY DEF JournalInOrder, RequestOf, HasReceipt
  <2>1. EntriesStay(a) /\ q.attempt = a /\ q.action # "cancel"
    <3>1. journal'[a][i] \in EntryRecord
      BY <1>1, ElementOfSeq, <1>3 DEF JournalShape
    <3> QED BY <1>2, <1>6, <3>1 DEF EntryRecord
  <2>2. HasReceipt(q) => HasReceipt(q)'
    BY <1>1, ReceiptsStay
  <2>3. HasReceipt(q)' => HasReceipt(q) \/ q \in UnderWay
    BY <1>1, <2>1, ReceiptSources
  <2>4. CASE i \in DOMAIN journal[a]
    <3>1. q = RequestOf(a, journal[a][i])
      BY <2>1, <2>4 DEF EntriesStay
    <3>2. \A j \in 1..(i - 1) : j \in DOMAIN journal[a]
      BY <1>3, <2>4
    <3>3. HasReceipt(q) => \A j \in 1..(i - 1) : journal[a][j].state = "acked"
      BY <1>1, <2>4, <3>1 DEF JournalInOrder
    <3>4. ASSUME q \in UnderWay PROVE \A j \in 1..(i - 1) : journal[a][j].state = "acked"
      <4>1. PICK k \in DOMAIN journal[a] : /\ RequestOf(a, journal[a][k]) = q
                                           /\ \A j \in 1..(k - 1) : journal[a][j].state = "acked"
        BY <1>5, <2>1, <3>4 DEF Sent
      <4>2. k = i
        BY <1>1, <2>4, <3>1, <4>1 DEF DistinctEntries
      <4> QED BY <4>1, <4>2
    <3>5. journal'[a][i].state = "acked" => HasReceipt(q)
      BY <1>1, <2>1, <2>4, <3>1 DEF EntriesStay, JournalInOrder
    <3>6. \A j \in 1..(i - 1) : journal[a][j].state = "acked" => journal'[a][j].state = "acked"
      BY <2>1, <3>2 DEF EntriesStay
    <3> QED BY <2>2, <2>3, <3>3, <3>4, <3>5, <3>6
  <2>5. CASE i \notin DOMAIN journal[a]
    <3>1. journal'[a][i].state = "pending" /\ ~HasEntry(q)
      BY <2>1, <2>5 DEF EntriesStay
    <3>2. ~HasReceipt(q) /\ q \notin UnderWay
      BY <1>1, <1>5, <2>1, <3>1 DEF ReceiptsJournaled
    <3> QED BY <2>3, <3>1, <3>2
  <2> QED BY <2>4, <2>5
<1> QED BY <1>7, <1>8, <1>10, <1>11

LEMMA BackedStep ==
    ASSUME JournalInv, [Next]_vars
    PROVE  BackedJournals'
<1>1. /\ JournalShape /\ JournalShape' /\ ClaimsGrow /\ LeaseInv /\ BackedJournals
      /\ \A a \in Attempts : EntriesStay(a)
  BY InvParts, JournalStep, ClaimsGrowStep, EntriesStep DEF JournalInv, LeaseInv
<1>2. \A a \in Attempts : \A actions : Journaled(a, actions) => Journaled(a, actions)'
  BY <1>1, EntriesKeep
<1>3. ASSUME NEW a \in Attempts, NEW i \in DOMAIN journal'[a]
      PROVE  \E o \in ClaimOps : /\ claimOp'[o].attempt = a
                                 /\ claimOp'[o].imported \/ Journaled(a, {"reject"})'
  <2>1. ASSUME NEW o \in ClaimOps, claimOp[o].attempt = a
        PROVE  claimOp'[o].attempt = a /\ (claimOp[o].imported => claimOp'[o].imported)
    BY <1>1, <2>1, OneClaim DEF ClaimsGrow
  <2>2. CASE i \in DOMAIN journal[a]
    <3>1. PICK o \in ClaimOps : /\ claimOp[o].attempt = a
                                /\ claimOp[o].imported \/ Journaled(a, {"reject"})
      BY <1>1, <2>2 DEF BackedJournals
    <3> QED BY <1>2, <2>1, <3>1
  <2>3. CASE i \notin DOMAIN journal[a]
    <3>1. /\ op \in ClaimOps /\ claimOp[op].attempt = a
          /\ claimOp[op].imported \/ journal'[a][i].action = "reject"
      BY <1>1, <2>3 DEF EntriesStay
    <3>2. journal'[a][i].action = "reject" => Journaled(a, {"reject"})'
      BY <1>3 DEF Journaled, Entries
    <3> QED BY <2>1, <3>1, <3>2
  <2> QED BY <2>2, <2>3
<1> QED BY <1>3 DEF BackedJournals

\* Where the loop is claiming, and what may happen meanwhile.
LEMMA ClaimingSteps ==
    ASSUME LoopControl, [Next]_vars, pc' \in {"claiming", "claimed"}
    PROVE  \/ \E o \in ClaimOps : ReplayClaim(o) \/ BeginClaim(o)
           \/ TakeClaim
           \/ /\ pc' = pc /\ op' = op
              /\ UNCHANGED claimOp \/ Acks \/ Tick
              /\ UNCHANGED journal \/ EntryChanges \/ Tick
<1>1. CASE Loop
  <2>1. ASSUME NEW o \in ClaimOps, Recover(o) PROVE FALSE
    BY <2>1 DEF Recover
  <2>2. ASSUME TakeNoClaim \/ LoseClaim \/ Import \/ FailImport \/ RejectStart \/ AcquireStart
                \/ LeaveRun \/ Complete
        PROVE  FALSE
    BY <2>2 DEF TakeNoClaim, LoseClaim, Import, FailImport, RejectStart, AcquireStart, LeaveRun, Complete
  <2>3. ASSUME MarkRunning \/ BeginHeartbeat \/ Progress PROVE FALSE
    BY <2>3 DEF MarkRunning, BeginHeartbeat, Progress, loop
  <2> QED BY <1>1, <2>1, <2>2, <2>3 DEF Loop
<1>2. CASE Pump
  <2>1. ASSUME NEW c \in calls, Outlived(c) PROVE UNCHANGED <<pc, op, claimOp, journal>>
    BY <2>1 DEF Outlived, loop, durable, localData
  <2>2. CASE EntryChanges
    <3>1. UNCHANGED <<pc, op>> /\ (UNCHANGED claimOp \/ Acks)
      BY <2>2, EntryFrame DEF loop
    <3> QED BY <2>2, <3>1
  <2> QED BY <1>2, <2>1, <2>2 DEF Pump, EntryChanges
<1>3. CASE ControlPlane \/ UNCHANGED vars
  BY <1>3 DEF ControlPlane, Coordinate, ServeClaim, ServeCall, ServeLateClaim, ServeLateCall,
              runnerVars, durable, localData, loop, vars
<1>4. CASE Crash
  BY <1>4 DEF Crash
<1>5. CASE Tick
  BY <1>5 DEF Tick, loop
<1> QED BY <1>1, <1>2, <1>3, <1>4, <1>5 DEF Next

LEMMA AtHandStep ==
    ASSUME JournalInv, [Next]_vars
    PROVE  ClaimAtHand'
<1> SUFFICES ASSUME pc' \in {"claiming", "claimed"} PROVE Active(op)' /\ ~AwaitsRejection'
  BY DEF ClaimAtHand
<1>1. /\ Parts /\ CpShape /\ ClaimShape /\ NetShape /\ JournalShape /\ LoopControl /\ LeaseInv
      /\ \A o \in ClaimOps : claimOp[o] \in ClaimRecord /\ ClaimSound(o, claimOp[o])
      /\ BackedJournals
  BY InvParts DEF JournalInv, LeaseInv
<1>2. \A o \in ClaimOps : ActiveShell(o) <=> claimOp[o].active /\ claimOp[o].state = "claimed"
  BY DEF ActiveShell, Active
<1>3. AwaitsRejection <=> \E o \in ClaimOps : /\ claimOp[o].active /\ claimOp[o].state = "claimed"
                                              /\ Journaled(claimOp[o].attempt, {"reject"})
  BY <1>2 DEF AwaitsRejection
<1>4. AwaitsRejection' <=>
        \E o \in ClaimOps : /\ claimOp'[o].active /\ claimOp'[o].state = "claimed"
                            /\ \E e \in Entries(claimOp[o].attempt)' : e.action \in {"reject"}
  BY DEF AwaitsRejection, ActiveShell, Active, Journaled
<1>5. ASSUME UNCHANGED journal,
             \A o \in ClaimOps : claimOp'[o].active /\ claimOp'[o].state = "claimed" =>
               \/ claimOp[o].active /\ claimOp[o].state = "claimed"
                  /\ claimOp'[o].attempt = claimOp[o].attempt
               \/ ~Journaled(claimOp'[o].attempt, {"reject"}),
             ~AwaitsRejection
      PROVE  ~AwaitsRejection'
  BY <1>3, <1>4, <1>5 DEF Journaled, Entries
<1>6. ASSUME NEW o \in ClaimOps, ReplayClaim(o) PROVE Active(op)' /\ ~AwaitsRejection'
  BY <1>5, <1>6 DEF ReplayClaim, BeginIteration, Ask, durable, localData, Active
<1>7. ASSUME NEW o \in ClaimOps, BeginClaim(o) PROVE Active(op)' /\ ~AwaitsRejection'
  <2>1. /\ op' = o /\ UNCHANGED journal /\ ~AwaitsRejection
        /\ claimOp' = [claimOp EXCEPT ![o] = [claimOp[o] EXCEPT !.state = "pending", !.active = TRUE]]
    BY <1>1, <1>7 DEF BeginClaim, BeginIteration, Ask, localData, ClaimShape
  <2>2. claimOp'[o].active /\ claimOp'[o].state = "pending"
    BY <1>1, <2>1 DEF ClaimShape, ClaimRecord
  <2>3. \A k \in ClaimOps : k # o => claimOp'[k] = claimOp[k]
    BY <1>1, <2>1 DEF ClaimShape
  <2> QED BY <1>5, <2>1, <2>2, <2>3 DEF Active
<1>8. CASE TakeClaim
  <2>1. /\ pc = "claiming" /\ op \in ClaimOps /\ op' = op /\ Active(op) /\ ~AwaitsRejection
        /\ UNCHANGED journal /\ cpClaim[op] \in Attempts
    BY <1>1, <1>8 DEF TakeClaim, LoopControl, JournalInv, ClaimAtHand, localData, CpShape
  <2>2. CASE claimOp[op].state = "claimed"
    BY <1>5, <1>8, <2>1, <2>2 DEF TakeClaim, Active
  <2>3. CASE claimOp[op].state # "claimed"
    <3>1. /\ \A k \in ClaimOps : k # op => claimOp'[k] = claimOp[k]
          /\ claimOp'[op].active = claimOp[op].active /\ claimOp'[op].attempt = cpClaim[op]
      BY <1>1, <1>8, <2>1, <2>3 DEF TakeClaim, ClaimShape, ClaimRecord
    <3>2. ~Journaled(cpClaim[op], {"reject"})
      <4>1. ASSUME NEW i \in DOMAIN journal[cpClaim[op]] PROVE FALSE
        <5>1. PICK o \in ClaimOps : claimOp[o].attempt = cpClaim[op]
          BY <1>1, <2>1 DEF BackedJournals
        <5>2. claimOp[o].state = "claimed" /\ o = op
          BY <1>1, <2>1, <5>1, OneClaim
        <5> QED BY <2>3, <5>2
      <4> QED BY <4>1 DEF Journaled, Entries
    <3> QED BY <1>5, <2>1, <3>1, <3>2 DEF Active
  <2> QED BY <2>2, <2>3
<1>9. CASE /\ pc' = pc /\ op' = op
           /\ UNCHANGED claimOp \/ Acks \/ Tick
           /\ UNCHANGED journal \/ EntryChanges \/ Tick
  <2>1. op \in ClaimOps /\ Active(op) /\ ~AwaitsRejection
    BY <1>1, <1>9 DEF LoopControl, JournalInv, ClaimAtHand
  <2>2. \A a \in Attempts : DOMAIN journal'[a] = DOMAIN journal[a]
          /\ \A i \in DOMAIN journal[a] : journal'[a][i].action = journal[a][i].action
    <3>1. JournalMoves
      BY JournalStep, <1>1 DEF LeaseInv
    <3>2. pc \notin {"starting", "executing"} /\ pc' # "idle"
      BY <1>9
    <3>3. \A a \in Attempts : KeepsEntries(a)
      BY <3>1, <3>2 DEF JournalMoves, FailImport, RejectStart, MarkRunning, BeginHeartbeat, Progress,
                        Complete
    <3> QED BY <3>3 DEF KeepsEntries
  <2>3. ASSUME NEW a \in Attempts, Journaled(a, {"reject"})' PROVE Journaled(a, {"reject"})
    BY <2>2, <2>3 DEF Journaled, Entries
  <2>4. \A o \in ClaimOps : /\ claimOp'[o].active => claimOp[o].active
                            /\ claimOp'[o].state = claimOp[o].state
                            /\ claimOp'[o].attempt = claimOp[o].attempt
    <3>1. CASE UNCHANGED claimOp
      BY <3>1
    <3>2. CASE Acks \/ Tick
      <4>1. \A o \in ClaimOps : \/ claimOp'[o] = claimOp[o]
                                \/ claimOp'[o] = [claimOp[o] EXCEPT !.active = FALSE, !.left = 0]
                                \/ claimOp'[o] = [claimOp[o] EXCEPT !.left = Less(claimOp[o].left)]
        BY <3>2 DEF Acks, Acknowledge, Tick
      <4> QED BY <1>1, <4>1 DEF ClaimRecord
    <3> QED BY <1>9, <3>1, <3>2
  <2>5. ~AwaitsRejection'
    <3> SUFFICES ASSUME NEW o \in ClaimOps, claimOp'[o].active, claimOp'[o].state = "claimed",
                        Journaled(claimOp[o].attempt, {"reject"})'
                 PROVE  FALSE
      BY DEF AwaitsRejection, ActiveShell, Active
    <3>1. claimOp[o].active /\ claimOp[o].state = "claimed" /\ claimOp[o].attempt \in Attempts
          /\ claimOp'[o].attempt = claimOp[o].attempt
      BY <1>1, <2>4 DEF ClaimSound
    <3>2. PICK a \in Attempts : a = claimOp[o].attempt
      BY <3>1
    <3>3. Journaled(a, {"reject"})'
      BY <3>1, <3>2 DEF Journaled, Entries
    <3>4. Journaled(claimOp[o].attempt, {"reject"})
      BY <2>3, <3>2, <3>3
    <3> QED BY <1>3, <2>1, <3>1, <3>4
  <2>6. claimOp'[op].active
    <3>1. CASE claimOp'[op] = claimOp[op]
      BY <2>1, <3>1 DEF Active
    <3>2. CASE Tick
      BY <1>1, <2>1, <3>2 DEF Tick, Active, ClaimRecord
    <3>3. ASSUME NEW c \in calls, NEW i \in DOMAIN journal[c.request.attempt], Acknowledge(c, i),
                 claimOp'[op] # claimOp[op]
          PROVE  FALSE
      <4> DEFINE a == c.request.attempt
      <4>1. a \in Attempts
        BY <1>1 DEF NetShape, CallRecord, Sendable, Requests
      <4>2. c.request.action = "reject" /\ claimOp[op].attempt = a
        BY <2>1, <3>3 DEF Acknowledge
      <4>3. journal[a][i].action = "reject"
        <5>1. RequestOf(a, journal[a][i]) = c.request
          BY <3>3 DEF Acknowledge, Owns
        <5>2. RequestOf(a, journal[a][i]).action = journal[a][i].action
          BY DEF RequestOf, Request
        <5> QED BY <4>2, <5>1, <5>2
      <4>4. Journaled(a, {"reject"}) /\ claimOp[op].state = "claimed"
        BY <1>1, <2>1, <4>1, <4>2, <4>3, AttemptFacts DEF Journaled, Entries, ClaimSound
      <4> QED BY <1>3, <2>1, <4>2, <4>4 DEF Active
    <3> QED BY <1>9, <3>1, <3>2, <3>3 DEF Acks
  <2> QED BY <1>9, <2>5, <2>6 DEF Active
<1> QED BY <1>1, <1>6, <1>7, <1>8, <1>9, ClaimingSteps

LEMMA JournalInvStep == JournalInv /\ [Next]_vars => JournalInv'
  BY LeaseInvStep, OrderStep, BackedStep, AtHandStep DEF JournalInv

LEMMA JournalInvInit == Init => JournalInv
<1> SUFFICES ASSUME Init PROVE JournalInv
  OBVIOUS
<1>1. LeaseInv
  BY LeaseInvInit
<1>2. \A a \in Attempts : DOMAIN journal[a] = {}
  BY DEF Init, RunnerInit
<1>3. DistinctEntries /\ BackedJournals /\ JournalInOrder
  BY <1>2 DEF DistinctEntries, BackedJournals, JournalInOrder
<1>4. ReceiptsJournaled /\ RequestsSent /\ ClaimAtHand
  BY DEF Init, CoordinatorInit, RunnerInit, ReceiptsJournaled, HasReceipt, RequestsSent, UnderWay,
         ClaimAtHand
<1> QED BY <1>1, <1>3, <1>4 DEF JournalInv

\* The control plane receives an attempt's journal in its order: the pump sends
\* an entry only behind acknowledged ones (claimDueHostedLifecycleOperations), an
\* entry is acknowledged only by a receipt, and no request is journaled twice,
\* so a receipt can be traced to its entry.
THEOREM JournalKeepsOrder == Spec => []JournalInOrder
<1>1. Spec => []JournalInv
  BY JournalInvInit, JournalInvStep, PTL DEF Spec
<1>2. JournalInv => JournalInOrder
  BY DEF JournalInv
<1> QED BY <1>1, <1>2, PTL

----------------------------------------------------------------------------
(* What the runner did, and what the control plane was told.               *)

\* What the runner says of an attempt and of its run, step by step.
WordKept ==
    /\ \A a \in Attempts : localAttempt'[a].status = localAttempt[a].status
    /\ \A r \in Runs : localRun'[r].status = localRun[r].status
WordMoves(b) ==
    /\ op \in ClaimOps /\ b \in Attempts
    /\ localRun[b[1]].status \in Live \cup {"none"}
    /\ \A a \in Attempts : a # b => localAttempt'[a].status = localAttempt[a].status
    /\ \A r \in Runs : r # b[1] => localRun'[r].status = localRun[r].status
    /\ \/ Import /\ localAttempt'[b].status = "assigned"
       \/ /\ RejectStart /\ localAttempt[b].status = "assigned"
          /\ localAttempt'[b].status = "interrupted"
       \/ /\ MarkRunning /\ localAttempt[b].status \in Live
          /\ localAttempt'[b].status = "running"
       \/ /\ Complete /\ localAttempt[b].status = "running"
          /\ localAttempt'[b].status = "completed" /\ localRun'[b[1]].status = "done"

LEMMA WordStep ==
    ASSUME HostedInv, [Next]_vars
    PROVE  WordKept \/ WordMoves(claimOp[op].attempt)
<1> DEFINE b == claimOp[op].attempt
<1>1. /\ Parts /\ LocalShape /\ NetShape /\ LoopControl
      /\ \A o \in ClaimOps : ClaimSound(o, claimOp[o])
      /\ \A r \in Runs : localRun[r] \in LocalRunRecord
      /\ \A a \in Attempts : localAttempt[a] \in LocalAttemptRecord
  BY InvParts
<1>2. ASSUME pc \in {"claimed", "starting", "executing"}
      PROVE  op \in ClaimOps /\ b \in Attempts /\ b[1] \in Runs
  BY <1>1, <1>2, AttemptFacts DEF LoopControl, ClaimSound
<1>3. CASE Import
  BY <1>1, <1>2, <1>3 DEF Import, ImportFits, WordMoves, LocalShape
<1>4. CASE RejectStart
  BY <1>1, <1>2, <1>4 DEF RejectStart, HoldsLease, WordMoves, LocalShape, LocalAttemptRecord, Live
<1>5. CASE MarkRunning
  BY <1>1, <1>2, <1>5 DEF MarkRunning, HoldsLease, WordMoves, LocalShape, LocalAttemptRecord, Live
<1>6. CASE Complete
  BY <1>1, <1>2, <1>6 DEF Complete, HoldsLease, WordMoves, LocalShape, LocalAttemptRecord, Live
<1>7. ASSUME NEW c \in calls, NEW i \in DOMAIN journal[c.request.attempt], Acknowledge(c, i)
      PROVE  WordKept
  <2>1. c.request.attempt \in Attempts
    BY <1>1 DEF NetShape, CallRecord, Sendable, Requests
  <2> QED BY <1>1, <1>7, <2>1 DEF Acknowledge, WordKept, LocalShape, LocalAttemptRecord
<1>8. CASE Tick
  BY <1>1, <1>8 DEF Tick, WordKept, LocalAttemptRecord
<1>9. CASE UNCHANGED <<localRun, localAttempt>>
  BY <1>9 DEF WordKept
<1> QED BY <1>1, <1>3, <1>4, <1>5, <1>6, <1>7, <1>8, <1>9 DEF Parts, LocalChanges, Acks

\* Which steps journal a rejection or a completion.
LEMMA TerminalWrites ==
    ASSUME JournalInv, [Next]_vars, NEW a \in Attempts
    PROVE  /\ Journaled(a, {"reject"})' => \/ Journaled(a, {"reject"})
                                           \/ /\ FailImport \/ RejectStart
                                              /\ op \in ClaimOps /\ a = claimOp[op].attempt
           /\ Journaled(a, {"complete"})' => \/ Journaled(a, {"complete"})
                                             \/ /\ Complete
                                                /\ op \in ClaimOps /\ a = claimOp[op].attempt
<1>1. JournalMoves /\ JournalShape
  BY JournalStep DEF JournalInv, LeaseInv, HostedInv, Shape
<1>2. CASE \A b \in Attempts : KeepsEntries(b)
  <2>1. KeepsEntries(a)
    BY <1>2
  <2> QED BY <2>1 DEF KeepsEntries, Journaled, Entries
<1>3. ASSUME NEW action, NEW ver, Writes(action, ver), NEW actions,
             Journaled(a, actions)', ~Journaled(a, actions)
      PROVE  action \in actions /\ op \in ClaimOps /\ a = claimOp[op].attempt
  <2> DEFINE b == claimOp[op].attempt
             n == Len(journal[b])
  <2>1. /\ DOMAIN journal[b] = 1..n /\ n \in Nat /\ DOMAIN journal'[b] = 1..(n + 1)
        /\ \A i \in DOMAIN journal[b] : journal'[b][i] = journal[b][i]
        /\ journal'[b][n + 1] = Entry(action, ver)
        /\ \A c \in Attempts : c # b => journal'[c] = journal[c]
    BY <1>1, <1>3, WriteEffect
  <2>2. PICK i \in DOMAIN journal'[a] : journal'[a][i].action \in actions
    BY <1>3 DEF Journaled, Entries
  <2>3. a = b
    BY <1>3, <2>1, <2>2 DEF Journaled, Entries
  <2>4. i = n + 1
    <3>1. ASSUME i \in DOMAIN journal[a] PROVE FALSE
      BY <1>3, <2>1, <2>2, <2>3, <3>1 DEF Journaled, Entries
    <3> QED BY <2>1, <2>2, <2>3, <3>1
  <2>5. Entry(action, ver).action = action
    BY DEF Entry
  <2> QED BY <1>3, <2>1, <2>2, <2>3, <2>4, <2>5 DEF Writes
<1>4. CASE (FailImport \/ RejectStart) /\ Writes("reject", 0)
  BY <1>3, <1>4
<1>5. ASSUME NEW ver, NEW action \in {"running", "heartbeat", "progress"}, Writes(action, ver)
      PROVE  /\ Journaled(a, {"reject"})' => Journaled(a, {"reject"})
             /\ Journaled(a, {"complete"})' => Journaled(a, {"complete"})
  BY <1>3, <1>5
<1>6. CASE Complete /\ Writes("complete", 0)
  BY <1>3, <1>6
<1> QED BY <1>1, <1>2, <1>4, <1>5, <1>6 DEF JournalMoves

\* An attempt has a status once its claim imported it, a started one runs or
\* has completed; a completion is journaled by an attempt that did, which
\* leaves the run done, and a rejection by one that was never started.
ImportedFirst ==
    \A a \in Attempts : localAttempt[a].status # "none" => \E o \in ClaimOps : ImportedBy(o, a)
StartedRun ==
    \A o \in ClaimOps : claimOp[o].started =>
        localAttempt[claimOp[o].attempt].status \in {"running", "completed"}
ExecutesStarted == pc = "executing" => claimOp[op].started
CompletionsHappened ==
    \A a \in Attempts : Journaled(a, {"complete"}) =>
        /\ StartedAttempt(a)
        /\ localAttempt[a].status = "completed"
        /\ localRun[a[1]].status = "done"
RejectionsHappened ==
    \A a \in Attempts : Journaled(a, {"reject"}) =>
        /\ ~StartedAttempt(a)
        /\ localAttempt[a].status \in {"none", "interrupted"}

\* The control plane settles a run on the word of its current attempt.
SettledOnItsWord ==
    \A r \in Runs :
        /\ cpRun[r].state \in {"completed", "rejected"} => CurrentAttempt(r) \in Attempts
        /\ cpRun[r].state = "completed" => Journaled(CurrentAttempt(r), {"complete"})
        /\ cpRun[r].state = "rejected" => Journaled(CurrentAttempt(r), {"reject"})

TruthInv ==
    /\ JournalInv
    /\ ImportedFirst /\ StartedRun /\ ExecutesStarted
    /\ CompletionsHappened /\ RejectionsHappened
    /\ SettledOnItsWord

\* Who started what: only the start of the executor adds to it.
LEMMA StartsStep ==
    ASSUME LeaseInv, [Next]_vars
    PROVE  /\ \A o \in ClaimOps : claimOp'[o].started =>
                 \/ claimOp[o].started /\ claimOp'[o].attempt = claimOp[o].attempt
                 \/ /\ AcquireStart /\ o = op /\ claimOp'[o].attempt = claimOp[o].attempt
           /\ \A a \in Attempts : StartedAttempt(a)' <=>
                 \/ StartedAttempt(a)
                 \/ AcquireStart /\ a = claimOp[op].attempt
<1>1. /\ Parts /\ ClaimShape /\ LoopControl /\ ClaimsGrow /\ HostedInv
      /\ \A o \in ClaimOps : claimOp[o] \in ClaimRecord /\ ClaimSound(o, claimOp[o])
      /\ \A o \in ClaimOps : ClaimSound(o, claimOp[o])'
  BY InvParts, ClaimsGrowStep, ClaimStep DEF LeaseInv
<1>2. ASSUME NEW o \in ClaimOps, claimOp'[o].started, ~claimOp[o].started
      PROVE  AcquireStart /\ o = op
  <2>1. CASE \E k \in ClaimOps : BeginClaim(k)
    BY <1>1, <1>2, <2>1 DEF BeginClaim, ClaimShape, ClaimRecord
  <2>2. CASE TakeClaim \/ TakeNoClaim \/ Import
    <3>1. op \in ClaimOps
      BY <1>1, <2>2 DEF TakeClaim, TakeNoClaim, Import, LoopControl
    <3>2. CASE TakeClaim
      BY <1>1, <1>2, <3>1, <3>2 DEF TakeClaim, ClaimShape, ClaimRecord
    <3>3. CASE TakeNoClaim
      BY <1>1, <1>2, <3>1, <3>3 DEF TakeNoClaim, ClaimShape, ClaimRecord
    <3>4. CASE Import
      BY <1>1, <1>2, <3>1, <3>4 DEF Import, ClaimShape, ClaimRecord
    <3> QED BY <2>2, <3>2, <3>3, <3>4
  <2>3. CASE Acks \/ Tick
    <3>1. \/ claimOp'[o] = claimOp[o]
          \/ claimOp'[o] = [claimOp[o] EXCEPT !.active = FALSE, !.left = 0]
          \/ claimOp'[o] = [claimOp[o] EXCEPT !.left = Less(claimOp[o].left)]
      BY <2>3 DEF Acks, Acknowledge, Tick
    <3> QED BY <1>1, <1>2, <3>1 DEF ClaimRecord
  <2>4. CASE AcquireStart
    <3>1. claimOp' = [claimOp EXCEPT ![op].started = TRUE]
      BY <2>4 DEF AcquireStart
    <3> QED BY <1>1, <1>2, <2>4, <3>1 DEF ClaimShape
  <2> QED BY <1>1, <1>2, <2>1, <2>2, <2>3, <2>4 DEF Parts, ClaimChanges
<1>3. \A o \in ClaimOps : claimOp[o].imported => /\ claimOp'[o].imported /\ claimOp[o].state = "claimed"
                                                 /\ claimOp'[o].attempt = claimOp[o].attempt
  BY <1>1 DEF ClaimsGrow, ClaimSound
<1>4. AcquireStart => op \in ClaimOps /\ claimOp[op].imported /\ claimOp'[op].started
  BY <1>1 DEF AcquireStart, LoopControl, ClaimShape, ClaimRecord
<1>5. \A o \in ClaimOps : claimOp'[o].started =>
         \/ claimOp[o].started /\ claimOp'[o].attempt = claimOp[o].attempt
         \/ AcquireStart /\ o = op /\ claimOp'[o].attempt = claimOp[o].attempt
  BY <1>1, <1>2, <1>3, <1>4 DEF ClaimSound
<1>6. ASSUME NEW a \in Attempts
      PROVE  StartedAttempt(a)' <=> StartedAttempt(a) \/ (AcquireStart /\ a = claimOp[op].attempt)
  <2>1. StartedAttempt(a) <=> \E o \in ClaimOps : /\ claimOp[o].imported /\ claimOp[o].started
                                                  /\ claimOp[o].attempt = a
    BY DEF StartedAttempt, ImportedBy
  <2>2. StartedAttempt(a)' <=> \E o \in ClaimOps : /\ claimOp'[o].imported /\ claimOp'[o].started
                                                   /\ claimOp'[o].attempt = a
    BY DEF StartedAttempt, ImportedBy
  <2>3. \A o \in ClaimOps : claimOp[o].started => claimOp'[o].started /\ claimOp[o].imported
    BY <1>1 DEF ClaimsGrow, ClaimSound
  <2> QED BY <1>3, <1>4, <1>5, <2>1, <2>2, <2>3
<1> QED BY <1>5, <1>6

\* What the claim at hand is when the runner acts on it.
LEMMA AtHand ==
    ASSUME TruthInv, pc \in {"claimed", "starting", "executing"}
    PROVE  LET b == claimOp[op].attempt IN
           /\ op \in ClaimOps /\ b \in Attempts
           /\ \A k \in ClaimOps : claimOp[k].attempt = b => k = op
           /\ pc = "claimed" => /\ ~claimOp[op].imported /\ ~Journaled(b, {"reject"})
                                /\ localAttempt[b].status = "none" /\ ~StartedAttempt(b)
           /\ pc # "claimed" => claimOp[op].imported
           /\ StartedAttempt(b) <=> claimOp[op].started
<1> DEFINE b == claimOp[op].attempt
<1>1. /\ LoopControl /\ LeaseInv /\ ClaimAtHand /\ ImportedFirst
      /\ \A o \in ClaimOps : ClaimSound(o, claimOp[o])
  BY DEF TruthInv, JournalInv, LeaseInv, HostedInv
<1>2. op \in ClaimOps /\ b \in Attempts
  BY <1>1 DEF LoopControl, ClaimSound
<1>3. \A k \in ClaimOps : claimOp[k].attempt = b => k = op
  BY <1>1, <1>2, OneClaim
<1>4. StartedAttempt(b) <=> claimOp[op].started
  BY <1>1, <1>2, <1>3 DEF StartedAttempt, ImportedBy, ClaimSound
<1>5. ASSUME pc = "claimed"
      PROVE  /\ ~claimOp[op].imported /\ ~Journaled(b, {"reject"})
             /\ localAttempt[b].status = "none" /\ ~StartedAttempt(b)
  <2>1. claimOp[op].active /\ claimOp[op].state = "claimed" /\ ~Journaled(b, {"reject"})
    BY <1>1, <1>2, <1>5 DEF ClaimAtHand, LoopControl, Active, AwaitsRejection, ActiveShell
  <2>2. ~claimOp[op].imported /\ ~claimOp[op].started
    BY <1>1, <1>2, <2>1 DEF ClaimSound
  <2>3. localAttempt[b].status = "none"
    BY <1>1, <1>2, <1>3, <2>2 DEF ImportedFirst, ImportedBy
  <2> QED BY <1>4, <2>1, <2>2, <2>3
<1>6. pc # "claimed" => claimOp[op].imported
  BY <1>1 DEF LoopControl
<1> QED BY <1>2, <1>3, <1>4, <1>5, <1>6

LEMMA WordsStep ==
    ASSUME TruthInv, [Next]_vars
    PROVE  ImportedFirst' /\ StartedRun' /\ CompletionsHappened' /\ RejectionsHappened'
<1> DEFINE b == claimOp[op].attempt
<1>1. /\ JournalInv /\ LeaseInv /\ HostedInv /\ LoopControl /\ ClaimShape /\ LocalShape /\ ClaimsGrow
      /\ \A o \in ClaimOps : claimOp[o] \in ClaimRecord /\ ClaimSound(o, claimOp[o])
      /\ ImportedFirst /\ StartedRun /\ ExecutesStarted
      /\ CompletionsHappened /\ RejectionsHappened
  BY InvParts, ClaimsGrowStep DEF TruthInv, JournalInv, LeaseInv
<1>2. /\ WordKept \/ WordMoves(b)
      /\ \A o \in ClaimOps : claimOp'[o].started =>
           \/ claimOp[o].started /\ claimOp'[o].attempt = claimOp[o].attempt
           \/ AcquireStart /\ o = op /\ claimOp'[o].attempt = claimOp[o].attempt
      /\ \A a \in Attempts : StartedAttempt(a)' <=>
           StartedAttempt(a) \/ (AcquireStart /\ a = claimOp[op].attempt)
  BY <1>1, WordStep, StartsStep
<1>3. ASSUME NEW a \in Attempts, localAttempt'[a].status # localAttempt[a].status
      PROVE  WordMoves(b) /\ a = b
  BY <1>2, <1>3 DEF WordKept, WordMoves
<1>4. WordMoves(b) => pc \in {"claimed", "starting", "executing"}
  BY DEF WordMoves, Import, RejectStart, MarkRunning, Complete
<1>5. AcquireStart => /\ pc = "starting" /\ localAttempt[b].status = "running"
                      /\ UNCHANGED <<localRun, localAttempt>>
                      /\ b \in Attempts
  BY <1>1 DEF AcquireStart, HoldsLease, localData, LoopControl, ClaimSound
<1>6. ASSUME NEW a \in Attempts, localAttempt'[a].status # "none"
      PROVE  \E o \in ClaimOps : ImportedBy(o, a)'
  <2>1. \A o \in ClaimOps : ImportedBy(o, a) => ImportedBy(o, a)'
    BY <1>1 DEF ImportedBy, ClaimsGrow, ClaimSound
  <2>2. CASE localAttempt[a].status # "none"
    BY <1>1, <1>6, <2>1, <2>2 DEF ImportedFirst
  <2>3. CASE localAttempt[a].status = "none"
    <3>1. WordMoves(b) /\ a = b
      BY <1>3, <1>6, <2>3
    <3>2. Import /\ op \in ClaimOps
      BY <2>3, <3>1 DEF WordMoves, Live
    <3>3. claimOp'[op].imported /\ claimOp'[op].attempt = a
      BY <1>1, <3>1, <3>2 DEF Import, ClaimShape, ClaimRecord
    <3> QED BY <3>2, <3>3 DEF ImportedBy
  <2> QED BY <2>2, <2>3
<1>7. ASSUME NEW o \in ClaimOps, claimOp'[o].started
      PROVE  localAttempt'[claimOp'[o].attempt].status \in {"running", "completed"}
  <2>1. CASE claimOp[o].started /\ claimOp'[o].attempt = claimOp[o].attempt
    <3> DEFINE a == claimOp[o].attempt
    <3>1. a \in Attempts /\ localAttempt[a].status \in {"running", "completed"} /\ StartedAttempt(a)
          /\ claimOp[o].imported
      BY <1>1, <2>1 DEF StartedRun, ClaimSound, StartedAttempt, ImportedBy
    <3>2. CASE localAttempt'[a].status = localAttempt[a].status
      BY <2>1, <3>1, <3>2
    <3>3. CASE localAttempt'[a].status # localAttempt[a].status
      <4>1. WordMoves(b) /\ a = b /\ pc # "claimed"
        BY <1>3, <1>4, <3>1, <3>3, AtHand
      <4>2. MarkRunning \/ Complete
        BY <3>1, <4>1 DEF WordMoves, Import
      <4>3. localAttempt'[a].status \in {"running", "completed"}
        BY <3>1, <4>1, <4>2 DEF WordMoves, MarkRunning, RejectStart, Import
      <4> QED BY <2>1, <4>3
    <3> QED BY <3>2, <3>3
  <2>2. CASE AcquireStart /\ o = op /\ claimOp'[o].attempt = claimOp[o].attempt
    BY <1>5, <2>2
  <2> QED BY <1>2, <1>7, <2>1, <2>2
<1>8. ASSUME NEW a \in Attempts, Journaled(a, {"complete"})'
      PROVE  StartedAttempt(a)' /\ localAttempt'[a].status = "completed" /\ localRun'[a[1]].status = "done"
  <2>1. CASE Journaled(a, {"complete"})
    <3>1. StartedAttempt(a) /\ localAttempt[a].status = "completed" /\ localRun[a[1]].status = "done"
      BY <1>1, <2>1 DEF CompletionsHappened
    <3>2. a[1] \in Runs
      BY AttemptFacts
    <3>3. ~(WordMoves(b) /\ b[1] = a[1])
      BY <3>1 DEF WordMoves, Live
    <3>4. localAttempt'[a].status = localAttempt[a].status /\ localRun'[a[1]].status = localRun[a[1]].status
      BY <1>2, <3>2, <3>3 DEF WordMoves, WordKept
    <3> QED BY <1>2, <3>1, <3>4
  <2>2. CASE ~Journaled(a, {"complete"})
    <3>1. Complete /\ op \in ClaimOps /\ a = b
      BY <1>1, <1>8, <2>2, TerminalWrites
    <3>2. pc = "executing" /\ claimOp[op].started /\ StartedAttempt(a) /\ a[1] \in Runs
      BY <1>1, <3>1, AttemptFacts
         DEF Complete, ExecutesStarted, StartedAttempt, ImportedBy, LoopControl
    <3>3. localAttempt'[a].status = "completed" /\ localRun'[a[1]].status = "done"
      BY <1>1, <3>1, <3>2 DEF Complete, LocalShape, LocalAttemptRecord
    <3> QED BY <1>2, <3>2, <3>3
  <2> QED BY <2>1, <2>2
<1>9. ASSUME NEW a \in Attempts, Journaled(a, {"reject"})'
      PROVE  ~StartedAttempt(a)' /\ localAttempt'[a].status \in {"none", "interrupted"}
  <2>1. CASE Journaled(a, {"reject"})
    <3>1. ~StartedAttempt(a) /\ localAttempt[a].status \in {"none", "interrupted"}
      BY <1>1, <2>1 DEF RejectionsHappened
    <3>2. ~(AcquireStart /\ a = b)
      BY <1>5, <3>1
    <3>3. ASSUME WordMoves(b), a = b PROVE FALSE
      <4>1. pc # "claimed"
        BY <1>4, <2>1, <3>3, AtHand
      <4> QED BY <3>1, <3>3, <4>1 DEF WordMoves, Live, Import
    <3> QED BY <1>2, <1>3, <3>1, <3>2, <3>3
  <2>2. CASE ~Journaled(a, {"reject"})
    <3>1. (FailImport \/ RejectStart) /\ op \in ClaimOps /\ a = b
      BY <1>1, <1>9, <2>2, TerminalWrites
    <3>2. CASE FailImport
      <4>1. pc = "claimed" /\ UNCHANGED localAttempt /\ ~AcquireStart
        BY <3>2 DEF FailImport, AcquireStart
      <4>2. ~StartedAttempt(a) /\ localAttempt[a].status = "none"
        BY <3>1, <4>1, AtHand
      <4> QED BY <1>2, <4>1, <4>2
    <3>3. CASE RejectStart
      <4>1. /\ pc = "starting" /\ localAttempt[a].status = "assigned" /\ ~AcquireStart
            /\ localAttempt'[a].status = "interrupted"
        BY <1>1, <3>1, <3>3 DEF RejectStart, HoldsLease, AcquireStart, LocalShape, LocalAttemptRecord
      <4>2. ~claimOp[op].started
        BY <1>1, <3>1, <4>1 DEF StartedRun
      <4>3. ~StartedAttempt(a)
        BY <3>1, <4>1, <4>2, AtHand
      <4> QED BY <1>2, <4>1, <4>3
    <3> QED BY <3>1, <3>2, <3>3
  <2> QED BY <2>1, <2>2
<1>10. ImportedFirst' /\ StartedRun'
  BY <1>6, <1>7 DEF ImportedFirst, StartedRun
<1>11. CompletionsHappened'
  BY <1>8 DEF CompletionsHappened
<1>12. RejectionsHappened'
  BY <1>9 DEF RejectionsHappened
<1> QED BY <1>10, <1>11, <1>12

LEMMA ExecutesStep ==
    ASSUME TruthInv, [Next]_vars
    PROVE  ExecutesStarted'
<1>1. /\ Parts /\ LoopControl /\ ClaimShape /\ ClaimsGrow /\ ExecutesStarted
      /\ \A o \in ClaimOps : claimOp[o] \in ClaimRecord
  BY InvParts, ClaimsGrowStep DEF TruthInv, JournalInv, LeaseInv
<1>2. CASE UNCHANGED loop
  BY <1>1, <1>2 DEF loop, ExecutesStarted, LoopControl, ClaimsGrow
<1>3. CASE ServeClaim
  <2>1. pc' = pc /\ pc = "claiming"
    BY <1>1, <1>3 DEF ServeClaim, LoopControl
  <2> QED BY <2>1 DEF ExecutesStarted
<1>4. CASE AcquireStart
  <2>1. op \in ClaimOps /\ op' = op /\ claimOp' = [claimOp EXCEPT ![op].started = TRUE]
    BY <1>1, <1>4 DEF AcquireStart, LoopControl
  <2>2. claimOp'[op].started
    BY <1>1, <2>1 DEF ClaimShape, ClaimRecord
  <2> QED BY <2>1, <2>2 DEF ExecutesStarted
<1>5. CASE pc' \in {"idle", "claiming", "claimed", "starting"}
  BY <1>5 DEF ExecutesStarted
<1> QED BY <1>1, <1>2, <1>3, <1>4, <1>5
        DEF Parts, LoopChanges, Recover, ReplayClaim, BeginClaim, Ask, TakeClaim, TakeNoClaim,
            LoseClaim, Import, FailImport, RejectStart, LeaveRun, Complete, Crash

\* What a step does to a run at the control plane: it is admitted, handed out,
\* or moved by an accepted request of its current attempt.
RunMoves(r) ==
    \/ cpRun'[r] = cpRun[r]
    \/ cpRun[r].state = "none" /\ cpRun'[r] = [state |-> "pending", current |-> cpRun[r].current]
    \/ \E o \in ClaimOps :
         /\ GrantClaim(o, r)
         /\ cpRun'[r] = [state |-> "claimed", current |-> cpRun[r].current + 1]
    \/ \E q : /\ Servable(q) /\ Accepted(q) /\ (q \in UnderWay \/ q.action = "cancel")
              /\ q.attempt = CurrentAttempt(r) /\ CurrentAttempt(r) \in Attempts
              /\ cpRun[r].state \notin Settled
              /\ cpRun'[r] = [state |-> StateAfter(q.action, cpRun[r].state),
                              current |-> cpRun[r].current]

LEMMA RunStep ==
    ASSUME CpShape, NetShape, CpMoves, NEW r \in Runs
    PROVE  RunMoves(r)
<1> USE DEF RunMoves
<1>1. CpCases
  BY CpSplit
<1>2. CASE UNCHANGED cpRun
  BY <1>2
<1>3. ASSUME NEW s \in Runs, Admit(s)
      PROVE  \/ cpRun'[r] = cpRun[r]
             \/ cpRun[r].state = "none" /\ cpRun'[r] = [state |-> "pending", current |-> cpRun[r].current]
  <2>1. CASE s = r
    <3>1. cpRun'[r] = [cpRun[r] EXCEPT !.state = "pending"] /\ cpRun[r].state = "none"
      BY <1>3, <2>1 DEF Admit, CpShape
    <3>2. cpRun[r] \in RunRecord
      BY DEF CpShape
    <3> QED BY <3>1, <3>2 DEF RunRecord
  <2>2. CASE s # r
    BY <1>3, <2>2 DEF Admit, CpShape
  <2> QED BY <2>1, <2>2
<1>4. ASSUME NEW o \in ClaimOps, NEW s \in Runs, GrantClaim(o, s)
      PROVE  RunMoves(r)
  <2>1. cpRun' = [cpRun EXCEPT ![s] = [state |-> "claimed", current |-> cpRun[s].current + 1]]
    BY <1>4, GrantEffect
  <2>2. CASE s = r
    BY <1>4, <2>1, <2>2 DEF CpShape
  <2>3. CASE s # r
    BY <2>1, <2>3 DEF CpShape
  <2> QED BY <2>2, <2>3
<1>5. ASSUME NEW q, Servable(q), Accepted(q), q \in UnderWay \/ q.action = "cancel"
      PROVE  RunMoves(r)
  <2> DEFINE a == q.attempt
  <2>1. /\ a \in Attempts /\ a[1] \in Runs /\ FencePasses(q)
        /\ cpRun' = [cpRun EXCEPT ![a[1]] =
             [state |-> StateAfter(q.action, cpRun[a[1]].state), current |-> cpRun[a[1]].current]]
    BY <1>5, AttemptFacts DEF Accepted
  <2>2. CASE a[1] # r
    BY <2>1, <2>2 DEF CpShape
  <2>3. CASE a[1] = r
    <3>1. /\ cpRun'[r] = [state |-> StateAfter(q.action, cpRun[r].state), current |-> cpRun[r].current]
          /\ q.attempt = CurrentAttempt(r) /\ cpRun[r].state \notin Settled
      BY <2>1, <2>3 DEF CpShape, FencePasses
    <3> QED BY <1>5, <2>1, <3>1
  <2> QED BY <2>2, <2>3
<1> QED BY <1>1, <1>2, <1>3, <1>4, <1>5
        DEF CpCases, ServeCases, cpVars, CoordinatorTick, ReconcileExpiredAttempts

\* A request under way is one of the journal.
LEMMA UnderWayJournaled ==
    ASSUME JournalInv, NEW q \in UnderWay
    PROVE  q.attempt \in Attempts /\ Journaled(q.attempt, {q.action})
<1>1. q.attempt \in Attempts /\ Sent(q)
  BY DEF JournalInv, RequestsSent, LeaseInv, HostedInv, Shape, UnderWay, NetShape, CallRecord,
         Sendable, Requests
<1>2. PICK i \in DOMAIN journal[q.attempt] : RequestOf(q.attempt, journal[q.attempt][i]) = q
  BY <1>1 DEF Sent
<1>3. journal[q.attempt][i].action = q.action
  <2>1. RequestOf(q.attempt, journal[q.attempt][i]).action = journal[q.attempt][i].action
    BY DEF RequestOf, Request
  <2> QED BY <1>2, <2>1
<1> QED BY <1>1, <1>2, <1>3 DEF Journaled, Entries

LEMMA SettledStep ==
    ASSUME TruthInv, [Next]_vars
    PROVE  SettledOnItsWord'
<1>1. /\ JournalInv /\ CpShape /\ NetShape /\ CpMoves /\ SettledOnItsWord /\ JournalShape /\ JournalShape'
      /\ \A a \in Attempts : EntriesStay(a)
  BY InvParts, JournalStep, EntriesStep DEF TruthInv, JournalInv, LeaseInv, Parts
<1>2. \A a \in Attempts : \A actions : Journaled(a, actions) => Journaled(a, actions)'
  BY <1>1, EntriesKeep
<1>3. ASSUME NEW r \in Runs, NEW a, a = CurrentAttempt(r)'
      PROVE  /\ cpRun'[r].state \in {"completed", "rejected"} => a \in Attempts
             /\ cpRun'[r].state = "completed" => Journaled(a, {"complete"})'
             /\ cpRun'[r].state = "rejected" => Journaled(a, {"reject"})'
  <2>1. CASE cpRun'[r] = cpRun[r]
    <3>1. a = CurrentAttempt(r)
      BY <1>3, <2>1 DEF CurrentAttempt
    <3>2. cpRun[r].state \in {"completed", "rejected"} => a \in Attempts
      BY <1>1, <3>1 DEF SettledOnItsWord
    <3> QED BY <1>1, <1>2, <2>1, <3>1, <3>2 DEF SettledOnItsWord
  <2>2. CASE cpRun'[r].state \in {"pending", "claimed"}
    BY <2>2
  <2>3. ASSUME NEW q, Servable(q), q \in UnderWay \/ q.action = "cancel",
               q.attempt = CurrentAttempt(r), CurrentAttempt(r) \in Attempts,
               cpRun[r].state \notin Settled,
               cpRun'[r] = [state |-> StateAfter(q.action, cpRun[r].state), current |-> cpRun[r].current]
        PROVE  /\ a \in Attempts
               /\ cpRun'[r].state = "completed" => Journaled(a, {"complete"})'
               /\ cpRun'[r].state = "rejected" => Journaled(a, {"reject"})'
    <3>1. a = q.attempt /\ a \in Attempts
      BY <1>3, <2>3 DEF CurrentAttempt
    <3>2. /\ cpRun'[r].state = "completed" => q.action = "complete"
          /\ cpRun'[r].state = "rejected" => q.action = "reject"
      BY <2>3 DEF StateAfter, Settled
    <3>3. q.action \in {"complete", "reject"} => Journaled(a, {q.action})
      BY <1>1, <2>3, <3>1, UnderWayJournaled
    <3> QED BY <1>2, <3>1, <3>2, <3>3
  <2>4. RunMoves(r)
    BY <1>1, RunStep
  <2>5. CASE \E q : /\ Servable(q) /\ (q \in UnderWay \/ q.action = "cancel")
                    /\ q.attempt = CurrentAttempt(r) /\ CurrentAttempt(r) \in Attempts
                    /\ cpRun[r].state \notin Settled
                    /\ cpRun'[r] = [state |-> StateAfter(q.action, cpRun[r].state),
                                    current |-> cpRun[r].current]
    BY <2>3, <2>5
  <2> QED BY <2>1, <2>2, <2>4, <2>5 DEF RunMoves
<1> QED BY <1>3 DEF SettledOnItsWord, Journaled, Entries, CurrentAttempt

LEMMA TruthInvStep == TruthInv /\ [Next]_vars => TruthInv'
  BY JournalInvStep, WordsStep, ExecutesStep, SettledStep DEF TruthInv

LEMMA TruthInvInit == Init => TruthInv
<1> SUFFICES ASSUME Init PROVE TruthInv
  OBVIOUS
<1> USE DEF Init, CoordinatorInit, RunnerInit
<1>1. JournalInv
  BY JournalInvInit
<1>2. \A a \in Attempts : DOMAIN journal[a] = {}
  OBVIOUS
<1>3. CompletionsHappened /\ RejectionsHappened
  BY <1>2 DEF CompletionsHappened, RejectionsHappened, Journaled, Entries
<1>4. ImportedFirst /\ StartedRun /\ ExecutesStarted /\ SettledOnItsWord
  BY DEF ImportedFirst, StartedRun, ExecutesStarted, SettledOnItsWord
<1> QED BY <1>1, <1>3, <1>4 DEF TruthInv

\* A run the control plane settled as completed was started and finished by its
\* current attempt at the runner, and one it settled as rejected was never
\* started: the journal says no more than the runner did in the same
\* transaction, and the control plane takes no lifecycle request that the
\* runner did not journal.
THEOREM SettlementsAreTrue == Spec => []SettlementTellsTheTruth
<1>1. Spec => []TruthInv
  BY TruthInvInit, TruthInvStep, PTL DEF Spec
<1>2. TruthInv => SettlementTellsTheTruth
  <2> SUFFICES ASSUME TruthInv, NEW r \in Runs, NEW a, a = CurrentAttempt(r)
               PROVE  /\ cpRun[r].state = "completed" =>
                           /\ StartedAttempt(a)
                           /\ localAttempt[a].status = "completed"
                           /\ localRun[r].status = "done"
                      /\ cpRun[r].state = "rejected" =>
                           /\ ~StartedAttempt(a)
                           /\ Journaled(a, {"reject"})
                           /\ localAttempt[a].status \in {"none", "interrupted"}
    BY DEF SettlementTellsTheTruth
  <2>1. a[1] = r
    BY DEF CurrentAttempt
  <2> QED BY <2>1 DEF TruthInv, SettledOnItsWord, CompletionsHappened, RejectionsHappened
<1> QED BY <1>1, <1>2, PTL

----------------------------------------------------------------------------
(* The contract (HostedContract), step by step.                            *)

Verdict(r) == IF cpRun[r].state \in Settled THEN cpRun[r].state ELSE "open"
StartedOf(r) == {n \in 1..MaxAttempt : StartedAttempt(<<r, n>>)}

HandedOut == [r \in Runs |-> cpRun[r].current]
AllStarted == [r \in Runs |-> StartedOf(r)]
AllVerdicts == [r \in Runs |-> Verdict(r)]

HandsOut(r) ==
    /\ Verdict(r) = "open" /\ HandedOut[r] < MaxAttempt
    /\ HandedOut' = [HandedOut EXCEPT ![r] = HandedOut[r] + 1]
    /\ UNCHANGED <<AllStarted, AllVerdicts>>
Starts(r) ==
    /\ Verdict(r) \in {"open", "cancelled"} /\ HandedOut[r] > 0
    /\ HandedOut[r] \notin StartedOf(r)
    /\ AllStarted' = [AllStarted EXCEPT ![r] = StartedOf(r) \cup {HandedOut[r]}]
    /\ UNCHANGED <<HandedOut, AllVerdicts>>
Settles(r, v) ==
    /\ Verdict(r) = "open" /\ HandedOut[r] > 0
    /\ v = "completed" => HandedOut[r] \in StartedOf(r)
    /\ v = "rejected" => HandedOut[r] \notin StartedOf(r)
    /\ AllVerdicts' = [AllVerdicts EXCEPT ![r] = v]
    /\ UNCHANGED <<HandedOut, AllStarted>>
ContractStep ==
    \/ UNCHANGED <<HandedOut, AllStarted, AllVerdicts>>
    \/ \E r \in Runs : \/ HandsOut(r)
                       \/ Starts(r)
                       \/ \E v \in {"completed", "rejected", "cancelled"} : Settles(r, v)

LEMMA StartIsAllowed ==
    ASSUME TruthInv, [Next]_vars, AcquireStart
    PROVE  ContractStep
<1> DEFINE b == claimOp[op].attempt
           r == b[1]
<1>1. /\ LeaseInv /\ CpShape /\ LocalShape
      /\ pc = "starting" /\ HoldsLease(b, {"running"}) /\ ~claimOp[op].started
      /\ UNCHANGED cpVars
  BY DEF TruthInv, JournalInv, LeaseInv, HostedInv, Shape, AcquireStart
<1>2. /\ b \in Attempts /\ r \in Runs /\ b = <<r, b[2]>> /\ b[2] \in 1..MaxAttempt
      /\ ~StartedAttempt(b)
  BY <1>1, AtHand, AttemptFacts
<1>3. b[2] = cpRun[r].current /\ b = CurrentAttempt(r)
  <2>1. localAttempt[b].left > 0 /\ localAttempt[b].left <= cpAttempt[b].left
    BY <1>1, <1>2 DEF HoldsLease, LeaseInv, LocalLeaseWithinCloud
  <2>2. localAttempt[b].left \in Nat /\ cpAttempt[b].left \in Nat
    BY <1>1, <1>2 DEF CpShape, LocalShape, AttemptRecord, LocalAttemptRecord
  <2>3. b[2] = cpRun[r].current
    BY <1>1, <1>2, <2>1, <2>2 DEF LeaseInv, Numbered
  <2> QED BY <1>2, <2>3 DEF CurrentAttempt
<1>4. Verdict(r) \in {"open", "cancelled"}
  <2>1. cpRun[r].state # "completed"
    BY <1>2, <1>3 DEF TruthInv, SettledOnItsWord, CompletionsHappened
  <2>2. cpRun[r].state # "rejected"
    BY <1>1, <1>2, <1>3 DEF TruthInv, SettledOnItsWord, RejectionsHappened, HoldsLease
  <2> QED BY <2>1, <2>2 DEF Verdict, Settled
<1>5. \A s \in Runs : StartedOf(s)' = IF s = r THEN StartedOf(s) \cup {b[2]} ELSE StartedOf(s)
  <2>1. \A a \in Attempts : StartedAttempt(a)' <=> StartedAttempt(a) \/ a = b
    BY <1>1, StartsStep
  <2>2. \A s \in Runs, n \in 1..MaxAttempt : <<s, n>> = b <=> s = r /\ n = b[2]
    BY <1>2
  <2> QED BY <1>2, <2>1, <2>2, AttemptFacts DEF StartedOf
<1>6. HandedOut[r] = b[2] /\ HandedOut[r] \notin StartedOf(r)
  BY <1>2, <1>3 DEF HandedOut, StartedOf
<1>7. UNCHANGED <<HandedOut, AllVerdicts>>
  BY <1>1 DEF cpVars, HandedOut, AllVerdicts, Verdict
<1>8. AllStarted' = [AllStarted EXCEPT ![r] = StartedOf(r) \cup {HandedOut[r]}]
  BY <1>2, <1>5, <1>6 DEF AllStarted
<1>9. Starts(r)
  BY <1>2, <1>4, <1>6, <1>7, <1>8 DEF Starts
<1> QED BY <1>2, <1>9 DEF ContractStep

LEMMA SettlementIsAllowed ==
    ASSUME TruthInv, [Next]_vars, UNCHANGED AllStarted, NEW q, Servable(q), Accepted(q),
           q \in UnderWay \/ q.action = "cancel"
    PROVE  ContractStep
<1> DEFINE a == q.attempt
           r == a[1]
<1>1. CpShape /\ JournalInv
  BY DEF TruthInv, JournalInv, LeaseInv, HostedInv, Shape
<1>2. /\ a \in Attempts /\ r \in Runs /\ a = <<r, a[2]>> /\ a[2] = cpRun[r].current
      /\ a[2] \in 1..MaxAttempt /\ cpRun[r].state \notin Settled /\ q.action \in Actions
      /\ cpRun' = [cpRun EXCEPT ![r] =
             [state |-> StateAfter(q.action, cpRun[r].state), current |-> cpRun[r].current]]
  BY AttemptFacts DEF Accepted, FencePasses, Servable, Requests
<1>3. UNCHANGED HandedOut
  BY <1>1, <1>2 DEF HandedOut, CpShape
<1>4. \A s \in Runs : Verdict(s)' = IF s = r /\ q.action \in {"complete", "reject", "cancel"}
                                    THEN StateAfter(q.action, "open") ELSE Verdict(s)
  <2>1. \A s \in Runs : s # r => Verdict(s)' = Verdict(s)
    BY <1>1, <1>2 DEF CpShape, Verdict
  <2>2. cpRun'[r].state = StateAfter(q.action, cpRun[r].state)
    BY <1>1, <1>2 DEF CpShape
  <2> QED BY <1>2, <2>1, <2>2 DEF Verdict, StateAfter, Actions, Settled
<1>5. CASE q.action \notin {"complete", "reject", "cancel"}
  BY <1>3, <1>4, <1>5 DEF ContractStep, AllVerdicts
<1>6. CASE q.action \in {"complete", "reject", "cancel"}
  <2> DEFINE v == StateAfter(q.action, "open")
  <2>1. /\ v \in {"completed", "rejected", "cancelled"}
        /\ v = "completed" <=> q.action = "complete"
        /\ v = "rejected" <=> q.action = "reject"
    BY <1>6 DEF StateAfter
  <2>2. AllVerdicts' = [AllVerdicts EXCEPT ![r] = v]
    BY <1>4, <1>6 DEF AllVerdicts
  <2>3. HandedOut[r] = a[2] /\ HandedOut[r] > 0 /\ Verdict(r) = "open"
    BY <1>2 DEF HandedOut, Verdict
  <2>4. HandedOut[r] \in StartedOf(r) <=> StartedAttempt(a)
    BY <1>2, <2>3 DEF StartedOf
  <2>5. q.action \in {"complete", "reject"} => Journaled(a, {q.action})
    BY <1>1, UnderWayJournaled
  <2>6. /\ q.action = "complete" => StartedAttempt(a)
        /\ q.action = "reject" => ~StartedAttempt(a)
    BY <1>2, <2>5 DEF TruthInv, CompletionsHappened, RejectionsHappened
  <2> HIDE DEF v
  <2>7. Settles(r, v)
    BY <1>3, <2>1, <2>2, <2>3, <2>4, <2>6, UNCHANGED AllStarted DEF Settles
  <2> QED BY <1>2, <2>1, <2>7 DEF ContractStep
<1> QED BY <1>5, <1>6

LEMMA StepIsAllowed ==
    ASSUME TruthInv, [Next]_vars
    PROVE  ContractStep
<1>1. LeaseInv /\ CpShape /\ NetShape /\ CpCases
  BY InvParts, CpSplit DEF TruthInv, JournalInv, LeaseInv, Parts
<1>2. CASE AcquireStart
  BY <1>2, StartIsAllowed
<1>3. CASE ~AcquireStart
  <2>1. UNCHANGED AllStarted
    <3>1. \A a \in Attempts : StartedAttempt(a)' <=> StartedAttempt(a)
      BY <1>1, <1>3, StartsStep
    <3>2. \A r \in Runs : StartedOf(r)' = StartedOf(r)
      BY <3>1, AttemptFacts DEF StartedOf
    <3> QED BY <3>2 DEF AllStarted
  <2>2. ASSUME \A r \in Runs : cpRun'[r].current = cpRun[r].current /\ Verdict(r)' = Verdict(r)
        PROVE  ContractStep
    BY <2>1, <2>2 DEF ContractStep, HandedOut, AllVerdicts
  <2>3. CASE UNCHANGED cpRun
    BY <2>2, <2>3 DEF Verdict
  <2>4. ASSUME NEW r \in Runs, Admit(r) PROVE ContractStep
    <3>1. \A s \in Runs : /\ cpRun'[s].current = cpRun[s].current
                          /\ \/ cpRun'[s].state = cpRun[s].state
                             \/ cpRun[s].state = "none" /\ cpRun'[s].state = "pending"
      BY <1>1, <2>4 DEF Admit, CpShape, RunRecord
    <3> QED BY <2>2, <3>1 DEF Verdict, Settled
  <2>5. ASSUME NEW o \in ClaimOps, NEW r \in Runs, GrantClaim(o, r) PROVE ContractStep
    <3> DEFINE n == cpRun[r].current + 1
    <3>1. /\ n \in 1..MaxAttempt /\ Claimable(r)
          /\ cpRun' = [cpRun EXCEPT ![r] = [state |-> "claimed", current |-> n]]
      BY <1>1, <2>5, GrantEffect
    <3>2. cpRun[r].state \notin Settled /\ Verdict(r) = "open"
      BY <3>1 DEF Claimable, Verdict
    <3>3. \A s \in Runs : cpRun'[s] = IF s = r THEN [state |-> "claimed", current |-> n] ELSE cpRun[s]
      BY <1>1, <3>1 DEF CpShape
    <3>4. UNCHANGED AllVerdicts
      <4>1. \A s \in Runs : Verdict(s)' = Verdict(s)
        BY <3>2, <3>3 DEF Verdict, Settled
      <4> QED BY <4>1 DEF AllVerdicts
    <3>5. HandedOut' = [HandedOut EXCEPT ![r] = HandedOut[r] + 1]
      <4>1. /\ HandedOut[r] = cpRun[r].current
            /\ \A s \in Runs : cpRun'[s].current = IF s = r THEN cpRun[r].current + 1
                                                          ELSE cpRun[s].current
        BY <3>3 DEF HandedOut
      <4> QED BY <4>1 DEF HandedOut
    <3>6. HandedOut[r] < MaxAttempt
      <4>1. cpRun[r].current \in 0..MaxAttempt
        BY <1>1 DEF CpShape, RunRecord
      <4> QED BY <3>1, <4>1, AttemptFacts DEF HandedOut
    <3>7. HandsOut(r)
      BY <2>1, <3>2, <3>4, <3>5, <3>6 DEF HandsOut
    <3> QED BY <3>7 DEF ContractStep
  <2>6. ASSUME NEW q, Servable(q), Accepted(q), q \in UnderWay \/ q.action = "cancel"
        PROVE  ContractStep
    BY <2>1, <2>6, SettlementIsAllowed
  <2> QED BY <1>1, <2>3, <2>4, <2>5, <2>6
          DEF CpCases, ServeCases, cpVars, CoordinatorTick, ReconcileExpiredAttempts
<1> QED BY <1>2, <1>3

\* The control plane, the network and the runner together implement the
\* contract: attempts are handed out in order, only the newest one starts and
\* starts once, and a run is settled once, by what really happened.
THEOREM HostedContractKept == Spec => KeepsHostedContract
<1>1. Spec => []TruthInv
  BY TruthInvInit, TruthInvStep, PTL DEF Spec
<1>2. Init => Contract!Init
  <2> SUFFICES ASSUME Init PROVE Contract!Init
    OBVIOUS
  <2>1. \A r \in Runs : cpRun[r].current = 0 /\ cpRun[r].state \notin Settled
    BY DEF Init, CoordinatorInit, Settled
  <2>2. \A a : ~StartedAttempt(a)
    BY DEF Init, RunnerInit, StartedAttempt, ImportedBy
  <2> QED BY <2>1, <2>2 DEF Contract!Init
<1>3. TruthInv /\ [Next]_vars => [Contract!Next]_(Contract!contractVars)
  <2> SUFFICES ASSUME TruthInv, [Next]_vars PROVE [Contract!Next]_(Contract!contractVars)
    OBVIOUS
  <2> USE DEF HandedOut, AllStarted, AllVerdicts, StartedOf, Verdict
  <2>1. ContractStep
    BY StepIsAllowed
  <2>2. ASSUME NEW r \in Runs, HandsOut(r) PROVE Contract!HandOut(r)
    BY <2>2 DEF HandsOut, Contract!HandOut
  <2>3. ASSUME NEW r \in Runs, Starts(r) PROVE Contract!Start(r)
    BY <2>3 DEF Starts, Contract!Start
  <2>4. ASSUME NEW r \in Runs, NEW v \in {"completed", "rejected", "cancelled"}, Settles(r, v)
        PROVE  Contract!Settle(r, v) /\ v \in Contract!Verdicts \ {"open"}
    BY <2>4 DEF Settles, Contract!Settle, Contract!Verdicts
  <2>5. CASE UNCHANGED <<HandedOut, AllStarted, AllVerdicts>>
    BY <2>5 DEF Contract!contractVars
  <2> QED BY <2>1, <2>2, <2>3, <2>4, <2>5 DEF ContractStep, Contract!Next
<1> QED BY <1>1, <1>2, <1>3, PTL DEF Spec, KeepsHostedContract, Contract!Spec
=============================================================================
