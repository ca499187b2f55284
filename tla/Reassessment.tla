---------------------------- MODULE Reassessment ----------------------------
(***************************************************************************)
(* Durable reassessment obligations (repository.ts, reassessment_obliga-   *)
(* tions; docs/adr/0002) and the workers that drain them                   *)
(* (reassessment-obligations.ts, reassessment-processor.ts).  A fact about *)
(* a work thread commits together with the obligation to reassess it.  A   *)
(* worker claims an obligation under a lease, runs the assessment,         *)
(* promotes a follow-up or dispatches a continuation, and then satisfies,  *)
(* reschedules or blocks the obligation, if it still holds the lease.      *)
(*                                                                         *)
(* The facts here are those of one work thread: results of its runs, and   *)
(* versions (digests) of other sources.  Assessments need the completion   *)
(* contract of the thread (completion-governance.ts), which the first      *)
(* result of a run brings about; until then the obligation of another fact *)
(* ends without one.  The lease token is the worker: a worker works on one *)
(* obligation at a time.  A promotion (FollowUps) or a continuation        *)
(* appears as its answer.                                                  *)
(***************************************************************************)
EXTENDS Naturals

CONSTANTS
    Facts,          \* facts, each with an obligation of its own
    RunResults,     \* those that are results of runs
    Workers,        \* draining workers
    MaxTries,       \* after as many a failed obligation is blocked
    WorkLease       \* ticks of a lease

ASSUME ReassessmentAssumption ==
    /\ RunResults \subseteq Facts
    /\ MaxTries \in Nat \ {0}
    /\ WorkLease \in Nat \ {0}

VARIABLES
    facts,          \* facts recorded
    obligation,     \* reassessment_obligations, one per fact
    contract,       \* has the thread a completion contract?
    covered,        \* facts some committed assessment has read
    worker,         \* what each worker is at
    calm            \* has the last fault been? (see NoMoreFaults)

reassessVars == <<facts, obligation, contract, covered, worker, calm>>

NoFact == <<>>
\* A worker is told from the absence of one.
ASSUME WorkersAreNamed == NoFact \notin Workers

Resting == [at |-> "rest", on |-> NoFact, saw |-> {}, result |-> "none"]

ReassessInit ==
    /\ facts = {}
    /\ obligation = [f \in Facts |->
         [state |-> "none", due |-> FALSE, holder |-> NoFact, left |-> 0,
          tries |-> 0]]
    /\ contract = FALSE
    /\ covered = {}
    /\ worker = [w \in Workers |-> Resting]
    /\ calm = FALSE

WorkStages == {"rest", "load", "assess", "dispatch", "renew", "settle"}
Results == {"done", "deferred", "human", "failed"}

ReassessmentTypeOK ==
    /\ facts \subseteq Facts /\ covered \subseteq facts
    /\ contract \in BOOLEAN
    /\ DOMAIN obligation = Facts
    /\ \A f \in Facts :
         /\ obligation[f].state \in
              {"none", "pending", "leased", "satisfied", "blocked"}
         /\ obligation[f].due \in BOOLEAN
         /\ obligation[f].holder \in Workers \union {NoFact}
         /\ obligation[f].holder \in Workers <=> obligation[f].state = "leased"
         /\ obligation[f].left \in 0..WorkLease
         /\ obligation[f].tries \in 0..MaxTries
    /\ \A w \in Workers :
         /\ worker[w].at \in WorkStages
         /\ worker[w].on \in Facts \union {NoFact}
         /\ worker[w].saw \subseteq facts
         /\ worker[w].result \in Results \union {"none"}
    /\ calm \in BOOLEAN

----------------------------------------------------------------------------
\* (fault) One obligation serves every fact of its source.
SourceOwes(f) == \E g \in Facts : obligation[g].state # "none"

\* The obligation a fact brings is identified by the fact itself; keyed by the
\* source alone, a second fact would find the first one's.
Owes(f) == obligation[f].state # "none"

\* A fact commits with its obligation.
RecordFact(f) ==
    /\ f \notin facts
    /\ facts' = facts \union {f}
    /\ obligation' = IF Owes(f) THEN obligation
                     ELSE [obligation EXCEPT ![f].state = "pending", ![f].due = TRUE]
    /\ UNCHANGED <<contract, covered, worker, calm>>

BecomesDue(f) ==
    /\ obligation[f].state = "pending" /\ ~obligation[f].due
    /\ obligation' = [obligation EXCEPT ![f].due = TRUE]
    /\ UNCHANGED <<facts, contract, covered, worker, calm>>

Lower(a, b) == IF a < b THEN a ELSE b

\* Pending and due, or leased to a worker whose lease ran out.
\* (fault) An expired lease is not taken over.
WorkPending(f) == obligation[f].state = "pending" /\ obligation[f].due
WorkOpen(f) ==
    \/ WorkPending(f)
    \/ obligation[f].state = "leased" /\ obligation[f].left = 0

\* (Tries are only compared with MaxTries, and counted up to it.)
ClaimObligation(w, f) ==
    /\ worker[w].at = "rest"
    /\ WorkOpen(f)
    /\ obligation' = [obligation EXCEPT ![f] =
         [@ EXCEPT !.state = "leased", !.holder = w, !.left = WorkLease,
                   !.tries = Lower(obligation[f].tries + 1, MaxTries)]]
    /\ worker' = [worker EXCEPT ![w] = [Resting EXCEPT !.at = "load", !.on = f]]
    /\ UNCHANGED <<facts, contract, covered, calm>>

To(w, stage) == worker' = [worker EXCEPT ![w].at = stage]
With(w, stage, result) ==
    worker' = [worker EXCEPT ![w].at = stage, ![w].result = result]

\* A run's result brings the contract about.  Under a contract the assessment
\* begins and reads the facts there are; without one there is none, and the
\* worker goes on to what follows it.
FindContract(w) ==
    /\ contract' = (contract \/ worker[w].on \in RunResults)
    /\ IF contract'
       THEN worker' = [worker EXCEPT ![w].at = "assess", ![w].saw = facts]
       ELSE To(w, "dispatch")

\* The source of the fact is loaded, and the contract of its thread; if the
\* source is missing, the obligation needs a human.
LoadSource(w) ==
    /\ worker[w].at = "load"
    /\ \/ FindContract(w)
       \/ With(w, "renew", "human") /\ UNCHANGED contract
    /\ UNCHANGED <<facts, obligation, covered, calm>>

\* The assessment commits.  (One that finds another committed since it read,
\* reads again: it only covers more.)
FinishAssessment(w) ==
    /\ worker[w].at = "assess"
    /\ covered' = covered \union worker[w].saw
    /\ worker' = [worker EXCEPT ![w].at = "dispatch", ![w].saw = {}]
    /\ UNCHANGED <<facts, obligation, contract, calm>>

\* The handler that completes a run, too, brings the contract about and
\* assesses, and others assess under a contract.  Theirs is one step, where
\* they read the facts: it stands for an assessment that commits later as well,
\* or never.
AssessElsewhere ==
    /\ contract \/ facts \intersect RunResults # {}
    /\ contract' = TRUE
    /\ covered' \in {covered, covered \union facts}
    /\ UNCHANGED <<facts, obligation, worker, calm>>

\* A follow-up is promoted or a continuation dispatched, or there is none to
\* dispatch; or the continuation is for later, or for a human to decide.
Dispatch(w) ==
    /\ worker[w].at = "dispatch"
    /\ \E result \in {"done", "deferred", "human"} : With(w, "renew", result)
    /\ UNCHANGED <<facts, obligation, contract, covered, calm>>

\* The processing throws.
ProcessFails(w) ==
    /\ worker[w].at \in {"load", "assess", "dispatch"}
    /\ worker' = [worker EXCEPT ![w] =
         [Resting EXCEPT !.at = "settle", !.on = worker[w].on, !.result = "failed"]]
    /\ UNCHANGED <<facts, obligation, contract, covered, calm>>

HoldsWork(w) ==
    LET row == obligation[worker[w].on] IN
    row.state = "leased" /\ row.holder = w /\ row.left > 0

Renewed(w) == [obligation EXCEPT ![worker[w].on].left = WorkLease]

\* A timer renews the lease while the work goes on.
RenewWork(w) ==
    /\ worker[w].at \in {"load", "assess", "dispatch", "renew"}
    /\ HoldsWork(w)
    /\ obligation' = Renewed(w)
    /\ UNCHANGED <<facts, contract, covered, worker, calm>>

\* The work done, the lease is renewed once more: a worker that lost it leaves
\* the obligation as it is.
LastRenewal(w) ==
    /\ worker[w].at = "renew"
    /\ IF HoldsWork(w)
       THEN obligation' = Renewed(w) /\ To(w, "settle")
       ELSE worker' = [worker EXCEPT ![w] = Resting] /\ UNCHANGED obligation
    /\ UNCHANGED <<facts, contract, covered, calm>>

\* Failed work is tried again later, up to the last try.
Verdict(result, tries) ==
    CASE result = "done" -> "satisfied"
      [] result = "deferred" -> "pending"
      [] result = "human" -> "blocked"
      [] result = "failed" -> IF tries >= MaxTries THEN "blocked" ELSE "pending"

\* (fault) The lease token is not compared.
MaySettleUnfenced(w) == obligation[worker[w].on].state = "leased"
MaySettle(w) == HoldsWork(w)

Settle(w) ==
    /\ worker[w].at = "settle"
    /\ LET f == worker[w].on
           verdict == Verdict(worker[w].result, obligation[f].tries) IN
       obligation' = IF MaySettle(w)
         THEN [obligation EXCEPT ![f] =
                 [@ EXCEPT !.state = verdict, !.due = FALSE, !.holder = NoFact, !.left = 0]]
         ELSE obligation
    /\ worker' = [worker EXCEPT ![w] = Resting]
    /\ UNCHANGED <<facts, contract, covered, calm>>

\* (Without faults the renewal timer is in time: the lease of a worker at its
\* work does not run out.)
InTime(f) == calm /\ \E w \in Workers :
    worker[w].at # "rest" /\ worker[w].on = f /\ HoldsWork(w)

WorkTick ==
    LET Lapsing == {f \in Facts : obligation[f].left > 0 /\ ~InTime(f)} IN
    /\ Lapsing # {}
    /\ obligation' = [f \in Facts |-> [obligation[f] EXCEPT
                        !.left = IF f \in Lapsing THEN @ - 1 ELSE @]]
    /\ UNCHANGED <<facts, contract, covered, worker, calm>>

\* A worker's process stops: what it was at is gone.
WorkerStops(w) ==
    /\ ~calm /\ worker[w].at # "rest"
    /\ worker' = [worker EXCEPT ![w] = Resting]
    /\ UNCHANGED <<facts, obligation, contract, covered, calm>>

\* From some time on no process stops and no lease is lost to a worker at its
\* work.  Nothing says that this time comes.
NoMoreFaults ==
    /\ calm' = TRUE
    /\ UNCHANGED <<facts, obligation, contract, covered, worker>>

Work(w) ==
    \/ LoadSource(w) \/ FinishAssessment(w) \/ Dispatch(w)
    \/ LastRenewal(w) \/ Settle(w)

ReassessNext ==
    \/ \E f \in Facts : RecordFact(f) \/ BecomesDue(f)
    \/ \E w \in Workers :
         \/ \E f \in Facts : ClaimObligation(w, f)
         \/ Work(w) \/ ProcessFails(w) \/ RenewWork(w) \/ WorkerStops(w)
    \/ AssessElsewhere
    \/ WorkTick
    \/ NoMoreFaults

ReassessSpec == ReassessInit /\ [][ReassessNext]_reassessVars

----------------------------------------------------------------------------
\* No fact is forgotten: each one recorded has been read by an assessment that
\* committed, or its obligation is still open, or waits for a human; also when
\* it arrives while an earlier fact is being assessed.  The one exception: the
\* obligation of a fact that came before the contract may end unread, but then
\* the first assessment of the thread, and whatever is under way, reads it.
ReadFirst(f) ==
    /\ covered = {}
    /\ \A w \in Workers : worker[w].at = "assess" => f \in worker[w].saw

NoFactForgotten ==
    \A f \in facts :
        \/ f \in covered \/ obligation[f].state \in {"pending", "leased", "blocked"}
        \/ ReadFirst(f)

\* Once the faults are over, the facts are in the end all read by an assessment
\* or brought to a human, whatever the workers that died left leased; unless no
\* assessment was ever made, every run's result, if any, waiting for a human.
Blocked(f) == obligation[f].state = "blocked"
FactsAreRead ==
    []<>(calm => \/ \A f \in facts : f \in covered \/ Blocked(f)
                 \/ covered = {} /\ \A f \in facts \intersect RunResults : Blocked(f))

\* An obligation settles only in the step that ends the work of the worker that
\* claimed it last, and what is satisfied or blocked stays so: a worker that
\* lost its lease settles nothing.
FencedSettlement ==
    [][\A f \in Facts :
         /\ obligation[f].state \in {"satisfied", "blocked"} =>
              obligation'[f] = obligation[f]
         /\ obligation[f].state = "leased" /\ obligation'[f].state # "leased" =>
              LET w == obligation[f].holder IN
              worker[w].on = f /\ worker'[w] = Resting]_reassessVars
=============================================================================
