------------------------------ MODULE JobQueue ------------------------------
(***************************************************************************)
(* Control-plane jobs: a durable queue (jobs/index.ts, cp_job) and the     *)
(* workers that run one job at a time (jobs/worker.ts).  A claim counts an *)
(* attempt and leases the job; its worker runs the handler and settles the *)
(* job under the lease; a lease that ran out is claimed again, until the   *)
(* attempts are exhausted.  The calls to the database can fail before or   *)
(* after they commit, and a worker can stop anywhere.                      *)
(*                                                                         *)
(* The lease token of a claim is fresh; it is represented by the number of *)
(* the attempt, which is as unique.                                        *)
(***************************************************************************)
EXTENDS Naturals

CONSTANTS
    Jobs,           \* job ids
    JobWorkers,     \* workers
    JobAttempts,    \* max_attempts of a job
    JobLease        \* ticks of a lease

ASSUME JobQueueAssumption ==
    JobAttempts \in Nat \ {0} /\ JobLease \in Nat \ {0}

VARIABLES
    job,            \* cp_job
    settlement,     \* cp_job_settlement
    jobWorker,      \* what each worker is at
    handled         \* history: attempts whose handler ran to its end

jobVars == <<job, settlement, jobWorker, handled>>

NoToken == 0
Unsettled == [token |-> NoToken, good |-> FALSE]
NoJob == [state |-> "none", due |-> FALSE, tries |-> 0, token |-> NoToken, left |-> 0]
Free == [at |-> "free", on |-> <<>>, token |-> NoToken, retry |-> FALSE]

JobInit ==
    /\ job = [j \in Jobs |-> NoJob]
    /\ settlement = [j \in Jobs |-> Unsettled]
    /\ jobWorker = [w \in JobWorkers |-> Free]
    /\ handled = {}

Tokens == 0..JobAttempts

JobQueueTypeOK ==
    /\ job \in [Jobs -> [state : {"none", "pending", "claimed", "succeeded", "failed"},
                         due : BOOLEAN, tries : 0..JobAttempts, token : Tokens,
                         left : 0..JobLease]]
    /\ \A j \in Jobs : job[j].token # NoToken <=> job[j].state = "claimed"
    /\ settlement \in [Jobs -> [token : Tokens, good : BOOLEAN]]
    /\ \A w \in JobWorkers :
         /\ jobWorker[w].at \in {"free", "handle", "succeed", "fail", "settled", "failed"}
         /\ jobWorker[w].at # "free" => jobWorker[w].on \in Jobs
    /\ handled \subseteq Jobs \X Tokens

----------------------------------------------------------------------------
\* A job is inserted once; a second command finds the first one's row.
EnqueueJob(j) ==
    /\ job[j].state = "none"
    /\ job' = [job EXCEPT ![j].state = "pending", ![j].due = TRUE]
    /\ UNCHANGED <<settlement, jobWorker, handled>>

JobBecomesDue(j) ==
    /\ job[j].state = "pending" /\ ~job[j].due
    /\ job' = [job EXCEPT ![j].due = TRUE]
    /\ UNCHANGED <<settlement, jobWorker, handled>>

LapsedJob(j) == job[j].state = "claimed" /\ job[j].left = 0
\* (fault) A job out of attempts is left as it is.
NeverExhausted(j) == FALSE
Exhausted(j) == LapsedJob(j) /\ job[j].tries >= JobAttempts
Candidate(j) ==
    /\ job[j].tries < JobAttempts
    /\ LapsedJob(j) \/ (job[j].state = "pending" /\ job[j].due)

\* (fault) The lease token is not cleared.
UnleasedOnly(j, state) ==
    [job[j] EXCEPT !.state = state, !.due = FALSE, !.left = 0]
Unleased(j, state) ==
    [job[j] EXCEPT !.state = state, !.due = FALSE, !.token = NoToken, !.left = 0]

\* A claim first fails the exhausted jobs, which leaves no settlement, and then
\* leases a candidate.
Claim(claimed) ==
    [j \in Jobs |->
        IF j \in claimed
        THEN [job[j] EXCEPT !.state = "claimed", !.tries = @ + 1,
                            !.token = job[j].tries + 1, !.left = JobLease]
        ELSE IF Exhausted(j) THEN Unleased(j, "failed") ELSE job[j]]

ClaimJob(w) ==
    /\ jobWorker[w].at = "free"
    /\ \/ \E j \in Jobs :
            /\ Candidate(j)
            /\ job' = Claim({j})
            /\ jobWorker' = [jobWorker EXCEPT ![w] =
                 [at |-> "handle", on |-> j, token |-> job[j].tries + 1, retry |-> FALSE]]
       \/ /\ \A j \in Jobs : ~Candidate(j)
          /\ job' = Claim({})
          /\ UNCHANGED jobWorker
    /\ UNCHANGED <<settlement, handled>>

WorkerTo(w, stage) == jobWorker' = [jobWorker EXCEPT ![w].at = stage]
Mine(w) == <<jobWorker[w].on, jobWorker[w].token>>

\* The handler returns, or throws, so that the job is or is not to be retried;
\* a job of an unsupported kind is not.
HandlerReturns(w) ==
    /\ jobWorker[w].at = "handle"
    /\ handled' = handled \union {Mine(w)}
    /\ WorkerTo(w, "succeed")
    /\ UNCHANGED <<job, settlement>>

HandlerThrows(w) ==
    /\ jobWorker[w].at = "handle"
    /\ \E retry \in BOOLEAN :
         jobWorker' = [jobWorker EXCEPT ![w].at = "fail", ![w].retry = retry]
    /\ UNCHANGED <<job, settlement, handled>>

\* (fault) The lease token is not compared.
HoldsAnyToken(w) ==
    LET row == job[jobWorker[w].on] IN
    row.state = "claimed" /\ row.left > 0
HoldsJob(w) ==
    LET row == job[jobWorker[w].on] IN
    row.state = "claimed" /\ row.token = jobWorker[w].token /\ row.left > 0

\* succeed settles the job; an error of the call, before or after its commit,
\* is taken for an error of the handler.
Settles(w, good) ==
    /\ job' = [job EXCEPT ![jobWorker[w].on] =
                 Unleased(jobWorker[w].on, IF good THEN "succeeded" ELSE "failed")]
    /\ settlement' = [settlement EXCEPT ![jobWorker[w].on] =
                        [token |-> jobWorker[w].token, good |-> good]]

Succeed(w) ==
    /\ jobWorker[w].at = "succeed"
    /\ \/ HoldsJob(w) /\ Settles(w, TRUE)
       \/ ~HoldsJob(w) /\ UNCHANGED <<job, settlement>>
    /\ \/ WorkerTo(w, IF HoldsJob(w) THEN "settled" ELSE "failed")
       \/ jobWorker' = [jobWorker EXCEPT ![w].at = "fail", ![w].retry = TRUE]
    /\ UNCHANGED handled

SucceedFails(w) ==
    /\ jobWorker[w].at = "succeed"
    /\ jobWorker' = [jobWorker EXCEPT ![w].at = "fail", ![w].retry = TRUE]
    /\ UNCHANGED <<job, settlement, handled>>

\* fail puts the job back for another attempt, or settles it as failed.
Fail(w) ==
    LET j == jobWorker[w].on
        again == jobWorker[w].retry /\ job[j].tries < JobAttempts IN
    /\ jobWorker[w].at = "fail"
    /\ \/ /\ HoldsJob(w) /\ again
          /\ job' = [job EXCEPT ![j] = Unleased(j, "pending")]
          /\ UNCHANGED settlement
       \/ HoldsJob(w) /\ ~again /\ Settles(w, FALSE)
       \/ ~HoldsJob(w) /\ UNCHANGED <<job, settlement>>
    /\ WorkerTo(w, "failed")
    /\ UNCHANGED handled

\* The worker goes on with its loop, or it stops and is started again.
NextJob(w) ==
    /\ jobWorker[w].at # "free"
    /\ jobWorker' = [jobWorker EXCEPT ![w] = Free]
    /\ UNCHANGED <<job, settlement, handled>>

JobTick ==
    /\ \E j \in Jobs : job[j].left > 0
    /\ job' = [j \in Jobs |-> [job[j] EXCEPT !.left = IF @ > 0 THEN @ - 1 ELSE 0]]
    /\ UNCHANGED <<settlement, jobWorker, handled>>

JobNext ==
    \/ \E j \in Jobs : EnqueueJob(j) \/ JobBecomesDue(j)
    \/ \E w \in JobWorkers :
         \/ ClaimJob(w) \/ HandlerReturns(w) \/ HandlerThrows(w)
         \/ Succeed(w) \/ SucceedFails(w) \/ Fail(w) \/ NextJob(w)
    \/ JobTick

JobSpec == JobInit /\ [][JobNext]_jobVars

----------------------------------------------------------------------------
\* A job settles once, for its last claim, and its settlement tells what the
\* handler of that claim did: good only if it ran to its end, and never for a
\* job whose row says otherwise; whoever came late settled nothing.
SettledForItsLastClaim ==
    \A j \in Jobs :
        /\ settlement[j].token # NoToken =>
             /\ settlement[j].token = job[j].tries
             /\ job[j].state = IF settlement[j].good THEN "succeeded" ELSE "failed"
        /\ job[j].state = "succeeded" =>
             <<j, settlement[j].token>> \in handled /\ settlement[j].good

\* The jobs all end, even if every worker stops in the middle of every attempt.
JobsEnd ==
    []<>(\A j \in Jobs : job[j].state \notin {"pending", "claimed"})
=============================================================================
