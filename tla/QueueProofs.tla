----------------------------- MODULE QueueProofs -----------------------------
(* Proofs about the durable queues beside the run ledger: the jobs of the      *)
(* control plane, the reassessment obligations, the follow-up requests and the *)
(* projection outbox.                                                          *)
EXTENDS FollowUps, Reassessment, ProjectionOutbox, JobQueue, TLAPS

-----------------------------------------------------------------------------
(* Jobs *)

JobState == {"none", "pending", "claimed", "succeeded", "failed"}
JobRecord == [state : JobState, due : BOOLEAN, tries : 0..JobAttempts, token : Tokens, left : 0..JobLease]
SettlementRecord == [token : Tokens, good : BOOLEAN]
WorkerRecord ==
    [at : {"free", "handle", "succeed", "fail", "settled", "failed"}, on : Jobs \union {<<>>},
     token : Tokens, retry : BOOLEAN]

JobShape ==
    /\ job \in [Jobs -> JobRecord]
    /\ settlement \in [Jobs -> SettlementRecord]
    /\ jobWorker \in [JobWorkers -> WorkerRecord]
    /\ \A w \in JobWorkers : jobWorker[w].at # "free" => jobWorker[w].on \in Jobs
    /\ handled \subseteq Jobs \X Tokens

\* The token of a claimed job is the number of its attempt, and a worker that
\* says it succeeded ran the handler of its attempt to the end.
JobInv ==
    /\ JobShape
    /\ \A j \in Jobs :
         /\ job[j].token # NoToken <=> job[j].state = "claimed"
         /\ job[j].state = "claimed" => job[j].token = job[j].tries
    /\ \A w \in JobWorkers : jobWorker[w].at = "succeed" => Mine(w) \in handled
    /\ SettledForItsLastClaim

\* What a step may do to a job: nothing but let time pass, put it in the queue,
\* claim it, take its lease away unsettled, or settle it for its last claim.
JobKept(j) ==
    /\ job'[j].state = job[j].state \/ (job[j].state = "none" /\ job'[j].state = "pending")
    /\ job'[j].tries = job[j].tries /\ job'[j].token = job[j].token
    /\ settlement'[j] = settlement[j]
JobClaimed(j) ==
    /\ job[j].state \in {"pending", "claimed"} /\ job'[j].state = "claimed"
    /\ job'[j].tries = job[j].tries + 1 /\ job'[j].token = job[j].tries + 1
    /\ settlement'[j] = settlement[j]
JobUnleased(j) ==
    /\ job[j].state = "claimed" /\ job'[j].state \in {"pending", "failed"}
    /\ job'[j].tries = job[j].tries /\ job'[j].token = NoToken
    /\ settlement'[j] = settlement[j]
JobSettled(j) ==
    /\ job[j].state = "claimed"
    /\ job'[j].tries = job[j].tries /\ job'[j].token = NoToken
    /\ settlement'[j].token = job[j].token
    /\ job'[j].state = IF settlement'[j].good THEN "succeeded" ELSE "failed"
    /\ settlement'[j].good => <<j, job[j].token>> \in handled
JobMoves(j) == JobKept(j) \/ JobClaimed(j) \/ JobUnleased(j) \/ JobSettled(j)

\* One row of a table is written, and the others stay.
LEMMA OneJob ==
    ASSUME JobShape, NEW j \in Jobs, NEW new \in JobRecord, job' = [job EXCEPT ![j] = new]
    PROVE  job' \in [Jobs -> JobRecord] /\ \A i \in Jobs : job'[i] = IF i = j THEN new ELSE job[i]
BY DEF JobShape

LEMMA UnleasedRow ==
    ASSUME JobShape, NEW j \in Jobs, NEW s \in JobState
    PROVE  /\ Unleased(j, s) \in JobRecord /\ Unleased(j, s).state = s
           /\ Unleased(j, s).tries = job[j].tries /\ Unleased(j, s).token = NoToken
<1>1. job[j] \in JobRecord /\ NoToken \in Tokens /\ 0 \in 0..JobLease
  BY JobQueueAssumption DEF JobShape, NoToken, Tokens
<1> QED BY <1>1 DEF Unleased, JobRecord

LEMMA SettlesMoves ==
    ASSUME JobInv, NEW w \in JobWorkers, jobWorker[w].at # "free", HoldsJob(w), NEW good \in BOOLEAN,
           good => jobWorker[w].at = "succeed", Settles(w, good)
    PROVE  /\ job' \in [Jobs -> JobRecord] /\ settlement' \in [Jobs -> SettlementRecord]
           /\ \A i \in Jobs : JobMoves(i)
<1> DEFINE j == jobWorker[w].on
           s == IF good THEN "succeeded" ELSE "failed"
<1>1. JobShape /\ j \in Jobs /\ s \in JobState
  BY DEF JobInv, JobShape, JobState
<1>2. /\ job' = [job EXCEPT ![j] = Unleased(j, s)]
      /\ settlement' = [settlement EXCEPT ![j] = [token |-> jobWorker[w].token, good |-> good]]
      /\ job[j].state = "claimed" /\ job[j].token = jobWorker[w].token
  BY DEF Settles, HoldsJob
<1>3. /\ Unleased(j, s) \in JobRecord /\ Unleased(j, s).state = s
      /\ Unleased(j, s).tries = job[j].tries /\ Unleased(j, s).token = NoToken
  BY <1>1, UnleasedRow
<1>4. good => <<j, job[j].token>> \in handled
  BY <1>2 DEF JobInv, Mine
<1>5. jobWorker[w].token \in Tokens
  BY <1>1 DEF JobShape, WorkerRecord
<1>6. settlement' \in [Jobs -> SettlementRecord]
  BY <1>1, <1>2, <1>5 DEF JobShape, SettlementRecord
<1>7. job' \in [Jobs -> JobRecord] /\ \A i \in Jobs : job'[i] = IF i = j THEN Unleased(j, s) ELSE job[i]
  BY <1>1, <1>2, <1>3, OneJob
<1>8. \A i \in Jobs : settlement'[i] = IF i = j THEN [token |-> jobWorker[w].token, good |-> good]
                                              ELSE settlement[i]
  BY <1>1, <1>2 DEF JobShape
<1> HIDE DEF j, s
<1>9. ASSUME NEW i \in Jobs PROVE JobMoves(i)
  <2>1. CASE i = j
    <3>1. job'[i] = Unleased(j, s) /\ settlement'[i] = [token |-> jobWorker[w].token, good |-> good]
      BY <1>7, <1>8, <2>1
    <3> QED BY <1>2, <1>3, <1>4, <2>1, <3>1 DEF JobMoves, JobSettled, s
  <2>2. CASE i # j
    BY <1>7, <1>8, <2>2 DEF JobMoves, JobKept
  <2> QED BY <2>1, <2>2
<1> QED BY <1>6, <1>7, <1>9

LEMMA JobsStep ==
    ASSUME JobInv, [JobNext]_jobVars
    PROVE  /\ job' \in [Jobs -> JobRecord] /\ settlement' \in [Jobs -> SettlementRecord]
           /\ \A j \in Jobs : JobMoves(j)
<1>1. JobShape /\ job \in [Jobs -> JobRecord] /\ settlement \in [Jobs -> SettlementRecord]
  BY DEF JobInv, JobShape
<1>2. CASE UNCHANGED <<job, settlement>>
  BY <1>1, <1>2 DEF JobMoves, JobKept
<1>3. ASSUME NEW j \in Jobs, NEW new \in JobRecord, job' = [job EXCEPT ![j] = new], UNCHANGED settlement,
             new.tries = job[j].tries,
             \/ /\ new.token = job[j].token
                /\ new.state = job[j].state \/ (job[j].state = "none" /\ new.state = "pending")
             \/ job[j].state = "claimed" /\ new.state \in {"pending", "failed"} /\ new.token = NoToken
      PROVE  JobsStep!3
  BY <1>1, <1>3, OneJob DEF JobMoves, JobKept, JobUnleased
<1>4. ASSUME NEW j \in Jobs, EnqueueJob(j) PROVE JobsStep!3
  <2>1. job' = [job EXCEPT ![j] = [job[j] EXCEPT !.state = "pending", !.due = TRUE]]
    BY <1>1, <1>4 DEF EnqueueJob
  <2>2. LET new == [job[j] EXCEPT !.state = "pending", !.due = TRUE] IN
        new \in JobRecord /\ new.state = "pending" /\ new.tries = job[j].tries /\ new.token = job[j].token
    BY <1>1 DEF JobRecord, JobState
  <2> QED BY <1>3, <1>4, <2>1, <2>2 DEF EnqueueJob
<1>5. ASSUME NEW j \in Jobs, JobBecomesDue(j) PROVE JobsStep!3
  <2>1. job' = [job EXCEPT ![j] = [job[j] EXCEPT !.due = TRUE]]
    BY <1>1, <1>5 DEF JobBecomesDue
  <2>2. LET new == [job[j] EXCEPT !.due = TRUE] IN
        new \in JobRecord /\ new.state = job[j].state /\ new.tries = job[j].tries /\ new.token = job[j].token
    BY <1>1 DEF JobRecord
  <2> QED BY <1>3, <1>5, <2>1, <2>2 DEF JobBecomesDue
<1>6. ASSUME NEW claimed \in SUBSET Jobs, \A j \in claimed : Candidate(j), job' = Claim(claimed),
             UNCHANGED settlement
      PROVE  JobsStep!3
  <2>1. job' = [j \in Jobs |-> job'[j]]
    BY <1>6 DEF Claim
  <2>2. ASSUME NEW j \in Jobs PROVE job'[j] \in JobRecord /\ JobMoves(j)
    <3>1. CASE j \in claimed
      <4>1. job'[j] = [job[j] EXCEPT !.state = "claimed", !.tries = @ + 1,
                                     !.token = job[j].tries + 1, !.left = JobLease]
        BY <1>6, <3>1 DEF Claim
      <4>2. job[j].tries + 1 \in 0..JobAttempts /\ job[j].state \in {"pending", "claimed"}
        BY <1>1, <1>6, <3>1, JobQueueAssumption DEF Candidate, LapsedJob, JobRecord
      <4>3. JobLease \in 0..JobLease
        BY JobQueueAssumption
      <4>4. /\ job'[j] \in JobRecord /\ job'[j].state = "claimed"
            /\ job'[j].tries = job[j].tries + 1 /\ job'[j].token = job[j].tries + 1
        <5>1. job[j] \in JobRecord /\ "claimed" \in JobState /\ job[j].tries + 1 \in Tokens
          BY <1>1, <4>2 DEF JobState, Tokens
        <5> QED BY <4>1, <4>2, <4>3, <5>1 DEF JobRecord
      <4> QED BY <1>6, <4>2, <4>4 DEF JobMoves, JobClaimed
    <3>2. CASE j \notin claimed /\ Exhausted(j)
      <4>1. job'[j] = Unleased(j, "failed") /\ job[j].state = "claimed"
        BY <1>6, <3>2 DEF Claim, Exhausted, LapsedJob
      <4>2. "failed" \in JobState
        BY DEF JobState
      <4> QED BY <1>1, <1>6, <4>1, <4>2, UnleasedRow DEF JobMoves, JobUnleased
    <3>3. CASE j \notin claimed /\ ~Exhausted(j)
      <4>1. job'[j] = job[j]
        BY <1>6, <3>3 DEF Claim
      <4> QED BY <1>1, <1>6, <4>1 DEF JobMoves, JobKept
    <3> QED BY <3>1, <3>2, <3>3
  <2> QED BY <1>1, <1>6, <2>1, <2>2
<1>7. ASSUME NEW w \in JobWorkers, ClaimJob(w) PROVE JobsStep!3
  <2>1. \E claimed \in SUBSET Jobs :
          (\A j \in claimed : Candidate(j)) /\ job' = Claim(claimed) /\ UNCHANGED settlement
    <3>1. CASE \E j \in Jobs : Candidate(j) /\ job' = Claim({j})
      <4>1. PICK j \in Jobs : Candidate(j) /\ job' = Claim({j})
        BY <3>1
      <4>2. {j} \in SUBSET Jobs /\ \A i \in {j} : Candidate(i)
        BY <4>1
      <4> QED BY <1>7, <4>1, <4>2 DEF ClaimJob
    <3>2. CASE job' = Claim({})
      BY <1>7, <3>2 DEF ClaimJob
    <3> QED BY <1>7, <3>1, <3>2 DEF ClaimJob
  <2> QED BY <1>6, <2>1
<1>8. ASSUME NEW w \in JobWorkers, Succeed(w) PROVE JobsStep!3
  BY <1>2, <1>8, SettlesMoves DEF Succeed
<1>9. ASSUME NEW w \in JobWorkers, Fail(w) PROVE JobsStep!3
  <2>1. jobWorker[w].at = "fail" /\ jobWorker[w].on \in Jobs /\ "pending" \in JobState
    BY <1>1, <1>9 DEF Fail, JobShape, JobState
  <2>2. CASE HoldsJob(w) /\ job' = [job EXCEPT ![jobWorker[w].on] = Unleased(jobWorker[w].on, "pending")]
             /\ UNCHANGED settlement
    <3>1. LET new == Unleased(jobWorker[w].on, "pending") IN
          /\ new \in JobRecord /\ new.state = "pending" /\ new.tries = job[jobWorker[w].on].tries
          /\ new.token = NoToken
      BY <1>1, <2>1, UnleasedRow
    <3> QED BY <1>3, <2>1, <2>2, <3>1 DEF HoldsJob
  <2>3. CASE HoldsJob(w) /\ Settles(w, FALSE)
    BY <2>1, <2>3, SettlesMoves
  <2> QED BY <1>2, <1>9, <2>2, <2>3 DEF Fail
<1>10. CASE JobTick
  <2>1. job' = [j \in Jobs |-> [job[j] EXCEPT !.left = IF @ > 0 THEN @ - 1 ELSE 0]] /\ UNCHANGED settlement
    BY <1>10 DEF JobTick
  <2>2. \A j \in Jobs : (IF job[j].left > 0 THEN job[j].left - 1 ELSE 0) \in 0..JobLease
    BY <1>1, JobQueueAssumption DEF JobRecord
  <2>3. \A j \in Jobs : /\ job'[j] \in JobRecord /\ job'[j].state = job[j].state
                        /\ job'[j].tries = job[j].tries /\ job'[j].token = job[j].token
    BY <1>1, <2>1, <2>2 DEF JobRecord
  <2>4. job' = [j \in Jobs |-> job'[j]]
    BY <2>1
  <2> QED BY <1>1, <2>1, <2>3, <2>4 DEF JobMoves, JobKept
<1>11. CASE \/ UNCHANGED jobVars
            \/ \E w \in JobWorkers : HandlerReturns(w) \/ HandlerThrows(w) \/ SucceedFails(w) \/ NextJob(w)
  BY <1>2, <1>11 DEF jobVars, HandlerReturns, HandlerThrows, SucceedFails, NextJob
<1> QED BY <1>4, <1>5, <1>7, <1>8, <1>9, <1>10, <1>11 DEF JobNext

\* What a step does to the workers: one that says its attempt succeeded has just
\* run its handler to the end, or had said so before.
LEMMA WorkersStep ==
    ASSUME JobInv, [JobNext]_jobVars
    PROVE  /\ jobWorker' \in [JobWorkers -> WorkerRecord]
           /\ handled \subseteq handled' /\ handled' \subseteq Jobs \X Tokens
           /\ \A w \in JobWorkers :
                /\ jobWorker'[w].at # "free" => jobWorker'[w].on \in Jobs
                /\ jobWorker'[w].at = "succeed" => Mine(w)' \in handled'
<1>1. /\ JobShape /\ jobWorker \in [JobWorkers -> WorkerRecord]
      /\ \A w \in JobWorkers : /\ jobWorker[w].at # "free" => jobWorker[w].on \in Jobs
                               /\ jobWorker[w].at = "succeed" => Mine(w) \in handled
  BY DEF JobInv, JobShape
<1>2. CASE UNCHANGED <<jobWorker, handled>>
  BY <1>1, <1>2 DEF Mine, JobShape
<1>3. ASSUME NEW w \in JobWorkers, NEW new \in WorkerRecord, jobWorker' = [jobWorker EXCEPT ![w] = new],
             new.at # "free" => new.on \in Jobs, new.at = "succeed" => <<new.on, new.token>> \in handled',
             handled \subseteq handled', handled' \subseteq Jobs \X Tokens
      PROVE  WorkersStep!3
  <2>1. jobWorker' \in [JobWorkers -> WorkerRecord]
    BY <1>1, <1>3
  <2>2. \A v \in JobWorkers : jobWorker'[v] = IF v = w THEN new ELSE jobWorker[v]
    BY <1>1, <1>3
  <2> QED BY <1>1, <1>3, <2>1, <2>2 DEF Mine
<1>4. \A w \in JobWorkers : jobWorker[w] \in WorkerRecord /\ jobWorker[w].token \in Tokens
  BY <1>1 DEF WorkerRecord
<1>5. handled \subseteq Jobs \X Tokens
  BY <1>1 DEF JobShape
<1>6. ASSUME NEW w \in JobWorkers, jobWorker[w].at # "free", NEW at \in {"settled", "failed"},
             WorkerTo(w, at), UNCHANGED handled
      PROVE  WorkersStep!3
  <2>1. LET new == [jobWorker[w] EXCEPT !.at = at] IN
        /\ jobWorker' = [jobWorker EXCEPT ![w] = new]
        /\ new \in WorkerRecord /\ new.at = at /\ new.on = jobWorker[w].on
    BY <1>1, <1>4, <1>6 DEF WorkerTo, WorkerRecord
  <2> QED BY <1>1, <1>3, <1>5, <1>6, <2>1
<1>7. ASSUME NEW w \in JobWorkers, jobWorker[w].at # "free", NEW retry \in BOOLEAN,
             jobWorker' = [jobWorker EXCEPT ![w].at = "fail", ![w].retry = retry], UNCHANGED handled
      PROVE  WorkersStep!3
  <2>1. LET new == [jobWorker[w] EXCEPT !.at = "fail", !.retry = retry] IN
        /\ jobWorker' = [jobWorker EXCEPT ![w] = new]
        /\ new \in WorkerRecord /\ new.at = "fail" /\ new.on = jobWorker[w].on
    BY <1>1, <1>4, <1>7 DEF WorkerRecord
  <2> QED BY <1>1, <1>3, <1>5, <1>7, <2>1
<1>8. ASSUME NEW w \in JobWorkers, ClaimJob(w) PROVE WorkersStep!3
  <2>1. CASE UNCHANGED jobWorker
    BY <1>2, <1>8, <2>1 DEF ClaimJob
  <2>2. ASSUME NEW j \in Jobs, Candidate(j),
               jobWorker' = [jobWorker EXCEPT ![w] =
                 [at |-> "handle", on |-> j, token |-> job[j].tries + 1, retry |-> FALSE]]
        PROVE  WorkersStep!3
    <3>1. job[j].tries + 1 \in Tokens
      BY <1>1, <2>2, JobQueueAssumption DEF JobShape, JobRecord, Candidate, Tokens
    <3>2. LET new == [at |-> "handle", on |-> j, token |-> job[j].tries + 1, retry |-> FALSE] IN
          new \in WorkerRecord /\ new.at = "handle" /\ new.on = j
      BY <3>1 DEF WorkerRecord
    <3> QED BY <1>3, <1>5, <1>8, <2>2, <3>2 DEF ClaimJob
  <2> QED BY <1>8, <2>1, <2>2 DEF ClaimJob
<1>9. ASSUME NEW w \in JobWorkers, HandlerReturns(w) PROVE WorkersStep!3
  <2> DEFINE new == [jobWorker[w] EXCEPT !.at = "succeed"]
  <2>1. /\ jobWorker' = [jobWorker EXCEPT ![w] = new] /\ new \in WorkerRecord
        /\ new.at = "succeed" /\ new.on = jobWorker[w].on /\ new.token = jobWorker[w].token
    BY <1>1, <1>4, <1>9 DEF HandlerReturns, WorkerTo, WorkerRecord
  <2>2. jobWorker[w].on \in Jobs /\ handled' = handled \union {Mine(w)}
    BY <1>1, <1>9 DEF HandlerReturns
  <2>3. handled' \subseteq Jobs \X Tokens
    BY <1>4, <1>5, <2>2 DEF Mine
  <2>4. <<new.on, new.token>> \in handled'
    BY <2>1, <2>2 DEF Mine
  <2> HIDE DEF new
  <2> QED BY <1>3, <2>1, <2>2, <2>3, <2>4
<1>10. ASSUME NEW w \in JobWorkers, NextJob(w) PROVE WorkersStep!3
  <2>1. Free \in WorkerRecord /\ Free.at = "free"
    BY JobQueueAssumption DEF Free, WorkerRecord, Tokens, NoToken
  <2> QED BY <1>3, <1>5, <1>10, <2>1 DEF NextJob
<1>11. ASSUME NEW w \in JobWorkers, HandlerThrows(w) \/ SucceedFails(w) \/ Succeed(w) \/ Fail(w)
       PROVE  WorkersStep!3
  <2>1. jobWorker[w].at # "free" /\ UNCHANGED handled
    BY <1>11 DEF HandlerThrows, SucceedFails, Succeed, Fail
  <2>2. \/ \E at \in {"settled", "failed"} : WorkerTo(w, at)
        \/ \E retry \in BOOLEAN :
             jobWorker' = [jobWorker EXCEPT ![w].at = "fail", ![w].retry = retry]
    BY <1>11 DEF HandlerThrows, SucceedFails, Succeed, Fail
  <2> QED BY <1>6, <1>7, <2>1, <2>2
<1>12. CASE JobTick \/ UNCHANGED jobVars \/ \E j \in Jobs : EnqueueJob(j) \/ JobBecomesDue(j)
  BY <1>2, <1>12 DEF JobTick, jobVars, EnqueueJob, JobBecomesDue
<1> QED BY <1>8, <1>9, <1>10, <1>11, <1>12 DEF JobNext

LEMMA JobInvStep == JobInv /\ [JobNext]_jobVars => JobInv'
<1> SUFFICES ASSUME JobInv, [JobNext]_jobVars PROVE JobInv'
  OBVIOUS
<1>1. /\ job' \in [Jobs -> JobRecord] /\ settlement' \in [Jobs -> SettlementRecord]
      /\ \A j \in Jobs : JobMoves(j)
  BY JobsStep
<1>2. /\ jobWorker' \in [JobWorkers -> WorkerRecord]
      /\ handled \subseteq handled' /\ handled' \subseteq Jobs \X Tokens
      /\ \A w \in JobWorkers :
           /\ jobWorker'[w].at # "free" => jobWorker'[w].on \in Jobs
           /\ jobWorker'[w].at = "succeed" => Mine(w)' \in handled'
  BY WorkersStep
<1>3. JobShape'
  BY <1>1, <1>2 DEF JobShape
<1>4. \A j \in Jobs : job[j].tries \in Nat /\ settlement[j].good \in BOOLEAN
                     /\ settlement'[j].good \in BOOLEAN
  BY <1>1 DEF JobInv, JobShape, JobRecord, SettlementRecord
<1>5. ASSUME NEW j \in Jobs
      PROVE  /\ job'[j].token # NoToken <=> job'[j].state = "claimed"
             /\ job'[j].state = "claimed" => job'[j].token = job'[j].tries
  <2>1. /\ job[j].token # NoToken <=> job[j].state = "claimed"
        /\ job[j].state = "claimed" => job[j].token = job[j].tries
    BY DEF JobInv
  <2>2. CASE JobKept(j)
    BY <2>1, <2>2 DEF JobKept
  <2>3. CASE JobClaimed(j)
    BY <1>4, <2>3 DEF JobClaimed, NoToken
  <2>4. CASE JobUnleased(j) \/ JobSettled(j)
    BY <2>4 DEF JobUnleased, JobSettled
  <2> QED BY <1>1, <2>2, <2>3, <2>4 DEF JobMoves
<1>6. ASSUME NEW j \in Jobs
      PROVE  /\ settlement'[j].token # NoToken =>
                  /\ settlement'[j].token = job'[j].tries
                  /\ job'[j].state = IF settlement'[j].good THEN "succeeded" ELSE "failed"
             /\ job'[j].state = "succeeded" =>
                  <<j, settlement'[j].token>> \in handled' /\ settlement'[j].good
  <2>1. /\ settlement[j].token # NoToken =>
             /\ settlement[j].token = job[j].tries
             /\ job[j].state = IF settlement[j].good THEN "succeeded" ELSE "failed"
        /\ job[j].state = "succeeded" =>
             <<j, settlement[j].token>> \in handled /\ settlement[j].good
    BY DEF JobInv, SettledForItsLastClaim
  <2>2. job[j].state = "claimed" => job[j].token = job[j].tries
    BY DEF JobInv
  <2>3. CASE JobKept(j)
    BY <1>2, <2>1, <2>3 DEF JobKept
  <2>4. CASE JobClaimed(j) \/ JobUnleased(j)
    BY <1>2, <2>1, <2>4 DEF JobClaimed, JobUnleased
  <2>5. CASE JobSettled(j)
    BY <1>2, <2>2, <2>5 DEF JobSettled
  <2> QED BY <1>1, <2>3, <2>4, <2>5 DEF JobMoves
<1> QED BY <1>2, <1>3, <1>5, <1>6 DEF JobInv, SettledForItsLastClaim

LEMMA JobInitInv == JobInit => JobInv
<1> SUFFICES ASSUME JobInit PROVE JobInv
  OBVIOUS
<1>1. NoJob \in JobRecord /\ Unsettled \in SettlementRecord /\ Free \in WorkerRecord
  BY JobQueueAssumption
  DEF NoJob, Unsettled, Free, JobRecord, SettlementRecord, WorkerRecord, Tokens, NoToken, JobState
<1>2. JobShape
  BY <1>1 DEF JobInit, JobShape, Free
<1> QED BY <1>2 DEF JobInit, JobInv, NoJob, Unsettled, Free, NoToken, SettledForItsLastClaim

\* A job settles once, for its last claim, with what the handler of that claim
\* did: whatever calls failed before or after they committed, and whoever came
\* late with an old token.
THEOREM JobsSettleOnce == JobSpec => []SettledForItsLastClaim
<1>1. JobInv => SettledForItsLastClaim
  BY DEF JobInv
<1> QED BY <1>1, JobInitInv, JobInvStep, PTL DEF JobSpec

\* What a worker has of a claim is a job and the token of an attempt that was
\* counted.
TokensPassed ==
    \A w \in JobWorkers : jobWorker[w].at # "free" => jobWorker[w].token \in 1..job[jobWorker[w].on].tries

\* No two workers ever have the same claim of a job in hand (jobs/index.ts,
\* claim; jobs/worker.ts): whoever claims a lapsed job gets a token nobody has,
\* however late the workers that held it before are with theirs.
OneWorkerHolds ==
    \A v, w \in JobWorkers :
        /\ jobWorker[v].at # "free" /\ jobWorker[w].at # "free"
        /\ jobWorker[v].on = jobWorker[w].on /\ jobWorker[v].token = jobWorker[w].token
        => v = w

\* The attempts of a job are counted up, and a settled job stays as it is.
JobStays(j) ==
    /\ job'[j].tries >= job[j].tries
    /\ job[j].state \in {"succeeded", "failed"} =>
         /\ job'[j].state = job[j].state /\ job'[j].tries = job[j].tries
         /\ settlement'[j] = settlement[j]

LEMMA JobsOnlyMoveOn == ASSUME JobInv, [JobNext]_jobVars PROVE \A j \in Jobs : JobStays(j)
<1> TAKE j \in Jobs
<1>1. JobMoves(j)
  BY JobsStep
<1>2. job[j].tries \in Nat
  BY DEF JobInv, JobShape, JobRecord
<1>3. CASE JobKept(j)
  BY <1>2, <1>3 DEF JobKept, JobStays
<1>4. CASE JobClaimed(j)
  BY <1>2, <1>4 DEF JobClaimed, JobStays
<1>5. CASE JobUnleased(j)
  BY <1>2, <1>5 DEF JobUnleased, JobStays
<1>6. CASE JobSettled(j)
  BY <1>2, <1>6 DEF JobSettled, JobStays
<1> QED BY <1>1, <1>3, <1>4, <1>5, <1>6 DEF JobMoves

\* What a step does to the claims the workers have in hand: at most one worker,
\* that had none, gets one, for the attempt the step counts.
ClaimsKept == \A w \in JobWorkers :
    jobWorker'[w].at # "free" =>
        /\ jobWorker[w].at # "free"
        /\ jobWorker'[w].on = jobWorker[w].on /\ jobWorker'[w].token = jobWorker[w].token
OneMoreClaim(w, j) ==
    /\ jobWorker'[w].on = j /\ jobWorker'[w].token = job[j].tries + 1
    /\ job'[j].tries = job[j].tries + 1
    /\ \A v \in JobWorkers \ {w} : jobWorker'[v] = jobWorker[v]

LEMMA ClaimsStep ==
    ASSUME JobInv, [JobNext]_jobVars
    PROVE  ClaimsKept \/ \E w \in JobWorkers, j \in Jobs : OneMoreClaim(w, j)
<1>1. jobWorker \in [JobWorkers -> WorkerRecord] /\ job \in [Jobs -> JobRecord]
  BY DEF JobInv, JobShape
<1>2. ASSUME NEW w \in JobWorkers, NEW new, jobWorker' = [jobWorker EXCEPT ![w] = new],
             new.at # "free" => /\ jobWorker[w].at # "free"
                                /\ new.on = jobWorker[w].on /\ new.token = jobWorker[w].token
      PROVE  ClaimsKept
  <2>1. \A v \in JobWorkers : jobWorker'[v] = IF v = w THEN new ELSE jobWorker[v]
    BY <1>1, <1>2
  <2> QED BY <1>2, <2>1 DEF ClaimsKept
<1>3. ASSUME NEW w \in JobWorkers, ClaimJob(w) PROVE ClaimsStep!3
  <2>1. CASE UNCHANGED jobWorker
    BY <2>1 DEF ClaimsKept
  <2>2. ASSUME NEW j \in Jobs, job' = Claim({j}),
               jobWorker' = [jobWorker EXCEPT ![w] =
                 [at |-> "handle", on |-> j, token |-> job[j].tries + 1, retry |-> FALSE]]
        PROVE  OneMoreClaim(w, j)
    <3>1. \A v \in JobWorkers : jobWorker'[v] =
            IF v = w THEN [at |-> "handle", on |-> j, token |-> job[j].tries + 1, retry |-> FALSE]
            ELSE jobWorker[v]
      BY <1>1, <2>2
    <3>2. job'[j] = [job[j] EXCEPT !.state = "claimed", !.tries = @ + 1,
                                   !.token = job[j].tries + 1, !.left = JobLease]
      BY <2>2 DEF Claim
    <3>3. job[j] \in JobRecord
      BY <1>1
    <3>4. job'[j].tries = job[j].tries + 1
      BY <3>2, <3>3 DEF JobRecord
    <3> QED BY <3>1, <3>4 DEF OneMoreClaim
  <2> QED BY <1>3, <2>1, <2>2 DEF ClaimJob
<1>4. ASSUME NEW w \in JobWorkers, jobWorker[w].at # "free", NEW at, WorkerTo(w, at) PROVE ClaimsKept
  <2>1. jobWorker' = [jobWorker EXCEPT ![w] = [jobWorker[w] EXCEPT !.at = at]]
    BY <1>1, <1>4 DEF WorkerTo
  <2>2. LET new == [jobWorker[w] EXCEPT !.at = at] IN
        new.on = jobWorker[w].on /\ new.token = jobWorker[w].token
    BY <1>1 DEF WorkerRecord
  <2> QED BY <1>2, <1>4, <2>1, <2>2
<1>5. ASSUME NEW w \in JobWorkers, jobWorker[w].at # "free", NEW retry \in BOOLEAN,
             jobWorker' = [jobWorker EXCEPT ![w].at = "fail", ![w].retry = retry]
      PROVE  ClaimsKept
  <2>1. jobWorker' = [jobWorker EXCEPT ![w] = [jobWorker[w] EXCEPT !.at = "fail", !.retry = retry]]
    BY <1>1, <1>5
  <2>2. LET new == [jobWorker[w] EXCEPT !.at = "fail", !.retry = retry] IN
        new.on = jobWorker[w].on /\ new.token = jobWorker[w].token
    BY <1>1 DEF WorkerRecord
  <2> QED BY <1>2, <1>5, <2>1, <2>2
<1>6. ASSUME NEW w \in JobWorkers,
             HandlerReturns(w) \/ HandlerThrows(w) \/ Succeed(w) \/ SucceedFails(w) \/ Fail(w)
      PROVE  ClaimsKept
  <2>1. /\ jobWorker[w].at # "free"
        /\ \/ \E at : WorkerTo(w, at)
           \/ \E retry \in BOOLEAN :
                jobWorker' = [jobWorker EXCEPT ![w].at = "fail", ![w].retry = retry]
    BY <1>6 DEF HandlerReturns, HandlerThrows, Succeed, SucceedFails, Fail
  <2> QED BY <1>4, <1>5, <2>1
<1>7. ASSUME NEW w \in JobWorkers, NextJob(w) PROVE ClaimsKept
  BY <1>2, <1>7 DEF NextJob, Free
<1>8. CASE JobTick \/ UNCHANGED jobVars \/ \E j \in Jobs : EnqueueJob(j) \/ JobBecomesDue(j)
  <2>1. UNCHANGED jobWorker
    BY <1>8 DEF JobTick, jobVars, EnqueueJob, JobBecomesDue
  <2> QED BY <2>1 DEF ClaimsKept
<1> QED BY <1>3, <1>6, <1>7, <1>8 DEF JobNext

LEMMA ClaimsInvStep ==
    JobInv /\ TokensPassed /\ OneWorkerHolds /\ [JobNext]_jobVars => TokensPassed' /\ OneWorkerHolds'
<1> SUFFICES ASSUME JobInv, TokensPassed, OneWorkerHolds, [JobNext]_jobVars
             PROVE  TokensPassed' /\ OneWorkerHolds'
  OBVIOUS
<1>1. \A j \in Jobs : /\ job[j].tries \in Nat /\ job'[j].tries \in Nat
                      /\ job'[j].tries >= job[j].tries
  BY JobsStep, JobsOnlyMoveOn DEF JobInv, JobShape, JobRecord, JobStays
<1>2. \A w \in JobWorkers : jobWorker[w].at # "free" => jobWorker[w].on \in Jobs
  BY DEF JobInv, JobShape
<1>3. CASE ClaimsKept
  <2>1. ASSUME NEW w \in JobWorkers, jobWorker'[w].at # "free"
        PROVE  jobWorker'[w].token \in 1..job'[jobWorker'[w].on].tries
    <3>1. /\ jobWorker[w].at # "free"
          /\ jobWorker'[w].on = jobWorker[w].on /\ jobWorker'[w].token = jobWorker[w].token
      BY <1>3, <2>1 DEF ClaimsKept
    <3>2. jobWorker[w].token \in 1..job[jobWorker[w].on].tries
      BY <3>1 DEF TokensPassed
    <3> QED BY <1>1, <1>2, <3>1, <3>2
  <2>2. OneWorkerHolds'
    BY <1>3 DEF ClaimsKept, OneWorkerHolds
  <2> QED BY <2>1, <2>2 DEF TokensPassed
<1>4. ASSUME NEW w \in JobWorkers, NEW j \in Jobs, OneMoreClaim(w, j)
      PROVE  TokensPassed' /\ OneWorkerHolds'
  <2>1. ASSUME NEW v \in JobWorkers \ {w}, jobWorker'[v].at # "free"
        PROVE  /\ jobWorker'[v] = jobWorker[v] /\ jobWorker[v].on \in Jobs
               /\ jobWorker[v].token \in 1..job[jobWorker[v].on].tries
    BY <1>2, <1>4, <2>1 DEF OneMoreClaim, TokensPassed
  <2>2. /\ jobWorker'[w].on = j /\ jobWorker'[w].token = job[j].tries + 1
        /\ job'[j].tries = job[j].tries + 1
    BY <1>4 DEF OneMoreClaim
  <2>3. ASSUME NEW v \in JobWorkers, jobWorker'[v].at # "free"
        PROVE  jobWorker'[v].token \in 1..job'[jobWorker'[v].on].tries
    <3>1. CASE v = w
      BY <1>1, <2>2, <3>1
    <3>2. CASE v # w
      BY <1>1, <2>1, <2>3, <3>2
    <3> QED BY <3>1, <3>2
  <2>4. ASSUME NEW v \in JobWorkers \ {w}, jobWorker'[v].at # "free", jobWorker'[v].on = j
        PROVE  jobWorker'[v].token # jobWorker'[w].token
    <3>1. jobWorker'[v].token \in 1..job[j].tries
      BY <2>1, <2>4
    <3> QED BY <1>1, <2>2, <3>1
  <2>5. OneWorkerHolds'
    BY <2>1, <2>2, <2>4 DEF OneWorkerHolds
  <2> QED BY <2>3, <2>5 DEF TokensPassed
<1> QED BY <1>3, <1>4, ClaimsStep

\* Two workers never have the same claim of a job in hand, however leases run
\* out: what a claim's token admits is the work of one of them.
THEOREM ClaimsHaveOneWorker == JobSpec => []OneWorkerHolds
<1>1. JobInit => JobInv /\ TokensPassed /\ OneWorkerHolds
  BY JobInitInv DEF JobInit, Free, TokensPassed, OneWorkerHolds
<1>2. JobInv /\ TokensPassed /\ OneWorkerHolds /\ [JobNext]_jobVars
        => (JobInv /\ TokensPassed /\ OneWorkerHolds)'
  BY JobInvStep, ClaimsInvStep
<1> QED BY <1>1, <1>2, PTL DEF JobSpec

\* A job never loses count of its attempts, and once it has succeeded or failed
\* no worker, however late, changes it or what was settled.
SettledJobsStay == [][\A j \in Jobs : JobStays(j)]_jobVars

\* What a job was settled as is never lost to a worker that comes late.
THEOREM JobsStaySettled == JobSpec => SettledJobsStay
<1>1. JobInv /\ [JobNext]_jobVars => [\A j \in Jobs : JobStays(j)]_jobVars
  BY JobsOnlyMoveOn
<1> QED BY <1>1, JobInitInv, JobInvStep, PTL DEF JobSpec, SettledJobsStay

-----------------------------------------------------------------------------
(* Reassessment obligations *)

ObligationRecord ==
    [state : {"none", "pending", "leased", "satisfied", "blocked"}, due : BOOLEAN,
     holder : Workers \union {NoFact}, left : Nat, tries : Nat]
DrainerRecord ==
    [at : WorkStages, on : Facts \union {NoFact}, saw : SUBSET Facts,
     result : Results \union {"none"}]

ReassessShape ==
    /\ facts \subseteq Facts /\ covered \subseteq Facts
    /\ obligation \in [Facts -> ObligationRecord]
    /\ worker \in [Workers -> DrainerRecord]

\* A committed assessment has read the fact, or the first to commit will.
Read(f) == f \in covered \/ ReadFirst(f)

\* What a worker has on hand was recorded; what it is assessing it has read, and
\* what it goes on to dispatch, or calls done, is or will be read.
AtWork(w) ==
    worker[w].at # "rest" =>
      /\ worker[w].on \in facts
      /\ worker[w].at = "assess" => worker[w].on \in worker[w].saw
      /\ worker[w].at = "dispatch" => Read(worker[w].on)
      /\ worker[w].at \in {"renew", "settle"} =>
           worker[w].result \in Results /\ (worker[w].result = "done" => Read(worker[w].on))

\* Without a contract nothing is assessed.
NothingAssessed == covered = {} /\ \A w \in Workers : worker[w].at # "assess"
ContractFirst == contract \in BOOLEAN /\ (~contract => NothingAssessed)

\* A fact and its obligation are one, and only a leased obligation has time left.
Owed(f) ==
    /\ f \in facts <=> obligation[f].state # "none"
    /\ obligation[f].left > 0 => obligation[f].state = "leased"
    /\ obligation[f].state = "satisfied" => Read(f)

ReassessInv ==
    /\ ReassessShape
    /\ \A w \in Workers : AtWork(w)
    /\ \A f \in Facts : Owed(f)
    /\ ContractFirst

\* What a step may do to an obligation: nothing, record it with its fact, go on
\* with it, or settle it as the end of the work of the worker that holds it.
ObligationKept(f) == obligation'[f] = obligation[f] /\ (f \in facts' <=> f \in facts)
ObligationRecorded(f) ==
    /\ obligation[f].state = "none" /\ obligation'[f].state = "pending"
    /\ obligation'[f].left = obligation[f].left /\ f \in facts'
ObligationGoesOn(f) ==
    /\ obligation[f].state \in {"pending", "leased"}
    /\ \/ obligation'[f].state = "leased"
       \/ /\ obligation'[f].state = "pending" /\ obligation[f].state = "pending"
          /\ obligation'[f].left = obligation[f].left
    /\ f \in facts' <=> f \in facts
ObligationSettled(f) ==
    /\ obligation[f].state = "leased" /\ obligation'[f].left = 0
    /\ obligation'[f].state \in {"satisfied", "pending", "blocked"}
    /\ obligation'[f].state = "satisfied" => Read(f)
    /\ LET w == obligation[f].holder IN worker[w].on = f /\ worker'[w] = Resting
    /\ f \in facts' <=> f \in facts
ObligationMoves(f) ==
    ObligationKept(f) \/ ObligationRecorded(f) \/ ObligationGoesOn(f) \/ ObligationSettled(f)

LEMMA OneObligation ==
    ASSUME ReassessShape, NEW f \in Facts, NEW new \in ObligationRecord,
           obligation' = [obligation EXCEPT ![f] = new]
    PROVE  /\ obligation' \in [Facts -> ObligationRecord]
           /\ \A g \in Facts : obligation'[g] = IF g = f THEN new ELSE obligation[g]
BY DEF ReassessShape

\* Failed work is tried again or blocked; only work done satisfies.
LEMMA Verdicts ==
    ASSUME NEW result \in Results, NEW tries
    PROVE  /\ Verdict(result, tries) \in {"satisfied", "pending", "blocked"}
           /\ Verdict(result, tries) = "satisfied" => result = "done"
BY DEF Verdict, Results

LEMMA ObligationsStep ==
    ASSUME ReassessInv, [ReassessNext]_reassessVars
    PROVE  /\ obligation' \in [Facts -> ObligationRecord]
           /\ \A f \in Facts : ObligationMoves(f)
<1>1. /\ ReassessShape /\ obligation \in [Facts -> ObligationRecord]
      /\ \A f \in Facts : obligation[f] \in ObligationRecord
      /\ WorkLease \in Nat
  BY ReassessmentAssumption DEF ReassessInv, ReassessShape
<1>2. CASE UNCHANGED <<obligation, facts>>
  BY <1>1, <1>2 DEF ObligationMoves, ObligationKept
<1>3. ASSUME NEW f \in Facts, NEW new \in ObligationRecord, obligation' = [obligation EXCEPT ![f] = new],
             UNCHANGED facts, obligation[f].state \in {"pending", "leased"},
             \/ new.state = "leased"
             \/ new.state = "pending" /\ obligation[f].state = "pending" /\ new.left = obligation[f].left
      PROVE  ObligationsStep!3
  BY <1>1, <1>3, OneObligation DEF ObligationMoves, ObligationKept, ObligationGoesOn
<1>4. ASSUME NEW f \in Facts, RecordFact(f) PROVE ObligationsStep!3
  <2>1. f \notin facts /\ facts' = facts \union {f} /\ obligation[f].state = "none"
    BY <1>4 DEF RecordFact, ReassessInv, Owed
  <2> DEFINE new == [obligation[f] EXCEPT !.state = "pending", !.due = TRUE]
  <2>2. obligation' = [obligation EXCEPT ![f] = new]
    BY <1>1, <1>4, <2>1 DEF RecordFact, Owes
  <2>3. new \in ObligationRecord /\ new.state = "pending" /\ new.left = obligation[f].left
    BY <1>1 DEF ObligationRecord
  <2> HIDE DEF new
  <2> QED BY <1>1, <2>1, <2>2, <2>3, OneObligation DEF ObligationMoves, ObligationKept, ObligationRecorded
<1>5. ASSUME NEW f \in Facts, BecomesDue(f) PROVE ObligationsStep!3
  <2> DEFINE new == [obligation[f] EXCEPT !.due = TRUE]
  <2>1. obligation' = [obligation EXCEPT ![f] = new] /\ obligation[f].state = "pending" /\ UNCHANGED facts
    BY <1>1, <1>5 DEF BecomesDue
  <2>2. new \in ObligationRecord /\ new.state = obligation[f].state /\ new.left = obligation[f].left
    BY <1>1 DEF ObligationRecord
  <2> HIDE DEF new
  <2> QED BY <1>3, <2>1, <2>2
<1>6. ASSUME NEW w \in Workers, NEW f \in Facts, ClaimObligation(w, f) PROVE ObligationsStep!3
  <2> DEFINE new == [obligation[f] EXCEPT !.state = "leased", !.holder = w, !.left = WorkLease,
                                          !.tries = Lower(@ + 1, MaxTries)]
  <2>1. UNCHANGED facts /\ obligation[f].state \in {"pending", "leased"}
    BY <1>6 DEF ClaimObligation, WorkOpen, WorkPending
  <2>1a. obligation' = [obligation EXCEPT ![f] = new]
    BY <1>6 DEF ClaimObligation
  <2>2. Lower(obligation[f].tries + 1, MaxTries) \in Nat
    BY <1>1, ReassessmentAssumption DEF ObligationRecord, Lower
  <2>3. new \in ObligationRecord /\ new.state = "leased"
    BY <1>1, <2>2 DEF ObligationRecord
  <2> HIDE DEF new
  <2> QED BY <1>3, <2>1, <2>1a, <2>3
<1>7. ASSUME NEW w \in Workers, worker[w].at # "rest", HoldsWork(w), obligation' = Renewed(w),
             UNCHANGED facts
      PROVE  ObligationsStep!3
  <2> DEFINE f == worker[w].on
             new == [obligation[f] EXCEPT !.left = WorkLease]
  <2>1. f \in Facts /\ obligation[f].state = "leased" /\ obligation' = [obligation EXCEPT ![f] = new]
    BY <1>1, <1>7 DEF ReassessInv, AtWork, ReassessShape, HoldsWork, Renewed
  <2>2. new \in ObligationRecord /\ new.state = obligation[f].state
    BY <1>1, <2>1 DEF ObligationRecord
  <2> HIDE DEF f, new
  <2> QED BY <1>3, <1>7, <2>1, <2>2
<1>8. ASSUME NEW w \in Workers, RenewWork(w) \/ LastRenewal(w) PROVE ObligationsStep!3
  BY <1>2, <1>7, <1>8 DEF RenewWork, LastRenewal
<1>9. ASSUME NEW w \in Workers, Settle(w) PROVE ObligationsStep!3
  <2> DEFINE f == worker[w].on
             verdict == Verdict(worker[w].result, obligation[f].tries)
             new == [obligation[f] EXCEPT !.state = verdict, !.due = FALSE, !.holder = NoFact, !.left = 0]
  <2>1. /\ UNCHANGED facts /\ worker'[w] = Resting
        /\ obligation' = IF HoldsWork(w) THEN [obligation EXCEPT ![f] = new] ELSE obligation
    BY <1>1, <1>9 DEF Settle, MaySettle, ReassessShape
  <2>2. /\ f \in Facts /\ worker[w].result \in Results
        /\ worker[w].result = "done" => Read(f)
    BY <1>1, <1>9 DEF Settle, ReassessInv, AtWork, ReassessShape
  <2>3. verdict \in {"satisfied", "pending", "blocked"} /\ (verdict = "satisfied" => Read(f))
    BY <2>2, Verdicts
  <2>4. new \in ObligationRecord /\ new.state = verdict /\ new.left = 0
    BY <1>1, <2>2, <2>3 DEF ObligationRecord
  <2>5. HoldsWork(w) => obligation[f].state = "leased" /\ obligation[f].holder = w
    BY DEF HoldsWork
  <2>6. worker[w].on = f
    OBVIOUS
  <2> HIDE DEF f, verdict, new
  <2>7. CASE HoldsWork(w)
    <3>1. /\ obligation' \in [Facts -> ObligationRecord]
          /\ \A g \in Facts : obligation'[g] = IF g = f THEN new ELSE obligation[g]
      BY <1>1, <2>1, <2>2, <2>4, <2>7, OneObligation
    <3>2. ObligationSettled(f)
      BY <2>1, <2>2, <2>3, <2>4, <2>5, <2>6, <2>7, <3>1 DEF ObligationSettled
    <3> QED BY <2>1, <3>1, <3>2 DEF ObligationMoves, ObligationKept
  <2> QED BY <1>2, <2>1, <2>7
<1>10. CASE WorkTick
  <2> DEFINE less(f) == IF obligation[f].left > 0 /\ ~InTime(f) THEN obligation[f].left - 1
                        ELSE obligation[f].left
  <2>1. /\ obligation' = [f \in Facts |-> [obligation[f] EXCEPT !.left = less(f)]]
        /\ UNCHANGED facts
    BY <1>1, <1>10 DEF WorkTick, ObligationRecord
  <2>2. ASSUME NEW f \in Facts PROVE obligation'[f] \in ObligationRecord /\ ObligationMoves(f)
    <3>1. obligation[f].left \in Nat
      BY <1>1 DEF ObligationRecord
    <3>2. less(f) \in Nat /\ (obligation[f].left = 0 => less(f) = obligation[f].left)
      BY <3>1
    <3> HIDE DEF less
    <3>3. /\ obligation'[f] \in ObligationRecord /\ obligation'[f].state = obligation[f].state
          /\ obligation[f].left = 0 => obligation'[f] = obligation[f]
      BY <1>1, <2>1, <3>2 DEF ObligationRecord
    <3>4. obligation[f].left = 0 \/ obligation[f].state = "leased"
      BY <3>1 DEF ReassessInv, Owed
    <3> QED BY <2>1, <3>3, <3>4 DEF ObligationMoves, ObligationKept, ObligationGoesOn
  <2>3. obligation' = [f \in Facts |-> obligation'[f]]
    BY <2>1
  <2> QED BY <2>2, <2>3
<1>11. CASE \/ NoMoreFaults \/ AssessElsewhere \/ UNCHANGED reassessVars
            \/ \E w \in Workers : \/ LoadSource(w) \/ FinishAssessment(w) \/ Dispatch(w)
                                   \/ ProcessFails(w) \/ WorkerStops(w)
  BY <1>2, <1>11 DEF NoMoreFaults, AssessElsewhere, reassessVars, LoadSource, FinishAssessment, Dispatch,
                     ProcessFails, WorkerStops
<1> QED BY <1>4, <1>5, <1>6, <1>8, <1>9, <1>10, <1>11 DEF ReassessNext, Work

\* What a step does to the assessments: one that is new has read all facts, and
\* what commits is one under way, or one outside the workers; only a contract
\* lets them begin.
AssessmentsMove ==
    /\ \A w \in Workers : worker'[w].at = "assess" =>
         worker'[w] = worker[w] \/ facts \subseteq worker'[w].saw
    /\ \/ covered' = covered
       \/ covered' = covered \union facts
       \/ \E w \in Workers : worker[w].at = "assess" /\ covered' = covered \union worker[w].saw

LEMMA AssessmentsStep ==
    ASSUME ReassessInv, [ReassessNext]_reassessVars
    PROVE  AssessmentsMove /\ ContractFirst'
<1>1. worker \in [Workers -> DrainerRecord] /\ ContractFirst
      /\ \A w \in Workers : worker[w] \in DrainerRecord
  BY DEF ReassessInv, ReassessShape
<1>2. CASE UNCHANGED <<worker, covered, contract>>
  BY <1>1, <1>2 DEF AssessmentsMove, ContractFirst, NothingAssessed
<1>3. ASSUME NEW w \in Workers, NEW new, new.at # "assess", worker' = [worker EXCEPT ![w] = new],
             UNCHANGED <<covered, contract>>
      PROVE  AssessmentsStep!3
  <2>1. \A v \in Workers : worker'[v] = IF v = w THEN new ELSE worker[v]
    BY <1>1, <1>3
  <2> QED BY <1>1, <1>3, <2>1 DEF AssessmentsMove, ContractFirst, NothingAssessed
<1>4. ASSUME NEW w \in Workers, NEW f \in Facts, ClaimObligation(w, f) PROVE AssessmentsStep!3
  <2>1. [Resting EXCEPT !.at = "load", !.on = f].at = "load"
    BY DEF Resting
  <2> QED BY <1>3, <1>4, <2>1 DEF ClaimObligation
<1>5. ASSUME NEW w \in Workers, \E stage \in {"dispatch", "renew", "settle"} : \/ To(w, stage)
                                  \/ \E result : With(w, stage, result),
             UNCHANGED <<covered, contract>>
      PROVE  AssessmentsStep!3
  <2>1. PICK new : worker' = [worker EXCEPT ![w] = new] /\ new.at # "assess"
    <3>1. PICK stage \in {"dispatch", "renew", "settle"} :
            To(w, stage) \/ \E result : With(w, stage, result)
      BY <1>5
    <3>2. CASE To(w, stage)
      <4>1. worker' = [worker EXCEPT ![w] = [worker[w] EXCEPT !.at = stage]]
        BY <1>1, <3>2 DEF To
      <4>2. [worker[w] EXCEPT !.at = stage].at = stage
        BY <1>1 DEF DrainerRecord
      <4> QED BY <3>1, <4>1, <4>2
    <3>3. ASSUME NEW result, With(w, stage, result) 
          PROVE  \E new : worker' = [worker EXCEPT ![w] = new] /\ new.at # "assess"
      <4>1. worker' = [worker EXCEPT ![w] = [worker[w] EXCEPT !.at = stage, !.result = result]]
        BY <1>1, <3>3 DEF With
      <4>2. [worker[w] EXCEPT !.at = stage, !.result = result].at = stage
        BY <1>1 DEF DrainerRecord
      <4> QED BY <3>1, <4>1, <4>2
    <3> QED BY <3>1, <3>2, <3>3
  <2> QED BY <1>3, <1>5, <2>1
<1>6. ASSUME NEW w \in Workers, LoadSource(w) PROVE AssessmentsStep!3
  <2>1. CASE With(w, "renew", "human") /\ UNCHANGED <<covered, contract>>
    BY <1>5, <2>1
  <2>2. CASE FindContract(w) /\ UNCHANGED covered
    <3>1. contract' \in BOOLEAN /\ (contract => contract')
      BY <1>1, <2>2 DEF FindContract, ContractFirst
    <3>2. CASE contract'
      <4> DEFINE new == [worker[w] EXCEPT !.at = "assess", !.saw = facts]
      <4>1. worker' = [worker EXCEPT ![w] = new] /\ new.saw = facts
        BY <1>1, <2>2, <3>2 DEF FindContract, DrainerRecord
      <4> HIDE DEF new
      <4>2. \A v \in Workers : worker'[v] = IF v = w THEN new ELSE worker[v]
        BY <1>1, <4>1
      <4> QED BY <2>2, <3>1, <3>2, <4>1, <4>2 DEF AssessmentsMove, ContractFirst
    <3>3. CASE ~contract'
      <4>1. To(w, "dispatch") /\ UNCHANGED <<covered, contract>>
        BY <1>1, <2>2, <3>1, <3>3 DEF FindContract, ContractFirst
      <4> QED BY <1>5, <4>1
    <3> QED BY <3>2, <3>3
  <2> QED BY <1>6, <2>1, <2>2 DEF LoadSource
<1>7. ASSUME NEW w \in Workers, FinishAssessment(w) PROVE AssessmentsStep!3
  <2> DEFINE new == [worker[w] EXCEPT !.at = "dispatch", !.saw = {}]
  <2>1. /\ worker' = [worker EXCEPT ![w] = new] /\ new.at = "dispatch"
        /\ worker[w].at = "assess" /\ covered' = covered \union worker[w].saw /\ UNCHANGED contract
    BY <1>1, <1>7 DEF FinishAssessment, DrainerRecord
  <2> HIDE DEF new
  <2>2. \A v \in Workers : worker'[v] = IF v = w THEN new ELSE worker[v]
    BY <1>1, <2>1
  <2> QED BY <1>1, <2>1, <2>2 DEF AssessmentsMove, ContractFirst, NothingAssessed
<1>8. CASE AssessElsewhere
  BY <1>1, <1>8 DEF AssessElsewhere, AssessmentsMove, ContractFirst
<1>9. ASSUME NEW w \in Workers, Dispatch(w) PROVE AssessmentsStep!3
  BY <1>5, <1>9 DEF Dispatch
<1>10. ASSUME NEW w \in Workers, worker' = [worker EXCEPT ![w] = Resting], UNCHANGED <<covered, contract>>
       PROVE  AssessmentsStep!3
  <2>1. Resting.at # "assess"
    BY DEF Resting
  <2> QED BY <1>3, <1>10, <2>1
<1>11. ASSUME NEW w \in Workers, LastRenewal(w) PROVE AssessmentsStep!3
  <2>1. CASE To(w, "settle") /\ UNCHANGED <<covered, contract>>
    BY <1>5, <2>1
  <2> QED BY <1>10, <1>11, <2>1 DEF LastRenewal
<1>12. ASSUME NEW w \in Workers, ProcessFails(w) PROVE AssessmentsStep!3
  <2>1. [Resting EXCEPT !.at = "settle", !.on = worker[w].on, !.result = "failed"].at = "settle"
    BY DEF Resting
  <2> QED BY <1>3, <1>12, <2>1 DEF ProcessFails
<1>13. ASSUME NEW w \in Workers, Settle(w) \/ WorkerStops(w) PROVE AssessmentsStep!3
  BY <1>10, <1>13 DEF Settle, WorkerStops
<1>14. CASE \/ UNCHANGED reassessVars \/ WorkTick \/ NoMoreFaults
            \/ \E f \in Facts : RecordFact(f) \/ BecomesDue(f)
            \/ \E w \in Workers : RenewWork(w)
  BY <1>2, <1>14 DEF reassessVars, WorkTick, NoMoreFaults, RecordFact, BecomesDue, RenewWork
<1> QED BY <1>4, <1>6, <1>7, <1>8, <1>9, <1>11, <1>12, <1>13, <1>14 DEF ReassessNext, Work

\* A recorded fact that is or will be read stays so.
LEMMA ReadStays ==
    ASSUME AssessmentsMove, NEW f \in facts, Read(f)
    PROVE  Read(f)'
<1>1. CASE f \in covered
  BY <1>1 DEF AssessmentsMove, Read
<1>2. CASE f \notin covered /\ covered' = covered
  BY <1>2 DEF AssessmentsMove, Read, ReadFirst
<1>3. CASE f \notin covered /\ covered' # covered
  BY <1>3 DEF AssessmentsMove, Read, ReadFirst
<1> QED BY <1>1, <1>2, <1>3

\* A step leaves the fact read, or for the first assessment to read.
ReadAfter(x) == \E f \in facts : f = x /\ Read(f)'

\* What a step does to the workers: what is on hand stays recorded and what was
\* read stays read, and each goes on as the one before it left off.
LEMMA DrainersStep ==
    ASSUME ReassessInv, [ReassessNext]_reassessVars
    PROVE  /\ worker' \in [Workers -> DrainerRecord]
           /\ facts \subseteq facts' /\ facts' \subseteq Facts
           /\ covered \subseteq covered' /\ covered' \subseteq Facts
           /\ \A w \in Workers : AtWork(w)'
<1>1. /\ facts \subseteq Facts /\ covered \subseteq Facts
      /\ worker \in [Workers -> DrainerRecord] /\ \A w \in Workers : AtWork(w)
      /\ \A w \in Workers : worker[w] \in DrainerRecord
  BY DEF ReassessInv, ReassessShape
<1>0. \A f \in facts : Read(f) => ReadAfter(f)
  BY AssessmentsStep, ReadStays DEF ReadAfter
<1>2. ASSUME NEW w \in Workers, worker'[w] = worker[w], facts \subseteq facts'
      PROVE  AtWork(w)'
  <2>1. PICK k \in DrainerRecord : k = worker[w] /\ k = worker'[w]
    BY <1>1, <1>2
  <2>2. k.on \in facts /\ Read(k.on) => Read(k.on)'
    BY AssessmentsStep, ReadStays
  <2>3. AtWork(w)
    BY <1>1
  <2> QED BY <1>2, <2>1, <2>2, <2>3 DEF AtWork, Read, ReadFirst
<1>3. ASSUME NEW w \in Workers, NEW new \in DrainerRecord, worker' = [worker EXCEPT ![w] = new],
             UNCHANGED facts, covered \subseteq covered', covered' \subseteq Facts,
             new.at # "rest" => new.on \in facts,
             new.at = "assess" => new.on \in new.saw,
             new.at = "dispatch" => ReadAfter(new.on),
             new.at \in {"renew", "settle"} => new.result \in Results,
             new.at \in {"renew", "settle"} /\ new.result = "done" => ReadAfter(new.on)
      PROVE  DrainersStep!3
  <2>1. worker' \in [Workers -> DrainerRecord]
    BY <1>1, <1>3
  <2>2. \A v \in Workers : worker'[v] = IF v = w THEN new ELSE worker[v]
    BY <1>1, <1>3
  <2>3. ASSUME NEW v \in Workers PROVE AtWork(v)'
    <3>1. CASE v = w
      BY <1>3, <2>2, <3>1 DEF AtWork, ReadAfter, Read, ReadFirst
    <3>2. CASE v # w
      BY <1>2, <1>3, <2>2, <3>2
    <3> QED BY <3>1, <3>2
  <2> QED BY <1>1, <1>3, <2>1, <2>3
<1>4. ASSUME NEW w \in Workers, UNCHANGED <<facts, covered>>, worker' = [worker EXCEPT ![w] = Resting]
      PROVE  DrainersStep!3
  <2>1. Resting \in DrainerRecord /\ Resting.at = "rest"
    BY DEF Resting, DrainerRecord, WorkStages
  <2> QED BY <1>1, <1>3, <1>4, <2>1
<1>5. ASSUME NEW w \in Workers, NEW f \in Facts, ClaimObligation(w, f) PROVE DrainersStep!3
  <2> DEFINE new == [Resting EXCEPT !.at = "load", !.on = f]
  <2>1. worker' = [worker EXCEPT ![w] = new] /\ UNCHANGED <<facts, covered>> /\ f \in facts
    BY <1>5 DEF ClaimObligation, WorkOpen, WorkPending, ReassessInv, Owed
  <2>2. new \in DrainerRecord /\ new.at = "load" /\ new.on = f
    BY DEF Resting, DrainerRecord, WorkStages
  <2> HIDE DEF new
  <2> QED BY <1>1, <1>3, <2>1, <2>2
<1>6. ASSUME NEW w \in Workers, worker[w].at # "rest", NEW result \in Results,
             result = "done" => Read(worker[w].on), With(w, "renew", result),
             UNCHANGED <<facts, covered>>
      PROVE  DrainersStep!3
  <2> DEFINE new == [worker[w] EXCEPT !.at = "renew", !.result = result]
  <2>1. worker' = [worker EXCEPT ![w] = new]
    BY <1>1, <1>6 DEF With
  <2>2. new \in DrainerRecord /\ new.at = "renew" /\ new.result = result /\ new.on = worker[w].on
    BY <1>1 DEF DrainerRecord, WorkStages
  <2>3. worker[w].on \in facts
    BY <1>1, <1>6 DEF AtWork
  <2> HIDE DEF new
  <2>4. result = "done" => ReadAfter(new.on)
    BY <1>0, <1>6, <2>2, <2>3
  <2> QED BY <1>1, <1>3, <1>6, <2>1, <2>2, <2>3, <2>4
<1>7. ASSUME NEW w \in Workers, LoadSource(w) PROVE DrainersStep!3
  <2>1. worker[w].on \in facts /\ worker[w].at = "load" /\ UNCHANGED <<facts, covered>>
    BY <1>1, <1>7 DEF LoadSource, AtWork
  <2>2. CASE FindContract(w) /\ contract'
    <3> DEFINE new == [worker[w] EXCEPT !.at = "assess", !.saw = facts]
    <3>1. worker' = [worker EXCEPT ![w] = new]
      BY <1>1, <2>2 DEF FindContract
    <3>2. new \in DrainerRecord /\ new.at = "assess" /\ new.saw = facts /\ new.on = worker[w].on
      BY <1>1 DEF DrainerRecord, WorkStages
    <3> HIDE DEF new
    <3> QED BY <1>1, <1>3, <2>1, <3>1, <3>2
  <2>3. CASE FindContract(w) /\ ~contract'
    <3> DEFINE new == [worker[w] EXCEPT !.at = "dispatch"]
    <3>1. worker' = [worker EXCEPT ![w] = new]
      BY <1>1, <2>3 DEF FindContract, To
    <3>2. new \in DrainerRecord /\ new.at = "dispatch" /\ new.on = worker[w].on
      BY <1>1 DEF DrainerRecord, WorkStages
    <3> HIDE DEF new
    <3>3. ReadAfter(new.on)
      BY <2>1, <2>3, <3>2, AssessmentsStep
         DEF ContractFirst, NothingAssessed, ReadAfter, Read, ReadFirst
    <3> QED BY <1>1, <1>3, <2>1, <3>1, <3>2, <3>3
  <2>4. CASE With(w, "renew", "human")
    BY <1>6, <2>1, <2>4 DEF Results
  <2> QED BY <1>7, <2>2, <2>3, <2>4 DEF LoadSource
<1>8. ASSUME NEW w \in Workers, FinishAssessment(w) PROVE DrainersStep!3
  <2> DEFINE new == [worker[w] EXCEPT !.at = "dispatch", !.saw = {}]
  <2>1. worker' = [worker EXCEPT ![w] = new]
    BY <1>1, <1>8 DEF FinishAssessment
  <2>2. new \in DrainerRecord /\ new.at = "dispatch" /\ new.on = worker[w].on
    BY <1>1 DEF DrainerRecord, WorkStages
  <2>3. /\ worker[w].on \in facts /\ worker[w].on \in worker[w].saw /\ UNCHANGED facts
        /\ covered' = covered \union worker[w].saw /\ worker[w].saw \subseteq Facts
    BY <1>1, <1>8 DEF FinishAssessment, AtWork, DrainerRecord
  <2> HIDE DEF new
  <2>4. ReadAfter(new.on)
    BY <2>2, <2>3 DEF ReadAfter, Read
  <2> QED BY <1>1, <1>3, <2>1, <2>2, <2>3, <2>4
<1>9. ASSUME NEW w \in Workers, Dispatch(w) PROVE DrainersStep!3
  <2>1. PICK result \in {"done", "deferred", "human"} : With(w, "renew", result)
    BY <1>9 DEF Dispatch
  <2>2. result \in Results /\ worker[w].at = "dispatch" /\ UNCHANGED <<facts, covered>>
    BY <1>9 DEF Dispatch, Results
  <2>3. Read(worker[w].on)
    BY <1>1, <2>2 DEF AtWork
  <2> QED BY <1>6, <2>1, <2>2, <2>3
<1>10. ASSUME NEW w \in Workers, ProcessFails(w) PROVE DrainersStep!3
  <2> DEFINE new == [Resting EXCEPT !.at = "settle", !.on = worker[w].on, !.result = "failed"]
  <2>1. /\ worker' = [worker EXCEPT ![w] = new] /\ UNCHANGED <<facts, covered>>
        /\ worker[w].on \in facts
    BY <1>1, <1>10 DEF ProcessFails, AtWork
  <2>2. new \in DrainerRecord /\ new.at = "settle" /\ new.on = worker[w].on /\ new.result = "failed"
    BY <1>1, <2>1 DEF Resting, DrainerRecord, WorkStages, Results
  <2>3. "failed" \in Results
    BY DEF Results
  <2> HIDE DEF new
  <2> QED BY <1>1, <1>3, <2>1, <2>2, <2>3
<1>11. ASSUME NEW w \in Workers, LastRenewal(w) PROVE DrainersStep!3
  <2>1. CASE HoldsWork(w)
    <3> DEFINE new == [worker[w] EXCEPT !.at = "settle"]
    <3>1. worker' = [worker EXCEPT ![w] = new] /\ UNCHANGED <<facts, covered>> /\ worker[w].at = "renew"
      BY <1>1, <1>11, <2>1 DEF LastRenewal, To
    <3>2. /\ new \in DrainerRecord /\ new.at = "settle" /\ new.on = worker[w].on
          /\ new.result = worker[w].result
      BY <1>1 DEF DrainerRecord, WorkStages
    <3>3. /\ worker[w].on \in facts /\ worker[w].result \in Results
          /\ worker[w].result = "done" => Read(worker[w].on)
      BY <1>1, <3>1 DEF AtWork
    <3> HIDE DEF new
    <3>4. worker[w].result = "done" => ReadAfter(new.on)
      BY <1>0, <3>2, <3>3
    <3> QED BY <1>1, <1>3, <3>1, <3>2, <3>3, <3>4
  <2>2. CASE ~HoldsWork(w)
    BY <1>4, <1>11, <2>2 DEF LastRenewal
  <2> QED BY <2>1, <2>2
<1>12. ASSUME NEW w \in Workers, Settle(w) \/ WorkerStops(w) PROVE DrainersStep!3
  BY <1>4, <1>12 DEF Settle, WorkerStops
<1>13. CASE \/ UNCHANGED reassessVars \/ WorkTick \/ NoMoreFaults \/ AssessElsewhere
            \/ \E f \in Facts : RecordFact(f) \/ BecomesDue(f)
            \/ \E w \in Workers : RenewWork(w)
  <2>1. UNCHANGED worker
    BY <1>13 DEF reassessVars, WorkTick, NoMoreFaults, AssessElsewhere, RecordFact, BecomesDue,
                 RenewWork
  <2>2. /\ facts \subseteq facts' /\ facts' \subseteq Facts
        /\ covered \subseteq covered' /\ covered' \subseteq Facts
    BY <1>1, <1>13 DEF reassessVars, WorkTick, NoMoreFaults, AssessElsewhere, RecordFact, BecomesDue,
                       RenewWork
  <2> QED BY <1>1, <1>2, <2>1, <2>2
<1> QED BY <1>5, <1>7, <1>8, <1>9, <1>10, <1>11, <1>12, <1>13 DEF ReassessNext, Work

LEMMA ReassessInvStep == ReassessInv /\ [ReassessNext]_reassessVars => ReassessInv'
<1> SUFFICES ASSUME ReassessInv, [ReassessNext]_reassessVars PROVE ReassessInv'
  OBVIOUS
<1>1. obligation' \in [Facts -> ObligationRecord] /\ \A f \in Facts : ObligationMoves(f)
  BY ObligationsStep
<1>2. /\ worker' \in [Workers -> DrainerRecord]
      /\ facts \subseteq facts' /\ facts' \subseteq Facts
      /\ covered \subseteq covered' /\ covered' \subseteq Facts
      /\ \A w \in Workers : AtWork(w)'
  BY DrainersStep
<1>3. ASSUME NEW f \in Facts PROVE Owed(f)'
  <2>1. /\ Owed(f) /\ obligation[f].left \in Nat /\ obligation'[f].left \in Nat
        /\ f \in facts /\ Read(f) => Read(f)'
    BY <1>1, AssessmentsStep, ReadStays DEF ReassessInv, ReassessShape, ObligationRecord
  <2>2. CASE ObligationKept(f)
    BY <2>1, <2>2 DEF Owed, ObligationKept
  <2>3. CASE ObligationRecorded(f)
    BY <2>1, <2>3 DEF Owed, ObligationRecorded
  <2>4. CASE ObligationGoesOn(f)
    BY <2>1, <2>4 DEF Owed, ObligationGoesOn
  <2>5. CASE ObligationSettled(f)
    BY <2>1, <2>5 DEF Owed, ObligationSettled
  <2> QED BY <1>1, <2>2, <2>3, <2>4, <2>5 DEF ObligationMoves
<1> QED BY <1>1, <1>2, <1>3, AssessmentsStep DEF ReassessInv, ReassessShape

LEMMA ReassessInitInv == ReassessInit => ReassessInv
<1>1. Resting \in DrainerRecord /\ Resting.at = "rest"
  BY DEF Resting, DrainerRecord, WorkStages
<1>2. ReassessInit => ContractFirst /\ \A w \in Workers : AtWork(w)
  BY <1>1 DEF ReassessInit, ContractFirst, NothingAssessed, AtWork
<1>3. ReassessInit => ReassessShape /\ \A f \in Facts : Owed(f)
  BY <1>1 DEF ReassessInit, ReassessShape, Owed, ObligationRecord
<1> QED BY <1>2, <1>3 DEF ReassessInv

\* No fact is forgotten, for any number of facts, workers and tries, whatever
\* leases lapse, workers stop and facts arrive while one is assessed; and one
\* whose obligation ended before the contract is in the first assessment.
THEOREM FactsAreKept == ReassessSpec => []NoFactForgotten
<1>1. ReassessInv => NoFactForgotten
  BY DEF ReassessInv, ReassessShape, ObligationRecord, Owed, Read, NoFactForgotten
<1> QED BY <1>1, ReassessInitInv, ReassessInvStep, PTL DEF ReassessSpec

\* A worker that lost its lease settles nothing, and what is settled stays so.
THEOREM SettlementFenced == ReassessSpec => FencedSettlement
<1>1. ASSUME ReassessInv, [ReassessNext]_reassessVars, NEW f \in Facts
      PROVE  /\ obligation[f].state \in {"satisfied", "blocked"} => obligation'[f] = obligation[f]
             /\ obligation[f].state = "leased" /\ obligation'[f].state # "leased" =>
                  LET w == obligation[f].holder IN
                  worker[w].on = f /\ worker'[w] = Resting
  <2>1. ObligationMoves(f)
    BY <1>1, ObligationsStep
  <2> QED BY <2>1 DEF ObligationMoves, ObligationKept, ObligationRecorded, ObligationGoesOn,
                     ObligationSettled
<1>2. ReassessInv /\ [ReassessNext]_reassessVars =>
        [\A f \in Facts :
           /\ obligation[f].state \in {"satisfied", "blocked"} => obligation'[f] = obligation[f]
           /\ obligation[f].state = "leased" /\ obligation'[f].state # "leased" =>
                LET w == obligation[f].holder IN
                worker[w].on = f /\ worker'[w] = Resting]_reassessVars
  BY <1>1
<1> QED BY <1>2, ReassessInitInv, ReassessInvStep, PTL DEF ReassessSpec, FencedSettlement

-----------------------------------------------------------------------------
(* Follow-up requests *)

RequestRecord == [status : {"none", "queued", "promoting", "promoted"}, run : 0..MaxRuns]
CallerRecord == [at : Stages, req : Requests \union {NoRequest}, run : 0..MaxRuns]
UnderWay == {"read", "reserve", "create", "raced", "reset", "record", "finish"}

\* A request holds a run id from its reservation on, and a reservation is behind
\* the run its creation made; all the parent run's records of it name that run.
Reservation(r) ==
    /\ request[r].status \in Begun <=> request[r].run # NoRun
    /\ request[r].status = "promoted" =>
         runOf[r] = request[r].run /\ <<r, request[r].run>> \in recorded
    /\ \A n \in 1..MaxRuns : <<r, n>> \in recorded => runOf[r] = n
    /\ runOf[r] # NoRun /\ r \notin contested =>
         request[r].run = runOf[r] /\ request[r].status \in Begun

\* A promotion under way, k, goes by a run id; one that is about to create the
\* run goes by the id reserved, unless the request was put back under it; one
\* that goes on to record it has its run, and one to finish has recorded it.
Sound(k) ==
    /\ k.at \in UnderWay =>
         k.req \in Requests /\ request[k.req].status # "none" /\ k.run # NoRun
    /\ k.at = "create" /\ k.req \notin contested =>
         request[k.req].run = k.run /\ request[k.req].status \in Begun
    /\ k.at \in {"record", "finish"} => runOf[k.req] = k.run
    /\ k.at = "finish" => <<k.req, k.run>> \in recorded

\* No two requests have the same run, whatever ids they reserve.
RunsApart == \A r, q \in Requests : runOf[r] # NoRun /\ runOf[r] = runOf[q] => r = q

FollowUpInv ==
    /\ FollowUpsTypeOK
    /\ \A r \in Requests : Reservation(r)
    /\ \A c \in Callers : Sound(caller[c])
    /\ RunsApart

\* What a step may do to a request: nothing, queue it, reserve a run id for it,
\* put it back, or finish its promotion, its run created and recorded.  Unless
\* it is then contested, a request is put back when it has no run, and nobody
\* is about to create one.
RequestMoves(r) ==
    \/ request'[r] = request[r]
    \/ /\ request[r].status = "none" /\ request'[r].status = "queued"
       /\ request'[r].run = request[r].run
    \/ request[r].status = "queued" /\ request'[r].status = "promoting" /\ request'[r].run # NoRun
    \/ /\ request[r].status = "promoting" /\ request'[r].status = "queued"
       /\ request'[r].run = NoRun
       /\ \/ r \in contested'
          \/ /\ runOf[r] = NoRun /\ runOf'[r] = NoRun
             /\ \A c \in Callers : caller[c].at = "create" => caller[c].req # r
    \/ /\ request[r].status = "promoting" /\ request'[r].status = "promoted"
       /\ request'[r].run = request[r].run
       /\ runOf[r] = request[r].run /\ <<r, request[r].run>> \in recorded

\* What a step may do to the run of a request: nothing, or create it, under an
\* id no other run has and that the request has reserved, unless it was put
\* back under it.
RunMoves(r) ==
    \/ runOf'[r] = runOf[r]
    \/ /\ runOf[r] = NoRun /\ runOf'[r] # NoRun /\ request'[r] = request[r]
       /\ r \notin contested => request[r].run = runOf'[r] /\ request[r].status \in Begun
       /\ \A q \in Requests : runOf[q] # runOf'[r] /\ (q # r => runOf'[q] = runOf[q])

Moves ==
    /\ request' \in [Requests -> RequestRecord] /\ runOf' \in [Requests -> 0..MaxRuns]
    /\ contested \subseteq contested' /\ contested' \subseteq Requests
    /\ recorded \subseteq recorded' /\ recorded' \subseteq Requests \X (1..MaxRuns)
    /\ \A r \in Requests :
         /\ RequestMoves(r) /\ RunMoves(r)
         /\ \A n \in 1..MaxRuns : <<r, n>> \in recorded' => <<r, n>> \in recorded \/ runOf[r] = n

LEMMA OneRequest ==
    ASSUME FollowUpsTypeOK, NEW r \in Requests, NEW new \in RequestRecord,
           request' = [request EXCEPT ![r] = new]
    PROVE  /\ request' \in [Requests -> RequestRecord]
           /\ \A q \in Requests : request'[q] = IF q = r THEN new ELSE request[q]
BY DEF FollowUpsTypeOK, RequestRecord

LEMMA FollowUpRows ==
    ASSUME FollowUpInv
    PROVE  /\ request \in [Requests -> RequestRecord] /\ runOf \in [Requests -> 0..MaxRuns]
           /\ caller \in [Callers -> CallerRecord] /\ contested \subseteq Requests
           /\ recorded \subseteq Requests \X (1..MaxRuns)
           /\ \A r \in Requests : request[r] \in RequestRecord /\ runOf[r] \in 0..MaxRuns
           /\ \A c \in Callers : caller[c] \in CallerRecord
BY DEF FollowUpInv, FollowUpsTypeOK, RequestRecord, CallerRecord

LEMMA MovesStep == ASSUME FollowUpInv, [FollowUpNext]_followUpVars PROVE Moves
<1>1. /\ FollowUpsTypeOK
      /\ request \in [Requests -> RequestRecord] /\ runOf \in [Requests -> 0..MaxRuns]
      /\ caller \in [Callers -> CallerRecord] /\ contested \subseteq Requests
      /\ recorded \subseteq Requests \X (1..MaxRuns)
      /\ \A r \in Requests : request[r] \in RequestRecord /\ runOf[r] \in 0..MaxRuns
      /\ \A c \in Callers : caller[c] \in CallerRecord /\ Sound(caller[c])
  BY FollowUpRows DEF FollowUpInv
<1>2. CASE UNCHANGED <<request, runOf, recorded, contested>>
  BY <1>1, <1>2 DEF Moves, RequestMoves, RunMoves
<1>3. ASSUME NEW r \in Requests, NEW new \in RequestRecord, request' = [request EXCEPT ![r] = new],
             UNCHANGED <<runOf, recorded>>, contested \subseteq contested', contested' \subseteq Requests,
             request'[r] = new => RequestMoves(r)
      PROVE  Moves
  <2>1. /\ request' \in [Requests -> RequestRecord]
        /\ \A q \in Requests : request'[q] = IF q = r THEN new ELSE request[q]
    BY <1>1, <1>3, OneRequest
  <2> QED BY <1>1, <1>3, <2>1 DEF Moves, RequestMoves, RunMoves
<1>4. ASSUME NEW r \in Requests, QueueFollowUp(r) PROVE Moves
  <2> DEFINE new == [request[r] EXCEPT !.status = "queued"]
  <2>1. request' = [request EXCEPT ![r] = new] /\ UNCHANGED <<runOf, recorded, contested>>
    BY <1>1, <1>4 DEF QueueFollowUp
  <2>2. new \in RequestRecord /\ new.status = "queued" /\ new.run = request[r].run
    BY <1>1 DEF RequestRecord
  <2>3. request[r].status = "none"
    BY <1>4 DEF QueueFollowUp
  <2> HIDE DEF new
  <2> QED BY <1>1, <1>3, <2>1, <2>2, <2>3 DEF RequestMoves
<1>5. ASSUME NEW c \in Callers, Reserve(c) PROVE Moves
  <2> DEFINE r == caller[c].req
             new == [status |-> "promoting", run |-> caller[c].run]
  <2>1. /\ r \in Requests /\ caller[c].run \in 0..MaxRuns /\ caller[c].run # NoRun
        /\ UNCHANGED <<runOf, recorded, contested>>
    BY <1>1, <1>5 DEF Reserve, Sound, UnderWay, CallerRecord
  <2>2. CASE UNCHANGED request
    BY <1>2, <2>1, <2>2
  <2>3. CASE MayReserve(r) /\ request' = [request EXCEPT ![r] = new]
    <3>1. /\ new \in RequestRecord /\ new.status = "promoting" /\ new.run # NoRun
          /\ request[r].status = "queued"
      BY <2>1, <2>3 DEF RequestRecord, MayReserve
    <3> HIDE DEF r, new
    <3> QED BY <1>1, <1>3, <2>1, <2>3, <3>1 DEF RequestMoves
  <2> QED BY <1>5, <2>2, <2>3 DEF Reserve
<1>6. ASSUME NEW c \in Callers, CreateRun(c) PROVE Moves
  <2> DEFINE r == caller[c].req
  <2>1. UNCHANGED <<request, recorded, contested>> /\ caller[c].at = "create"
    BY <1>6 DEF CreateRun
  <2>2. /\ r \in Requests /\ caller[c].run # NoRun /\ caller[c].run \in 0..MaxRuns
        /\ r \notin contested => request[r].run = caller[c].run /\ request[r].status \in Begun
    BY <1>1, <2>1 DEF Sound, UnderWay, CallerRecord
  <2>3. CASE UNCHANGED runOf
    BY <1>2, <2>1, <2>3
  <2>4. CASE /\ runOf[r] = NoRun /\ \A q \in Requests : runOf[q] # caller[c].run
             /\ runOf' = [runOf EXCEPT ![r] = caller[c].run]
    <3>1. /\ runOf' \in [Requests -> 0..MaxRuns]
          /\ \A q \in Requests : runOf'[q] = IF q = r THEN caller[c].run ELSE runOf[q]
      BY <1>1, <2>2, <2>4
    <3> QED BY <1>1, <2>1, <2>2, <2>4, <3>1 DEF Moves, RequestMoves, RunMoves
  <2> QED BY <1>6, <2>3, <2>4 DEF CreateRun, Replayed, IdTaken
<1>7. ASSUME NEW c \in Callers, PutBack(c) PROVE Moves
  <2> DEFINE r == caller[c].req
             new == [status |-> "queued", run |-> NoRun]
  <2>1. /\ r \in Requests /\ UNCHANGED <<runOf, recorded>> /\ caller[c].at = "reset"
        /\ caller[c].run # NoRun
    BY <1>1, <1>7 DEF PutBack, Sound, UnderWay
  <2>2. new \in RequestRecord /\ new.status = "queued" /\ new.run = NoRun
    BY FollowUpsAssumption DEF RequestRecord, NoRun
  <2>3. CASE /\ Reserved(c) /\ request' = [request EXCEPT ![r] = new]
             /\ contested' = IF Overtaken(c) THEN contested \union {r} ELSE contested
    <3>1. request[r].status = "promoting" /\ request[r].run = caller[c].run
      BY <2>3 DEF Reserved
    <3>2. ASSUME r \notin contested'
          PROVE  /\ runOf[r] = NoRun
                 /\ \A d \in Callers : caller[d].at = "create" => caller[d].req # r
      <4>1. ~Overtaken(c) /\ r \notin contested
        BY <2>3, <3>2
      <4>2. Reservation(r)
        BY <2>1 DEF FollowUpInv
      <4>3. runOf[r] = NoRun
        BY <3>1, <4>1, <4>2 DEF Reservation, Overtaken, ReplayFits
      <4>4. ASSUME NEW d \in Callers, caller[d].at = "create", caller[d].req = r PROVE FALSE
        <5>1. request[r].run = caller[d].run /\ d # c
          BY <1>1, <2>1, <4>1, <4>4 DEF Sound
        <5> QED BY <3>1, <4>1, <4>4, <5>1 DEF Overtaken
      <4> QED BY <4>3, <4>4
    <3>3. contested \subseteq contested' /\ contested' \subseteq Requests
      BY <1>1, <2>1, <2>3
    <3> HIDE DEF r, new
    <3>4. request'[r] = new => RequestMoves(r)
      BY <2>1, <2>2, <3>1, <3>2 DEF RequestMoves
    <3> QED BY <1>3, <2>1, <2>2, <2>3, <3>3, <3>4
  <2>4. CASE UNCHANGED <<request, contested>>
    BY <1>2, <2>1, <2>4
  <2> QED BY <1>7, <2>3, <2>4 DEF PutBack
<1>8. ASSUME NEW c \in Callers, FinishPromotion(c) PROVE Moves
  <2> DEFINE r == caller[c].req
             new == [request[r] EXCEPT !.status = "promoted"]
  <2>1. /\ r \in Requests /\ UNCHANGED <<runOf, recorded, contested>>
        /\ runOf[r] = caller[c].run /\ <<r, caller[c].run>> \in recorded
    BY <1>1, <1>8 DEF FinishPromotion, Sound, UnderWay
  <2>2. new \in RequestRecord /\ new.status = "promoted" /\ new.run = request[r].run
    BY <1>1, <2>1 DEF RequestRecord
  <2>3. CASE Reserved(c) /\ request' = [request EXCEPT ![r] = new]
    <3>1. request[r].status = "promoting" /\ request[r].run = caller[c].run
      BY <2>3 DEF Reserved
    <3> HIDE DEF r, new
    <3> QED BY <1>1, <1>3, <2>1, <2>2, <2>3, <3>1 DEF RequestMoves
  <2>4. CASE UNCHANGED request
    BY <1>2, <2>1, <2>4
  <2>5. Reserved(c) => request' = [request EXCEPT ![r] = new]
    BY <1>1, <1>8, <2>1 DEF FinishPromotion
  <2>6. ~Reserved(c) => UNCHANGED request
    BY <1>8 DEF FinishPromotion
  <2> QED BY <2>3, <2>4, <2>5, <2>6
<1>9. ASSUME NEW r \in Requests, NEW n \in 1..MaxRuns, recorded' = recorded \union {<<r, n>>},
             <<r, n>> \in recorded \/ runOf[r] = n, UNCHANGED <<request, runOf, contested>>
      PROVE  Moves
  BY <1>1, <1>9 DEF Moves, RequestMoves, RunMoves
<1>10. ASSUME NEW c \in Callers, RecordPromotion(c) PROVE Moves
  <2>1. /\ caller[c].req \in Requests /\ caller[c].run # NoRun /\ caller[c].run \in 0..MaxRuns
        /\ runOf[caller[c].req] = caller[c].run
    BY <1>1, <1>10 DEF RecordPromotion, Sound, UnderWay, CallerRecord
  <2>2. caller[c].run \in 1..MaxRuns
    BY <2>1, FollowUpsAssumption DEF NoRun
  <2> QED BY <1>9, <1>10, <2>1, <2>2 DEF RecordPromotion
<1>11. ASSUME NEW c \in Callers, ReadRequest(c) PROVE Moves
  <2> DEFINE r == caller[c].req
  <2>1. /\ r \in Requests /\ UNCHANGED <<request, runOf, contested>>
        /\ request[r].status \in {"queued", "promoting", "promoted"}
    BY <1>1, <1>11 DEF ReadRequest, Sound, UnderWay, RequestRecord
  <2>2. CASE request[r].status \in {"queued", "promoting"}
    BY <1>2, <1>11, <2>1, <2>2 DEF ReadRequest
  <2>3. CASE request[r].status = "promoted"
    <3>1. recorded' = recorded \union {<<r, request[r].run>>}
      BY <1>11, <2>3 DEF ReadRequest
    <3> HIDE DEF r
    <3>2. request[r].run \in 1..MaxRuns /\ runOf[r] = request[r].run
      <4>1. request[r].run \in 0..MaxRuns /\ Reservation(r)
        <5>1. request[r] \in RequestRecord /\ Reservation(r)
          BY <1>1, <2>1 DEF FollowUpInv
        <5> QED BY <5>1 DEF RequestRecord
      <4>2. request[r].run # NoRun /\ runOf[r] = request[r].run
        BY <2>3, <4>1 DEF Reservation, Begun
      <4> QED BY <4>1, <4>2, FollowUpsAssumption DEF NoRun
    <3> QED BY <1>9, <2>1, <3>1, <3>2
  <2> QED BY <2>1, <2>2, <2>3
<1>12. CASE \/ UNCHANGED followUpVars \/ StopPromoting
            \/ \E c \in Callers : \/ PromoteNext(c) \/ StoreFails(c) \/ CheckCommitted(c)
                                   \/ \E r \in Requests, n \in 1..MaxRuns : PromoteOne(c, r, n)
  BY <1>2, <1>12 DEF followUpVars, StopPromoting, PromoteNext, StoreFails, CheckCommitted, PromoteOne
<1> QED BY <1>4, <1>5, <1>6, <1>7, <1>8, <1>10, <1>11, <1>12 DEF FollowUpNext, Promote

LEMMA ReservationStep ==
    ASSUME FollowUpInv, Moves, NEW r \in Requests PROVE Reservation(r)'
<1>1. /\ Reservation(r) /\ request[r] \in RequestRecord /\ runOf[r] \in 0..MaxRuns
      /\ r \notin contested' => r \notin contested
  BY FollowUpRows DEF FollowUpInv, Moves
<1>2. /\ RequestMoves(r) /\ RunMoves(r) /\ recorded \subseteq recorded'
      /\ recorded' \subseteq Requests \X (1..MaxRuns)
      /\ \A n \in 1..MaxRuns : <<r, n>> \in recorded' => <<r, n>> \in recorded \/ runOf[r] = n
      /\ request'[r] \in RequestRecord
  BY DEF Moves
<1>3. runOf[r] # NoRun => runOf'[r] = runOf[r]
  BY <1>2 DEF RunMoves
<1>4. \A n \in 1..MaxRuns : <<r, n>> \in recorded' => runOf'[r] = n
  BY <1>1, <1>2, <1>3, FollowUpsAssumption DEF Reservation, NoRun
<1>5. request'[r].status \in Begun <=> request'[r].run # NoRun
  BY <1>1, <1>2 DEF Reservation, RequestMoves, Begun
<1>6. ASSUME request'[r].status = "promoted"
      PROVE  runOf'[r] = request'[r].run /\ <<r, request'[r].run>> \in recorded'
  BY <1>1, <1>2, <1>3, <1>6 DEF Reservation, RequestMoves, Begun
<1>7. ASSUME runOf'[r] # NoRun, r \notin contested'
      PROVE  request'[r].run = runOf'[r] /\ request'[r].status \in Begun
  BY <1>1, <1>2, <1>7 DEF Reservation, RequestMoves, RunMoves, Begun
<1> QED BY <1>4, <1>5, <1>6, <1>7 DEF Reservation

\* What a promotion goes by stays true under whatever the others do.
LEMMA SoundStays ==
    ASSUME FollowUpInv, Moves, NEW c \in Callers, NEW k, k = caller[c] PROVE Sound(k)'
<1>1. Sound(k)
  BY DEF FollowUpInv
<1>2. CASE k.req \in Requests
  <2>1. /\ RequestMoves(k.req) /\ RunMoves(k.req) /\ recorded \subseteq recorded'
        /\ contested \subseteq contested'
    BY <1>2 DEF Moves
  <2> QED BY <1>1, <1>2, <2>1 DEF Sound, RequestMoves, RunMoves, Begun, UnderWay
<1>3. CASE k.req \notin Requests
  BY <1>1, <1>3 DEF Sound, UnderWay
<1> QED BY <1>2, <1>3

LEMMA CallersStep ==
    ASSUME FollowUpInv, Moves, [FollowUpNext]_followUpVars
    PROVE  caller' \in [Callers -> CallerRecord] /\ \A c \in Callers : Sound(caller[c])'
<1>1. /\ caller \in [Callers -> CallerRecord]
      /\ \A r \in Requests : request[r] \in RequestRecord
      /\ \A c \in Callers : caller[c] \in CallerRecord /\ Sound(caller[c])
  BY FollowUpRows DEF FollowUpInv
<1>2. ASSUME NEW c \in Callers, NEW k \in CallerRecord, caller'[c] = k, Sound(k)'
      PROVE  Sound(caller[c])'
  BY <1>2 DEF Sound
<1>3. ASSUME NEW c \in Callers, caller'[c] = caller[c] PROVE Sound(caller[c])'
  <2>1. PICK k \in CallerRecord : k = caller[c]
    BY <1>1
  <2>2. Sound(k)'
    BY <2>1, SoundStays
  <2> QED BY <1>2, <1>3, <2>1, <2>2
<1>4. CASE UNCHANGED caller
  BY <1>1, <1>3, <1>4
<1>5. ASSUME NEW c \in Callers, NEW new \in CallerRecord, caller' = [caller EXCEPT ![c] = new], Sound(new)'
      PROVE  CallersStep!4
  <2>1. caller' \in [Callers -> CallerRecord]
        /\ \A d \in Callers : caller'[d] = IF d = c THEN new ELSE caller[d]
    BY <1>1, <1>5
  <2> QED BY <1>2, <1>3, <1>5, <2>1
<1>6. ASSUME NEW c \in Callers, NEW stage \in Stages, Goto(c, stage), caller[c].at \in UnderWay,
             stage # "create",
             stage \in {"record", "finish"} => runOf'[caller[c].req] = caller[c].run,
             stage = "finish" => <<caller[c].req, caller[c].run>> \in recorded'
      PROVE  CallersStep!4
  <2>1. PICK k \in CallerRecord : k = caller[c]
    BY <1>1
  <2> DEFINE new == [k EXCEPT !.at = stage]
  <2>2. new \in CallerRecord /\ new.at = stage /\ new.req = k.req /\ new.run = k.run
    BY DEF CallerRecord
  <2>3. caller' = [caller EXCEPT ![c] = new]
    BY <1>1, <1>6, <2>1 DEF Goto
  <2>4. Sound(k)'
    BY <2>1, SoundStays
  <2> HIDE DEF new
  <2>5. Sound(new)'
    BY <1>6, <2>1, <2>2, <2>4 DEF Sound, UnderWay
  <2> QED BY <1>5, <2>2, <2>3, <2>5
<1>7. Idle \in CallerRecord /\ Sound(Idle)'
  BY FollowUpsAssumption DEF Idle, CallerRecord, Stages, NoRequest, NoRun, Sound, UnderWay
<1>8. ASSUME NEW c \in Callers, Returns(c) PROVE CallersStep!4
  BY <1>5, <1>7, <1>8 DEF Returns
<1>9. ASSUME NEW c \in Callers, NEW r \in Requests, NEW n \in 0..MaxRuns, n # NoRun,
             request[r].status # "none", Takes(c, r, n)
      PROVE  CallersStep!4
  <2>1. RequestMoves(r)
    BY DEF Moves
  <2>2. PICK k : k = [at |-> "read", req |-> r, run |-> n]
    OBVIOUS
  <2>3. k \in CallerRecord /\ k.at = "read" /\ k.req = r /\ k.run = n
    BY <2>2 DEF CallerRecord, Stages
  <2>4. Sound(k)'
    BY <1>9, <2>1, <2>3 DEF Sound, RequestMoves
  <2> QED BY <1>5, <1>9, <2>2, <2>3, <2>4 DEF Takes
<1>10. ASSUME NEW c \in Callers, PromoteNext(c) PROVE CallersStep!4
  <2>1. PICK r \in Requests :
          \/ request[r].status = "promoting" /\ Takes(c, r, request[r].run)
          \/ /\ request[r].status = "queued"
             /\ \E n \in 1..MaxRuns : Takes(c, r, n)
    BY <1>10 DEF PromoteNext, FirstWith
  <2>2. CASE request[r].status = "promoting" /\ Takes(c, r, request[r].run)
    <3>1. request[r].run # NoRun /\ request[r].run \in 0..MaxRuns
      BY <1>1, <2>2 DEF FollowUpInv, Reservation, Begun, RequestRecord
    <3> QED BY <1>9, <2>2, <3>1
  <2>3. CASE request[r].status = "queued" /\ \E n \in 1..MaxRuns : Takes(c, r, n)
    <3>1. PICK n \in 1..MaxRuns : Takes(c, r, n)
      BY <2>3
    <3>2. n \in 0..MaxRuns /\ n # NoRun
      BY FollowUpsAssumption DEF NoRun
    <3> QED BY <1>9, <2>3, <3>1, <3>2
  <2> QED BY <2>1, <2>2, <2>3
<1>11. ASSUME NEW c \in Callers, NEW r \in Requests, NEW n \in 1..MaxRuns, PromoteOne(c, r, n)
       PROVE  CallersStep!4
  <2>1. n \in 0..MaxRuns /\ n # NoRun
    BY FollowUpsAssumption DEF NoRun
  <2> QED BY <1>9, <1>11, <2>1 DEF PromoteOne
<1>12. ASSUME NEW c \in Callers, caller[c].at \in UnderWay, NEW run \in 0..MaxRuns,
              caller' = [caller EXCEPT ![c].at = "create", ![c].run = run], run # NoRun,
              request'[caller[c].req].run = run, request'[caller[c].req].status = "promoting"
       PROVE  CallersStep!4
  <2>1. PICK k \in CallerRecord : k = caller[c]
    BY <1>1
  <2> DEFINE new == [k EXCEPT !.at = "create", !.run = run]
  <2>2. new \in CallerRecord /\ new.at = "create" /\ new.req = k.req /\ new.run = run
    BY <1>12 DEF CallerRecord, Stages
  <2>3. caller' = [caller EXCEPT ![c] = new]
    BY <1>1, <1>12, <2>1
  <2>4. Sound(k)'
    BY <2>1, SoundStays
  <2> HIDE DEF new
  <2>5. Sound(new)'
    BY <1>12, <2>1, <2>2, <2>4 DEF Sound, UnderWay, Begun
  <2> QED BY <1>5, <2>2, <2>3, <2>5
<1>13. ASSUME NEW c \in Callers, caller[c].at \in UnderWay, request[caller[c].req].status = "promoting",
              UNCHANGED request,
              caller' = [caller EXCEPT ![c].at = "create", ![c].run = request[caller[c].req].run]
       PROVE  CallersStep!4
  <2> DEFINE r == caller[c].req
  <2>1. r \in Requests
    BY <1>1, <1>13 DEF Sound
  <2>2. request[r].run # NoRun /\ request[r].run \in 0..MaxRuns
    BY <1>1, <1>13, <2>1 DEF FollowUpInv, Reservation, Begun, RequestRecord
  <2> QED BY <1>12, <1>13, <2>2
<1>14. ASSUME NEW c \in Callers, ReadRequest(c) PROVE CallersStep!4
  <2>1. /\ caller[c].at = "read" /\ caller[c].at \in UnderWay /\ caller[c].req \in Requests
        /\ request[caller[c].req].status \in {"queued", "promoting", "promoted"}
        /\ UNCHANGED request
    BY <1>1, <1>14 DEF ReadRequest, Sound, UnderWay, RequestRecord
  <2>2. CASE request[caller[c].req].status = "queued"
    <3>1. Goto(c, "reserve")
      BY <1>14, <2>2 DEF ReadRequest
    <3> QED BY <1>6, <2>1, <3>1 DEF Stages
  <2>3. CASE request[caller[c].req].status = "promoting"
    <3>1. caller' = [caller EXCEPT ![c].at = "create", ![c].run = request[caller[c].req].run]
      BY <1>14, <2>3 DEF ReadRequest
    <3> QED BY <1>13, <2>1, <2>3, <3>1
  <2>4. CASE request[caller[c].req].status = "promoted"
    BY <1>8, <1>14, <2>4 DEF ReadRequest
  <2> QED BY <2>1, <2>2, <2>3, <2>4
<1>15. ASSUME NEW c \in Callers, Reserve(c) PROVE CallersStep!4
  <2> DEFINE r == caller[c].req
  <2>1. /\ caller[c].at \in UnderWay /\ r \in Requests /\ caller[c].run # NoRun
        /\ caller[c].run \in 0..MaxRuns
    BY <1>1, <1>15 DEF Reserve, UnderWay, Sound, CallerRecord
  <2>2. CASE /\ request' = [request EXCEPT ![r] = [status |-> "promoting", run |-> caller[c].run]]
             /\ Goto(c, "create")
    <3>1. request'[r].run = caller[c].run /\ request'[r].status = "promoting"
      BY <2>1, <2>2, FollowUpRows
    <3>2. caller' = [caller EXCEPT ![c].at = "create", ![c].run = caller[c].run]
      BY <1>1, <2>2 DEF Goto, CallerRecord
    <3> QED BY <1>12, <2>1, <3>1, <3>2
  <2>3. CASE /\ request[r].status = "promoting" /\ UNCHANGED request
             /\ caller' = [caller EXCEPT ![c].at = "create", ![c].run = request[r].run]
    BY <1>13, <2>1, <2>3
  <2> QED BY <1>8, <1>15, <2>2, <2>3 DEF Reserve
<1>16. ASSUME NEW c \in Callers, CreateRun(c) PROVE CallersStep!4
  <2>1. /\ caller[c].at = "create" /\ caller[c].at \in UnderWay /\ caller[c].req \in Requests
    BY <1>1, <1>16 DEF CreateRun, UnderWay, Sound
  <2>2. CASE Goto(c, "raced")
    BY <1>6, <2>1, <2>2 DEF Stages
  <2>3. CASE Goto(c, "record") /\ runOf'[caller[c].req] = caller[c].run
    BY <1>6, <2>1, <2>3 DEF Stages
  <2>4. CASE runOf' = [runOf EXCEPT ![caller[c].req] = caller[c].run] /\ Goto(c, "record")
    <3>1. runOf'[caller[c].req] = caller[c].run
      BY <2>1, <2>4, FollowUpRows
    <3> QED BY <2>3, <2>4, <3>1
  <2> QED BY <1>8, <1>16, <2>2, <2>3, <2>4 DEF CreateRun, ReplayFits
<1>17. ASSUME NEW c \in Callers, CheckCommitted(c) PROVE CallersStep!4
  <2>1. caller[c].at \in UnderWay /\ UNCHANGED runOf
    BY <1>17 DEF CheckCommitted, UnderWay
  <2> QED BY <1>6, <1>8, <1>17, <2>1 DEF CheckCommitted, ReplayFits, Stages
<1>18. ASSUME NEW c \in Callers, RecordPromotion(c) PROVE CallersStep!4
  <2>1. /\ caller[c].at \in UnderWay /\ UNCHANGED runOf
        /\ runOf[caller[c].req] = caller[c].run
        /\ <<caller[c].req, caller[c].run>> \in recorded' /\ Goto(c, "finish")
    BY <1>1, <1>18 DEF RecordPromotion, Sound, UnderWay
  <2> QED BY <1>6, <2>1 DEF Stages
<1>19. ASSUME NEW c \in Callers, PutBack(c) \/ FinishPromotion(c) \/ StoreFails(c) PROVE CallersStep!4
  BY <1>8, <1>19 DEF PutBack, FinishPromotion, StoreFails
<1>20. CASE StopPromoting
  <2>1. caller' = [c \in Callers |-> Idle]
    BY <1>20 DEF StopPromoting
  <2> QED BY <1>2, <1>7, <2>1
<1>21. CASE UNCHANGED followUpVars \/ \E r \in Requests : QueueFollowUp(r)
  BY <1>4, <1>21 DEF followUpVars, QueueFollowUp
<1> QED BY <1>10, <1>11, <1>14, <1>15, <1>16, <1>17, <1>18, <1>19, <1>20, <1>21
        DEF FollowUpNext, Promote

LEMMA FollowUpInvStep == FollowUpInv /\ [FollowUpNext]_followUpVars => FollowUpInv'
<1> SUFFICES ASSUME FollowUpInv, [FollowUpNext]_followUpVars PROVE FollowUpInv'
  OBVIOUS
<1>1. Moves
  BY MovesStep
<1>2. \A r \in Requests : Reservation(r)'
  BY <1>1, ReservationStep
<1>3. caller' \in [Callers -> CallerRecord] /\ \A c \in Callers : Sound(caller[c])'
  BY <1>1, CallersStep
<1>4. RunsApart'
  <2>1. RunsApart /\ \A r \in Requests : RunMoves(r)
    BY <1>1 DEF FollowUpInv, Moves
  <2> QED BY <2>1 DEF RunsApart, RunMoves
<1> QED BY <1>1, <1>2, <1>3, <1>4
        DEF FollowUpInv, FollowUpsTypeOK, Moves, RequestRecord, CallerRecord

LEMMA FollowUpInitInv == FollowUpInit => FollowUpInv
<1> SUFFICES ASSUME FollowUpInit PROVE FollowUpInv
  OBVIOUS
<1>1. Idle \in CallerRecord /\ Sound(Idle)
  BY FollowUpsAssumption DEF Idle, CallerRecord, Stages, NoRequest, NoRun, Sound, UnderWay
<1>2. \A c \in Callers : caller[c] = Idle
  BY DEF FollowUpInit
<1>3. FollowUpsTypeOK
  <2>1. NoRun \in 0..MaxRuns
    BY FollowUpsAssumption DEF NoRun
  <2>2. request \in [Requests -> RequestRecord]
    BY <2>1 DEF FollowUpInit, RequestRecord
  <2>3. runOf \in [Requests -> 0..MaxRuns] /\ caller \in [Callers -> CallerRecord]
    BY <1>1, <2>1 DEF FollowUpInit
  <2> QED BY <2>1, <2>2, <2>3 DEF FollowUpInit, FollowUpsTypeOK, RequestRecord, CallerRecord
<1>4. RunsApart /\ \A r \in Requests : Reservation(r)
  BY DEF FollowUpInit, Reservation, RunsApart, Begun, NoRun
<1> QED BY <1>1, <1>2, <1>3, <1>4 DEF FollowUpInv

\* What a promoted request, its run and the parent run's record say is the same,
\* for any number of requests and callers, wherever each of them stops.
THEOREM PromotionsHaveRuns == FollowUpSpec => []PromotedHasItsRun
<1>1. ASSUME FollowUpInv, NEW r \in Requests, request[r].status = "promoted"
      PROVE  /\ request[r].run # NoRun /\ runOf[r] = request[r].run
             /\ {n \in 1..MaxRuns : <<r, n>> \in recorded} = {request[r].run}
  <2>1. Reservation(r) /\ request[r].run \in 0..MaxRuns
    BY <1>1, FollowUpRows DEF FollowUpInv, RequestRecord
  <2>2. /\ request[r].run # NoRun /\ runOf[r] = request[r].run
        /\ <<r, request[r].run>> \in recorded
        /\ \A n \in 1..MaxRuns : <<r, n>> \in recorded => n = request[r].run
    BY <1>1, <2>1 DEF Reservation, Begun
  <2>3. request[r].run \in 1..MaxRuns
    BY <2>1, <2>2, FollowUpsAssumption DEF NoRun
  <2> QED BY <2>2, <2>3
<1>2. FollowUpInv => PromotedHasItsRun
  BY <1>1 DEF PromotedHasItsRun
<1> QED BY <1>2, FollowUpInitInv, FollowUpInvStep, PTL DEF FollowUpSpec

\* A run created for a request is the one the request has reserved, unless the
\* request was put back when another caller had created that run, or was about
\* to create it: in no other case is the reservation of a run lost.
THEOREM ReservationsKept == FollowUpSpec => []ReservationKept
<1>1. FollowUpInv => ReservationKept
  BY DEF FollowUpInv, Reservation, ReservationKept
<1> QED BY <1>1, FollowUpInitInv, FollowUpInvStep, PTL DEF FollowUpSpec

\* A promotion is final, and no second run is created for a request.
THEOREM PromotionsStay == FollowUpSpec => PromotionStays
<1>1. FollowUpInv /\ [FollowUpNext]_followUpVars =>
        [\A r \in Requests :
           /\ request[r].status = "promoted" => request'[r] = request[r]
           /\ runOf[r] # NoRun => runOf'[r] = runOf[r]]_followUpVars
  BY MovesStep DEF Moves, RequestMoves, RunMoves
<1> QED BY <1>1, FollowUpInitInv, FollowUpInvStep, PTL DEF FollowUpSpec, PromotionStays

\* No two follow-up requests ever share a run (repository.ts,
\* createRunFromFollowUpRequest): none has the run of another, none is promoted
\* with the run of another, and the parent run's records do not give them the
\* same; also when they are asked for, and reserved, under one id.
RunsDistinct ==
    \A r, q \in Requests :
        \/ runOf[r] # NoRun /\ runOf[r] = runOf[q]
        \/ /\ request[r].status = "promoted" /\ request[q].status = "promoted"
           /\ request[r].run = request[q].run
        \/ \E n \in 1..MaxRuns : <<r, n>> \in recorded /\ <<q, n>> \in recorded
        => r = q

\* Two follow-up requests never get the same run, whoever promotes which under
\* what id, and whatever was put back and reserved again.
THEOREM RunsAreNotShared == FollowUpSpec => []RunsDistinct
<1>1. ASSUME FollowUpInv, NEW r \in Requests, NEW q \in Requests
      PROVE  /\ runOf[r] # NoRun /\ runOf[r] = runOf[q] => r = q
             /\ request[r].status = "promoted" /\ request[q].status = "promoted"
                  /\ request[r].run = request[q].run => r = q
             /\ \A n \in 1..MaxRuns : <<r, n>> \in recorded /\ <<q, n>> \in recorded => r = q
  <2>1. Reservation(r) /\ Reservation(q) /\ (runOf[r] # NoRun /\ runOf[r] = runOf[q] => r = q)
    BY <1>1 DEF FollowUpInv, RunsApart
  <2>2. request[r].status = "promoted" /\ request[q].status = "promoted"
          /\ request[r].run = request[q].run => r = q
    BY <2>1 DEF Reservation, Begun
  <2>3. \A n \in 1..MaxRuns : n # NoRun
    BY FollowUpsAssumption DEF NoRun
  <2> QED BY <2>1, <2>2, <2>3 DEF Reservation
<1>2. FollowUpInv => RunsDistinct
  BY <1>1 DEF RunsDistinct
<1> QED BY <1>2, FollowUpInitInv, FollowUpInvStep, PTL DEF FollowUpSpec

-----------------------------------------------------------------------------
(* The projection outbox: whatever requests are lost, repeated and delayed,    *)
(* whatever pumps die holding a row or wake to find it taken from them.        *)

RowState == {"none", "pending", "leased", "acknowledged", "attention"}
RowRecord == [state : RowState, due : BOOLEAN, holder : Pumps \union {<<>>}, left : Nat]
PumpRecord == [at : {"asleep", "claim"} \union Sending, on : Rows \union {NoRow}]

\* What the variables hold.
OutboxShape ==
    /\ row \in [Rows -> RowRecord]
    /\ completion \in {"none", "open", "acknowledged"}
    /\ pump \in [Pumps -> PumpRecord]
    /\ \A u \in Pumps : pump[u].at \in Sending => pump[u].on \in Rows
    /\ lateRows \subseteq Rows
    /\ arrived \in Seq(Rows)

\* A request that is about to go, on its way or given up is one that nothing
\* kept back when its row was leased; what was taken arrived, and only what
\* arrived is acknowledged.
OutboxInv ==
    /\ OutboxShape
    /\ \A u \in Pumps :
         /\ pump[u].at \in Sending => Ready(pump[u].on)
         /\ pump[u].at = "taken" => pump[u].on \in Arrived
    /\ \A p \in lateRows : Ready(p)
    /\ \A p \in Rows : row[p].state = "acknowledged" => p \in Arrived

-----------------------------------------------------------------------------
(* What a step does to what is known of the destination *)

Confirmed == {p \in Rows : row[p].state = "acknowledged"}

\* What arrives in a step: nothing, or one ready projection for the first time.
ArrivesStep ==
    \/ UNCHANGED arrived
    \/ \E p \in Rows : Ready(p) /\ p \notin Arrived /\ arrived' = Append(arrived, p)

\* What a step acknowledges: nothing, or one row whose request was taken.
ConfirmsStep ==
    \/ Confirmed' = Confirmed
    \/ \E p \in Arrived : p \in Rows \ Confirmed /\ Confirmed' = Confirmed \union {p}

LEMMA ArrivedGrows ==
    ASSUME arrived \in Seq(Rows), NEW p \in Rows, arrived' = Append(arrived, p)
    PROVE  Arrived' = Arrived \union {p} /\ arrived' \in Seq(Rows)
BY DEF Arrived

LEMMA TakenArrives ==
    ASSUME OutboxShape, NEW p \in Rows, Ready(p), arrived' = Taken(p)
    PROVE  ArrivesStep /\ p \in Arrived' /\ Arrived \subseteq Arrived' /\ arrived' \in Seq(Rows)
<1>1. CASE p \in Arrived
  BY <1>1 DEF Taken, ArrivesStep, Arrived, OutboxShape
<1>2. CASE p \notin Arrived
  BY <1>2, ArrivedGrows DEF Taken, ArrivesStep, OutboxShape
<1> QED BY <1>1, <1>2

\* A row is written as whole: what it becomes is a row.
LEMMA ReleaseRow ==
    ASSUME OutboxShape, NEW p \in Rows, NEW s \in RowState, NEW d \in BOOLEAN
    PROVE  /\ Release(p, s, d) \in [Rows -> RowRecord]
           /\ Release(p, s, d)[p].state = s
           /\ \A q \in Rows \ {p} : Release(p, s, d)[q] = row[q]
BY DEF Release, OutboxShape, RowRecord

\* Each step keeps the rows rows, and acknowledges at most what was taken.
LEMMA RowsStep ==
    ASSUME OutboxInv, [OutboxNext]_outboxVars
    PROVE  row' \in [Rows -> RowRecord] /\ ConfirmsStep
<1> USE DEF RowState
<1>1. OutboxShape /\ row \in [Rows -> RowRecord]
  BY DEF OutboxInv, OutboxShape
<1>2. ASSUME row' \in [Rows -> RowRecord],
             \A p \in Rows : row'[p].state = "acknowledged" <=> row[p].state = "acknowledged"
      PROVE  row' \in [Rows -> RowRecord] /\ ConfirmsStep
  BY <1>2 DEF ConfirmsStep, Confirmed
<1>3. CASE UNCHANGED row
  BY <1>1, <1>2, <1>3
<1>4. ASSUME NEW p \in Rows, NEW s \in RowState \ {"acknowledged"}, NEW d \in BOOLEAN,
             row[p].state # "acknowledged", row' = Release(p, s, d)
      PROVE  row' \in [Rows -> RowRecord] /\ ConfirmsStep
  <2>1. /\ Release(p, s, d) \in [Rows -> RowRecord]
        /\ Release(p, s, d)[p].state = s
        /\ \A q \in Rows \ {p} : Release(p, s, d)[q] = row[q]
    BY <1>1, ReleaseRow
  <2>2. \A q \in Rows : row'[q].state = "acknowledged" <=> row[q].state = "acknowledged"
    BY <1>4, <2>1
  <2> QED BY <1>2, <1>4, <2>1, <2>2
<1>5. ASSUME NEW p \in Rows, EnqueueRow(p) \/ RowDue(p)
      PROVE  row' \in [Rows -> RowRecord] /\ ConfirmsStep
  <2>1. row' \in [Rows -> RowRecord]
    <3>1. CASE EnqueueRow(p)
      <4>1. row' = [row EXCEPT ![p].state = "pending", ![p].due = TRUE]
        BY <3>1 DEF EnqueueRow
      <4>2. \A q \in Rows : row'[q] = IF q = p THEN [row[p] EXCEPT !.state = "pending", !.due = TRUE]
                                              ELSE row[q]
        BY <1>1, <4>1
      <4>3. [row[p] EXCEPT !.state = "pending", !.due = TRUE] \in RowRecord
        BY <1>1 DEF RowRecord
      <4>4. row' = [q \in Rows |-> row'[q]]
        BY <1>1, <4>1
      <4> QED BY <1>1, <4>2, <4>3, <4>4
    <3>2. CASE RowDue(p)
      <4>1. row' = [row EXCEPT ![p].due = TRUE]
        BY <3>2 DEF RowDue
      <4>2. \A q \in Rows : row'[q] = IF q = p THEN [row[p] EXCEPT !.due = TRUE] ELSE row[q]
        BY <1>1, <4>1
      <4>3. [row[p] EXCEPT !.due = TRUE] \in RowRecord
        BY <1>1 DEF RowRecord
      <4>4. row' = [q \in Rows |-> row'[q]]
        BY <1>1, <4>1
      <4> QED BY <1>1, <4>2, <4>3, <4>4
    <3> QED BY <1>5, <3>1, <3>2
  <2>2. \A q \in Rows : row'[q].state = "acknowledged" <=> row[q].state = "acknowledged"
    BY <1>1, <1>5 DEF EnqueueRow, RowDue, RowRecord
  <2> QED BY <1>2, <2>1, <2>2
<1>6. ASSUME NEW u \in Pumps, WakePump(u)
      PROVE  row' \in [Rows -> RowRecord] /\ ConfirmsStep
  <2>1. \A p \in Rows : row'[p] = IF ExpiredRow(p) THEN Release(p, "pending", TRUE)[p] ELSE row[p]
    BY <1>6 DEF WakePump
  <2>2. \A p \in Rows : /\ row'[p] \in RowRecord
                        /\ row'[p].state = "acknowledged" <=> row[p].state = "acknowledged"
    BY <1>1, <2>1, ReleaseRow DEF ExpiredRow
  <2>3. row' = [p \in Rows |-> row'[p]]
    BY <1>6 DEF WakePump
  <2> QED BY <1>2, <2>2, <2>3
<1>7. ASSUME NEW u \in Pumps, NEW found \in Rows \union {NoRow}, NEW passed \in SUBSET BrokenRows,
             found \in Rows => found \in ReadyRows, row' = Claimed(u, found, passed)
      PROVE  row' \in [Rows -> RowRecord] /\ ConfirmsStep
  <2>1. RowLease \in Nat
    BY OutboxAssumption
  <2>2. \A p \in passed : row[p].state = "pending"
    BY DEF BrokenRows, DueRows, Due
  <2>3. \A p \in Rows : p = found => row[p].state = "pending"
    BY <1>7 DEF ReadyRows, DueRows, Due
  <2>4. \A p \in Rows : row'[p] = IF p = found
                                  THEN [row[p] EXCEPT !.state = "leased", !.holder = u, !.left = RowLease]
                                  ELSE IF p \in passed THEN Release(p, "attention", FALSE)[p] ELSE row[p]
    BY <1>7 DEF Claimed
  <2>5. \A p \in Rows : LET new == [row[p] EXCEPT !.state = "leased", !.holder = u, !.left = RowLease]
                        IN  new \in RowRecord /\ new.state = "leased"
    BY <1>1, <2>1 DEF RowRecord
  <2>6. ASSUME NEW p \in Rows
        PROVE  /\ row'[p] \in RowRecord
               /\ row'[p].state = "acknowledged" <=> row[p].state = "acknowledged"
    <3>1. CASE p = found
      BY <2>3, <2>4, <2>5, <3>1
    <3>2. CASE p # found /\ p \in passed
      <4>1. row'[p] = Release(p, "attention", FALSE)[p]
        BY <2>4, <3>2
      <4>2. Release(p, "attention", FALSE)[p] \in RowRecord /\ Release(p, "attention", FALSE)[p].state = "attention"
        BY <1>1, ReleaseRow
      <4> QED BY <2>2, <3>2, <4>1, <4>2
    <3>3. CASE p # found /\ p \notin passed
      BY <1>1, <2>4, <3>3
    <3> QED BY <3>1, <3>2, <3>3
  <2>7. row' = [p \in Rows |-> row'[p]]
    BY <1>7 DEF Claimed
  <2> QED BY <1>2, <2>6, <2>7
<1>8. ASSUME NEW u \in Pumps, ClaimRow(u)
      PROVE  row' \in [Rows -> RowRecord] /\ ConfirmsStep
  <2>1. NoRow \notin Rows
    BY OutboxAssumption DEF NoRow, NoParent
  <2>2. \E found \in Rows \union {NoRow}, passed \in SUBSET BrokenRows :
           (found \in Rows => found \in ReadyRows) /\ row' = Claimed(u, found, passed)
    BY <1>8, <2>1 DEF ClaimRow, ReadyRows, DueRows
  <2> QED BY <1>7, <2>2
<1>9. ASSUME NEW u \in Pumps, GiveBackRow(u)
      PROVE  row' \in [Rows -> RowRecord] /\ ConfirmsStep
  <2>1. pump[u].on \in Rows
    BY <1>1, <1>9 DEF GiveBackRow, OutboxShape, Sending
  <2> QED BY <1>3, <1>4, <1>9, <2>1 DEF GiveBackRow, HoldsRow
<1>10. ASSUME NEW u \in Pumps, SettleRow(u)
       PROVE  row' \in [Rows -> RowRecord] /\ ConfirmsStep
  <2>1. pump[u].on \in Rows
    BY <1>1, <1>10 DEF SettleRow, OutboxShape, Sending
  <2>2. CASE HoldsRow(u) /\ AnswerIsGood(u) /\ row' # Release(pump[u].on, "attention", FALSE)
    <3>1. /\ row' = Release(pump[u].on, "acknowledged", FALSE) /\ row[pump[u].on].state = "leased"
          /\ pump[u].on \in Arrived
      BY <1>10, <2>2 DEF SettleRow, HoldsRow, AnswerIsGood, OutboxInv
    <3>2. LET p == pump[u].on IN
          /\ Release(p, "acknowledged", FALSE) \in [Rows -> RowRecord]
          /\ Release(p, "acknowledged", FALSE)[p].state = "acknowledged"
          /\ \A q \in Rows \ {p} : Release(p, "acknowledged", FALSE)[q] = row[q]
      BY <1>1, <2>1, ReleaseRow
    <3>3. Confirmed' = Confirmed \union {pump[u].on} /\ pump[u].on \notin Confirmed
      BY <2>1, <3>1, <3>2 DEF Confirmed
    <3> QED BY <2>1, <3>1, <3>2, <3>3 DEF ConfirmsStep
  <2>3. CASE ~(HoldsRow(u) /\ AnswerIsGood(u) /\ row' # Release(pump[u].on, "attention", FALSE))
    BY <1>3, <1>4, <1>10, <2>1, <2>3 DEF SettleRow, HoldsRow
  <2> QED BY <2>2, <2>3
<1>11. CASE RowTick
  <2>1. \A p \in Rows : row[p].left > 0 => row[p].left - 1 \in Nat
    BY <1>1 DEF RowRecord
  <2>2. \A p \in Rows : row'[p] \in RowRecord /\ row'[p].state = row[p].state
    BY <1>1, <1>11, <2>1 DEF RowTick, RowRecord
  <2>3. row' = [p \in Rows |-> row'[p]]
    BY <1>11 DEF RowTick
  <2> QED BY <1>2, <2>2, <2>3
<1>12. CASE \/ CompletionMoves \/ LastFault \/ UNCHANGED outboxVars
            \/ \E p \in Rows : TakeLateRow(p)
            \/ \E u \in Pumps : SendRow(u) \/ TakeRow(u) \/ RefuseRow(u) \/ LoseRow(u) \/ StopPump(u)
  BY <1>3, <1>12 DEF CompletionMoves, LastFault, outboxVars, TakeLateRow, SendRow, TakeRow,
                     RefuseRow, LoseRow, StopPump
<1> QED BY <1>5, <1>6, <1>8, <1>9, <1>10, <1>11, <1>12 DEF OutboxNext, PumpStep

-----------------------------------------------------------------------------
(* What a step does to the pumps and the requests on their way *)

\* A pump goes on with the projection it has, leaves it, or begins with one
\* that nothing keeps back.
PumpMoves(v) ==
    \/ pump'[v] = pump[v]
    \/ /\ pump'[v] \in PumpRecord
       /\ pump'[v].at \in Sending =>
            /\ pump'[v].on \in Rows /\ Ready(pump'[v].on)
            /\ pump'[v].at = "taken" => pump'[v].on \in Arrived'

LEMMA OnePump ==
    ASSUME OutboxShape, NEW u \in Pumps, NEW new \in PumpRecord, pump' = [pump EXCEPT ![u] = new],
           new.at \in Sending =>
             new.on \in Rows /\ Ready(new.on) /\ (new.at = "taken" => new.on \in Arrived')
    PROVE  \A v \in Pumps : PumpMoves(v)
BY DEF OutboxShape, PumpMoves

\* A pump that has a projection gets an answer or none, and goes on with it.
LEMMA PumpGoesOn ==
    ASSUME OutboxInv, NEW u \in Pumps, pump[u].at \in Sending, NEW s \in Sending, PumpTo(u, s),
           s = "taken" => pump[u].on \in Arrived'
    PROVE  \A v \in Pumps : PumpMoves(v)
<1>1. OutboxShape /\ pump[u] \in PumpRecord /\ pump[u].on \in Rows /\ Ready(pump[u].on)
  BY DEF OutboxInv, OutboxShape
<1>2. LET new == [pump[u] EXCEPT !.at = s] IN
      new \in PumpRecord /\ new.at = s /\ new.on = pump[u].on
  BY <1>1 DEF PumpRecord
<1>3. pump' = [pump EXCEPT ![u] = [pump[u] EXCEPT !.at = s]]
  BY DEF PumpTo
<1> QED BY <1>1, <1>2, <1>3, OnePump

LEMMA PumpsStep ==
    ASSUME OutboxInv, [OutboxNext]_outboxVars
    PROVE  /\ \A v \in Pumps : PumpMoves(v)
           /\ DOMAIN pump' = Pumps /\ pump' = [v \in Pumps |-> pump'[v]]
           /\ lateRows' \subseteq Rows
           /\ \A p \in lateRows' : Ready(p)
           /\ ArrivesStep /\ Arrived \subseteq Arrived' /\ arrived' \in Seq(Rows)
<1>1. OutboxShape /\ pump = [v \in Pumps |-> pump[v]] /\ \A p \in lateRows : p \in Rows /\ Ready(p)
  BY DEF OutboxInv, OutboxShape
<1>2. ASSUME UNCHANGED arrived
      PROVE  ArrivesStep /\ Arrived \subseteq Arrived' /\ arrived' \in Seq(Rows)
  BY <1>1, <1>2 DEF ArrivesStep, Arrived, OutboxShape
<1>3. ASSUME UNCHANGED <<pump, lateRows, arrived>> PROVE PumpsStep!3
  BY <1>1, <1>2, <1>3 DEF PumpMoves
<1>4. \A u \in Pumps : pump[u] \in PumpRecord
  BY <1>1 DEF OutboxShape
<1>5. Asleep \in PumpRecord /\ [at |-> "claim", on |-> NoRow] \in PumpRecord
      /\ Asleep.at \notin Sending /\ [at |-> "claim", on |-> NoRow].at \notin Sending
  BY DEF Asleep, PumpRecord, Sending
<1>6. ASSUME NEW u \in Pumps, pump[u].at \in Sending
      PROVE  pump[u].on \in Rows /\ Ready(pump[u].on)
  BY <1>6 DEF OutboxInv, OutboxShape
<1>7. ASSUME NEW p \in Rows, TakeLateRow(p) PROVE PumpsStep!3
  BY <1>1, <1>7, TakenArrives DEF TakeLateRow, PumpMoves
<1>8. ASSUME NEW u \in Pumps, WakePump(u) PROVE PumpsStep!3
  <2>1. LET new == [pump[u] EXCEPT !.at = "claim"] IN
        /\ new \in PumpRecord /\ new.at \notin Sending
        /\ pump' = [pump EXCEPT ![u] = new] /\ UNCHANGED <<lateRows, arrived>>
    BY <1>4, <1>8 DEF WakePump, PumpRecord, Sending
  <2> QED BY <1>1, <1>2, <2>1, OnePump
<1>9. ASSUME NEW u \in Pumps, ClaimRow(u) PROVE PumpsStep!3
  <2>1. UNCHANGED <<lateRows, arrived>>
    BY <1>9 DEF ClaimRow
  <2>2. ASSUME NEW p \in ReadyRows, pump' = [pump EXCEPT ![u] = [at |-> "send", on |-> p]]
        PROVE  PumpsStep!3
    <3>1. p \in Rows /\ Ready(p)
      BY DEF ReadyRows, DueRows
    <3>2. LET new == [at |-> "send", on |-> p] IN new \in PumpRecord /\ new.at # "taken"
      BY <3>1 DEF PumpRecord, Sending
    <3> QED BY <1>1, <1>2, <2>1, <2>2, <3>1, <3>2, OnePump
  <2>3. CASE pump' = [pump EXCEPT ![u] = Asleep]
    BY <1>1, <1>2, <1>5, <2>1, <2>3, OnePump
  <2> QED BY <1>9, <2>2, <2>3 DEF ClaimRow
<1>10. ASSUME NEW u \in Pumps, GiveBackRow(u) \/ SettleRow(u) PROVE PumpsStep!3
  <2>1. pump' = [pump EXCEPT ![u] = [at |-> "claim", on |-> NoRow]] /\ UNCHANGED <<lateRows, arrived>>
    BY <1>10 DEF GiveBackRow, SettleRow, PumpOn
  <2> QED BY <1>1, <1>2, <1>5, <2>1, OnePump
<1>11. ASSUME NEW u \in Pumps, SendRow(u) \/ RefuseRow(u) PROVE PumpsStep!3
  <2>1. /\ pump[u].at \in Sending /\ UNCHANGED <<lateRows, arrived>>
        /\ \E s \in Sending \ {"taken"} : PumpTo(u, s)
    BY <1>11 DEF SendRow, RefuseRow, Sending
  <2> QED BY <1>1, <1>2, <2>1, PumpGoesOn DEF PumpTo
<1>12. ASSUME NEW u \in Pumps, TakeRow(u) PROVE PumpsStep!3
  <2>1. /\ pump[u].at \in Sending /\ "taken" \in Sending /\ PumpTo(u, "taken")
        /\ UNCHANGED lateRows /\ arrived' = Taken(pump[u].on)
    BY <1>12 DEF TakeRow, Sending
  <2> QED BY <1>1, <1>6, <2>1, PumpGoesOn, TakenArrives DEF PumpTo
<1>13. ASSUME NEW u \in Pumps, LoseRow(u) PROVE PumpsStep!3
  <2>1. /\ pump[u].at \in Sending /\ "busy" \in Sending /\ PumpTo(u, "busy")
        /\ UNCHANGED arrived /\ lateRows' \subseteq lateRows \union {pump[u].on}
    BY <1>13 DEF LoseRow, Sending
  <2> QED BY <1>1, <1>2, <1>6, <2>1, PumpGoesOn DEF PumpTo
<1>14. ASSUME NEW u \in Pumps, StopPump(u) PROVE PumpsStep!3
  <2>1. /\ pump' = [pump EXCEPT ![u] = Asleep] /\ UNCHANGED arrived
        /\ \A p \in lateRows' : p \in lateRows \/ (p = pump[u].on /\ pump[u].at \in Sending)
    BY <1>14 DEF StopPump, Sending
  <2> QED BY <1>1, <1>2, <1>5, <1>6, <2>1, OnePump
<1>15. CASE \/ CompletionMoves \/ RowTick \/ LastFault \/ UNCHANGED outboxVars
            \/ \E p \in Rows : EnqueueRow(p) \/ RowDue(p)
  BY <1>3, <1>15 DEF CompletionMoves, RowTick, LastFault, outboxVars, EnqueueRow, RowDue
<1> QED BY <1>7, <1>8, <1>9, <1>10, <1>11, <1>12, <1>13, <1>14, <1>15 DEF OutboxNext, PumpStep

\* What the completion may do.
LEMMA CompletionStays ==
    ASSUME OutboxShape, [OutboxNext]_outboxVars
    PROVE  /\ completion' \in {"none", "open", "acknowledged"}
           /\ completion = "acknowledged" => completion' = "acknowledged"
           /\ completion' # completion => UNCHANGED <<row, arrived>>
BY DEF OutboxShape, OutboxNext, PumpStep, EnqueueRow, RowDue, TakeLateRow, CompletionMoves, WakePump,
       ClaimRow, SendRow, GiveBackRow, TakeRow, RefuseRow, LoseRow, SettleRow, StopPump, RowTick,
       LastFault, outboxVars

\* What nothing keeps back any more, nothing keeps back again.
LEMMA ReadyStays ==
    ASSUME OutboxInv, [OutboxNext]_outboxVars, NEW p \in Rows, Ready(p)
    PROVE  Ready(p)'
<1>1. \A q \in Rows : row[q].state = "acknowledged" => row'[q].state = "acknowledged"
  BY RowsStep DEF ConfirmsStep, Confirmed
<1>2. completion = "acknowledged" => completion' = "acknowledged"
  BY CompletionStays DEF OutboxInv
<1>3. Parent[p] # NoParent => Parent[p] \in Rows
  BY OutboxAssumption
<1> QED BY <1>1, <1>2, <1>3 DEF Ready, ParentAcknowledged

LEMMA OutboxInvStep == OutboxInv /\ [OutboxNext]_outboxVars => OutboxInv'
<1> SUFFICES ASSUME OutboxInv, [OutboxNext]_outboxVars PROVE OutboxInv'
  OBVIOUS
<1>1. OutboxShape
  BY DEF OutboxInv
<1>2. /\ \A v \in Pumps : PumpMoves(v)
      /\ pump' = [v \in Pumps |-> pump'[v]]
      /\ lateRows' \subseteq Rows
      /\ \A p \in lateRows' : Ready(p)
      /\ Arrived \subseteq Arrived' /\ arrived' \in Seq(Rows)
  BY PumpsStep
<1>3. \A p \in Rows : Ready(p) => Ready(p)'
  BY ReadyStays
<1>4. ASSUME NEW v \in Pumps
      PROVE  /\ pump'[v] \in PumpRecord
             /\ pump'[v].at \in Sending => pump'[v].on \in Rows /\ Ready(pump'[v].on)
             /\ pump'[v].at = "taken" => pump'[v].on \in Arrived'
  <2>1. /\ pump[v] \in PumpRecord
        /\ pump[v].at \in Sending => pump[v].on \in Rows /\ Ready(pump[v].on)
        /\ pump[v].at = "taken" => pump[v].on \in Arrived
    BY <1>1 DEF OutboxInv, OutboxShape
  <2>2. "taken" \in Sending
    BY DEF Sending
  <2> QED BY <1>2, <2>1, <2>2 DEF PumpMoves
<1>5. OutboxShape'
  BY <1>1, <1>2, <1>4, RowsStep, CompletionStays DEF OutboxShape
<1>6. \A u \in Pumps : pump'[u].at \in Sending => Ready(pump[u].on)' 
  <2> SUFFICES ASSUME NEW u \in Pumps, pump'[u].at \in Sending PROVE Ready(pump[u].on)'
    OBVIOUS
  <2>1. pump'[u].on \in Rows /\ Ready(pump'[u].on)
    BY <1>4
  <2>2. PICK p \in Rows : p = pump'[u].on /\ Ready(p)
    BY <2>1
  <2>3. Ready(p)'
    BY <1>3, <2>2
  <2> QED BY <2>2, <2>3 DEF Ready, ParentAcknowledged
<1>7. \A p \in lateRows' : Ready(p)'
  BY <1>2, <1>3
<1>8. \A p \in Rows : row'[p].state = "acknowledged" => p \in Arrived'
  BY <1>2, RowsStep DEF ConfirmsStep, Confirmed, OutboxInv
<1> QED BY <1>4, <1>5, <1>6, <1>7, <1>8 DEF OutboxInv

LEMMA OutboxInitInv == OutboxInit => OutboxInv
BY OutboxAssumption
DEF OutboxInit, OutboxInv, OutboxShape, RowRecord, RowState, PumpRecord, Sending, Asleep, NoRow, Arrived

LEMMA OutboxInvariant == OutboxSpec => []OutboxInv
BY OutboxInitInv, OutboxInvStep, PTL DEF OutboxSpec

-----------------------------------------------------------------------------
(* The promise *)

\* A projection arrives where its parent and what it reports on are known.
LEMMA ArrivesKept ==
    ASSUME OutboxInv, NEW p \in Rows, Ready(p), p \notin Arrived, arrived' = Append(arrived, p),
           Confirmed' = Confirmed, UNCHANGED completion
    PROVE  Promise!Next
<1>1. Parent[p] \in Rows => Parent[p] \in Arrived
  BY OutboxAssumption DEF Ready, ParentAcknowledged, OutboxInv
<1>2. p \in Reports => completion = "acknowledged"
  BY DEF Ready
<1>3. Promise!Arrive(p)
  BY <1>1, <1>2 DEF Promise!Arrive, Promise!Arrived, Arrived, Confirmed
<1> QED BY <1>3 DEF Promise!Next

LEMMA ConfirmsKept ==
    ASSUME OutboxInv, NEW p \in Arrived, p \in Rows \ Confirmed, Confirmed' = Confirmed \union {p},
           UNCHANGED <<arrived, completion>>
    PROVE  Promise!Next
<1>1. Promise!Confirm(p)
  BY DEF Promise!Confirm, Promise!Arrived, Arrived, Confirmed
<1> QED BY <1>1 DEF Promise!Next

\* A step takes a projection at the destination, settles a row here, or moves
\* the completion: never two of them.
LEMMA OneAtATime ==
    ASSUME OutboxShape, [OutboxNext]_outboxVars
    PROVE  \/ UNCHANGED <<row, arrived>>
           \/ UNCHANGED <<arrived, completion>>
           \/ UNCHANGED <<row, completion>>
BY DEF OutboxNext, PumpStep, EnqueueRow, RowDue, TakeLateRow, CompletionMoves, WakePump,
       ClaimRow, SendRow, GiveBackRow, TakeRow, RefuseRow, LoseRow, SettleRow, StopPump, RowTick,
       LastFault, outboxVars

LEMMA PromiseStep ==
    ASSUME OutboxInv, [OutboxNext]_outboxVars
    PROVE  [Promise!Next]_<<arrived, Confirmed, completion = "acknowledged">>
<1>1. OutboxShape
  BY DEF OutboxInv
<1>2. CASE UNCHANGED <<row, arrived>>
  <2>1. Confirmed' = Confirmed
    BY <1>2 DEF Confirmed
  <2>2. CASE completion' = completion
    BY <1>2, <2>1, <2>2
  <2>3. CASE completion' # completion
    <3>1. completion' = "acknowledged" \/ (completion' = "acknowledged") = (completion = "acknowledged")
      BY <1>1, CompletionStays
    <3>2. CASE completion' = "acknowledged"
      BY <1>2, <2>1, <3>2 DEF Promise!Next, Promise!Complete, Confirmed
    <3> QED BY <1>2, <2>1, <3>1, <3>2
  <2> QED BY <2>2, <2>3
<1>3. CASE UNCHANGED <<arrived, completion>>
  BY <1>3, ConfirmsKept, RowsStep DEF ConfirmsStep
<1>4. CASE UNCHANGED <<row, completion>>
  <2>1. Confirmed' = Confirmed
    BY <1>4 DEF Confirmed
  <2> QED BY <1>4, <2>1, ArrivesKept, PumpsStep DEF ArrivesStep
<1> QED BY <1>1, <1>2, <1>3, <1>4, OneAtATime

\* The outbox keeps its promise: a projection arrives once, after its parent and
\* after the completion it reports, and is acknowledged only when it arrived.
THEOREM OutboxPromiseKept == OutboxSpec => KeepsOutboxPromise
<1>1. OutboxInit => Promise!Init
  BY DEF OutboxInit, Promise!Init
<1>2. OutboxInv /\ [OutboxNext]_outboxVars =>
        [Promise!Next]_<<arrived, {p \in Rows : row[p].state = "acknowledged"}, completion = "acknowledged">>
  BY PromiseStep DEF Confirmed
<1> QED BY <1>1, <1>2, OutboxInvariant, PTL DEF OutboxSpec, KeepsOutboxPromise, Promise!Spec

\* The projections at the destination (control-plane projection outbox): each
\* came once, after the one it depends on, and a report on the hosted operation
\* after its completion was acknowledged.
OnceAndInOrder ==
    /\ \A i, j \in DOMAIN arrived : arrived[i] = arrived[j] => i = j
    /\ \A i \in DOMAIN arrived :
         /\ Parent[arrived[i]] # NoParent => \E j \in 1..(i - 1) : arrived[j] = Parent[arrived[i]]
         /\ arrived[i] \in Reports => completion = "acknowledged"

LEMMA OrderStep == OutboxInv /\ OnceAndInOrder /\ [OutboxNext]_outboxVars => OnceAndInOrder'
<1> SUFFICES ASSUME OutboxInv, OnceAndInOrder, [OutboxNext]_outboxVars PROVE OnceAndInOrder'
  OBVIOUS
<1>1. OutboxShape /\ arrived \in Seq(Rows) /\ DOMAIN arrived = 1..Len(arrived) /\ Len(arrived) \in Nat
  BY DEF OutboxInv, OutboxShape
<1>2. completion = "acknowledged" => completion' = "acknowledged"
  BY <1>1, CompletionStays
<1>3. CASE UNCHANGED arrived
  BY <1>2, <1>3 DEF OnceAndInOrder
<1>4. ASSUME NEW p \in Rows, Ready(p), p \notin Arrived, arrived' = Append(arrived, p)
      PROVE  OnceAndInOrder'
  <2>1. /\ DOMAIN arrived' = 1..(Len(arrived) + 1) /\ arrived'[Len(arrived) + 1] = p
        /\ \A i \in 1..Len(arrived) : arrived'[i] = arrived[i] /\ arrived[i] # p
    BY <1>1, <1>4 DEF Arrived
  <2>2. \A i, j \in DOMAIN arrived' : arrived'[i] = arrived'[j] => i = j
    BY <1>1, <2>1 DEF OnceAndInOrder
  <2>3. Parent[p] # NoParent => \E j \in 1..Len(arrived) : arrived[j] = Parent[p]
    <3>1. Parent[p] # NoParent => Parent[p] \in Arrived
      BY <1>4, OutboxAssumption DEF Ready, ParentAcknowledged, OutboxInv
    <3> QED BY <1>1, <3>1 DEF Arrived
  <2>4. p \in Reports => completion = "acknowledged"
    BY <1>4 DEF Ready
  <2>5. ASSUME NEW i \in DOMAIN arrived'
        PROVE  /\ Parent[arrived'[i]] # NoParent => \E j \in 1..(i - 1) : arrived'[j] = Parent[arrived'[i]]
               /\ arrived'[i] \in Reports => completion' = "acknowledged"
    <3>1. CASE i = Len(arrived) + 1
      BY <1>1, <1>2, <2>1, <2>3, <2>4, <3>1
    <3>2. CASE i \in 1..Len(arrived)
      <4>1. /\ Parent[arrived[i]] # NoParent => \E j \in 1..(i - 1) : arrived[j] = Parent[arrived[i]]
            /\ arrived[i] \in Reports => completion = "acknowledged"
        BY <1>1, <3>2 DEF OnceAndInOrder
      <4>2. \A j \in 1..(i - 1) : j \in 1..Len(arrived)
        BY <1>1, <3>2
      <4> QED BY <1>2, <2>1, <3>2, <4>1, <4>2
    <3> QED BY <1>1, <2>1, <3>1, <3>2
  <2> QED BY <2>2, <2>5 DEF OnceAndInOrder
<1>5. ArrivesStep
  BY PumpsStep
<1> QED BY <1>3, <1>4, <1>5 DEF ArrivesStep

\* Projections arrive at most once and, with their parents, in order, although
\* requests go out again after lost answers and late ones arrive any time.
THEOREM ProjectionsInOrder == OutboxSpec => []OnceAndInOrder
<1>1. OutboxInit => OnceAndInOrder
  BY DEF OutboxInit, OnceAndInOrder
<1> QED BY <1>1, OutboxInvariant, OrderStep, PTL DEF OutboxSpec

=============================================================================
