------------------------------ MODULE MCRecords ------------------------------
(***************************************************************************)
(* One instance of each of the durable records beside the run ledger:      *)
(* follow-up requests, reassessment obligations, projections, jobs, the    *)
(* permissions of hosted runs, GitHub deliveries, and admission batches.   *)
(* They share no state, so a behaviour runs one of them, chosen at its     *)
(* start, and the others stay as they begin: the states of the instance    *)
(* are the sum, not the product.                                           *)
(***************************************************************************)
EXTENDS FollowUps, Reassessment, ProjectionOutbox, JobQueue, HostedPermission,
        GithubDelivery, AdmissionBatch

VARIABLE record     \* which record this behaviour is about

recordVars ==
    <<followUpVars, reassessVars, outboxVars, jobVars, permissionVars,
      githubVars, batchVars>>
vars == <<record, recordVars>>

\* Each projection depends on the one before.
MCParent == [p \in Rows |-> p - 1]

RecordsTypeOK ==
    /\ FollowUpsTypeOK
    /\ ReassessmentTypeOK
    /\ OutboxTypeOK
    /\ JobQueueTypeOK
    /\ PermissionTypeOK
    /\ GithubTypeOK
    /\ BatchTypeOK

Init ==
    /\ record \in {"follow-ups", "obligations", "projections", "jobs", "permissions",
                  "deliveries", "batches"}
    /\ FollowUpInit /\ ReassessInit /\ OutboxInit /\ JobInit /\ PermissionInit
    /\ GithubInit /\ BatchInit

Next ==
    /\ \/ /\ record = "follow-ups" /\ FollowUpNext
          /\ UNCHANGED <<reassessVars, outboxVars, jobVars, permissionVars, githubVars, batchVars>>
       \/ /\ record = "obligations" /\ ReassessNext
          /\ UNCHANGED <<followUpVars, outboxVars, jobVars, permissionVars, githubVars, batchVars>>
       \/ /\ record = "projections" /\ OutboxNext
          /\ UNCHANGED <<followUpVars, reassessVars, jobVars, permissionVars, githubVars, batchVars>>
       \/ /\ record = "jobs" /\ JobNext
          /\ UNCHANGED <<followUpVars, reassessVars, outboxVars, permissionVars, githubVars, batchVars>>
       \/ /\ record = "permissions" /\ PermissionNext
          /\ UNCHANGED <<followUpVars, reassessVars, outboxVars, jobVars, githubVars, batchVars>>
       \/ /\ record = "deliveries" /\ GithubNext
          /\ UNCHANGED <<followUpVars, reassessVars, outboxVars, jobVars, permissionVars,
                         batchVars>>
       \/ /\ record = "batches" /\ BatchNext
          /\ UNCHANGED <<followUpVars, reassessVars, outboxVars, jobVars, permissionVars,
                         githubVars>>
    /\ UNCHANGED record

\* Obligations: each worker drains in turn, the clock advances, and the
\* obligations are claimed in the order they became due.
ReassessFairness ==
    LET Fair(A) == record = "obligations" /\ A IN
    /\ \A w \in Workers : WF_reassessVars(Fair(Work(w)))
    /\ \A f \in Facts :
         /\ WF_reassessVars(Fair(BecomesDue(f)))
         /\ SF_reassessVars(Fair(\E w \in Workers : ClaimObligation(w, f)))
    /\ WF_reassessVars(Fair(WorkTick))

\* Projections: timers wake the pumps, the clock advances, and a request is
\* answered.
OutboxFairness ==
    LET Fair(A) == record = "projections" /\ A IN
    /\ \A u \in Pumps :
         /\ WF_outboxVars(Fair(PumpStep(u)))
         /\ WF_outboxVars(Fair(TakeRow(u) \/ RefuseRow(u)))
         /\ WF_outboxVars(Fair(SettleRow(u)))
    /\ \A p \in Rows : WF_outboxVars(Fair(RowDue(p)))
    /\ WF_outboxVars(Fair(RowTick))

\* Jobs: time passes, and the loops of the workers go on, so that no handler
\* hangs for ever.  That a worker ever settles anything is not assumed.
JobFairness ==
    LET Fair(A) == record = "jobs" /\ A IN
    /\ WF_jobVars(Fair(JobTick))
    /\ \A j \in Jobs : WF_jobVars(Fair(JobBecomesDue(j)))
    /\ \A w \in JobWorkers : WF_jobVars(Fair(ClaimJob(w))) /\ WF_jobVars(Fair(NextJob(w)))

Spec ==
    Init /\ [][Next]_vars /\ ReassessFairness /\ OutboxFairness /\ JobFairness
=============================================================================
