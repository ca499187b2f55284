---------------------------- MODULE RecordsProofs ----------------------------
(* The durable records beside the run ledger, all of them together: a step of *)
(* one leaves the others, so each keeps its types, on top of the invariants   *)
(* of QueueProofs and AdmissionProofs, and what is proved there of a record   *)
(* by itself holds of the specification that composes them.                   *)
EXTENDS MCRecords, QueueProofs, AdmissionProofs

-----------------------------------------------------------------------------
(* Permissions of hosted runs *)

\* Attempts are numbered, and what is under way was asked for or reported.
PermissionRest ==
    /\ attempt \in [number : AttemptNumbers, live : BOOLEAN]
    /\ trusts \subseteq AttemptNumbers
    /\ unsent \subseteq {"ask", "report"} \X Calls

LEMMA PermissionRestStep ==
    ASSUME PermissionRest, [PermissionNext]_permissionVars
    PROVE  PermissionRest'
<1>1. /\ attempt \in [number : AttemptNumbers, live : BOOLEAN] /\ trusts \subseteq AttemptNumbers
      /\ unsent \subseteq {"ask", "report"} \X Calls
  BY DEF PermissionRest
<1>2. CASE UNCHANGED <<attempt, trusts>> /\ unsent' \subseteq unsent
  BY <1>1, <1>2 DEF PermissionRest
<1>3. ASSUME NEW requests \in SUBSET ({"ask", "report"} \X Calls), GiveUp(requests),
             UNCHANGED attempt, trusts' \subseteq trusts
      PROVE  PermissionRest'
  BY <1>1, <1>3, GivenUp DEF PermissionRest
<1>4. ASSUME NEW c \in Calls, LoseAsk(c) \/ LoseReport(c) PROVE PermissionRest'
  BY <1>3, <1>4 DEF LoseAsk, LoseReport
<1>5. ASSUME NEW n \in AttemptNumbers, StopSession(n) PROVE PermissionRest'
  <2>1. CallsOf(n) \subseteq Calls
    BY DEF CallsOf, Calls
  <2>2. {<<"ask", c>> : c \in {d \in CallsOf(n) : tool[d] = "asking"}} \union
        {<<"report", c>> : c \in {d \in CallsOf(n) : tool[d] = "reporting"}}
          \in SUBSET ({"ask", "report"} \X Calls)
    BY <2>1
  <2> QED BY <1>3, <1>5, <2>2 DEF StopSession
<1>6. CASE AttemptEnds
  BY <1>1, <1>6 DEF AttemptEnds, PermissionRest
<1>7. CASE NextAttempt
  <2>1. attempt.number + 1 \in AttemptNumbers
    BY <1>1, <1>7, PermissionAssumption DEF NextAttempt, AttemptNumbers
  <2> QED BY <1>1, <1>7, <2>1 DEF NextAttempt, PermissionRest
<1>8. ASSUME NEW c \in Calls,
             \/ Ask(c) \/ AnswerAsk(c) \/ AskArrives(c) \/ Decide(c) \/ Poll(c) \/ Perform(c)
             \/ Report(c) \/ AnswerReport(c) \/ RefuseReport(c) \/ ReportArrives(c)
      PROVE  PermissionRest'
  BY <1>2, <1>8 DEF Ask, AnswerAsk, AskArrives, Decide, Poll, Perform, Report, AnswerReport,
                    RefuseReport, ReportArrives
<1>9. ASSUME NEW n \in AttemptNumbers, CloseSession(n) \/ EndSession(n) \/ LoseTrust(n)
      PROVE  PermissionRest'
  BY <1>1, <1>2, <1>9 DEF CloseSession, EndSession, LoseTrust, PermissionRest
<1>10. CASE UNCHANGED permissionVars
  BY <1>2, <1>10 DEF permissionVars
<1> QED BY <1>4, <1>5, <1>6, <1>7, <1>8, <1>9, <1>10 DEF PermissionNext

PermissionTypes == PermissionInv /\ PermissionRest

LEMMA PermissionTyped ==
    /\ PermissionInit => PermissionTypes
    /\ PermissionTypes /\ [PermissionNext]_permissionVars => PermissionTypes'
    /\ PermissionTypes => PermissionTypeOK
<1>1. PermissionInit => PermissionRest
  BY PermissionAssumption DEF PermissionInit, PermissionRest, AttemptNumbers
<1>2. PermissionTypes => PermissionTypeOK
  BY DEF PermissionTypes, PermissionInv, PermissionShape, PermissionRest, PermissionTypeOK,
         SessionState, ToolState
<1> QED BY <1>1, <1>2, PermissionInitInv, PermissionInvStep, PermissionRestStep DEF PermissionTypes

-----------------------------------------------------------------------------
(* GitHub deliveries *)

\* A reservation is renewed only after it expired, by which the clock has gone
\* on: its token is no greater than the instant it expires.
GithubRest ==
    /\ reservation \in [Deliveries -> [token : 0..MaxInstant + 1,
                                       expires : 0..MaxInstant + ProcessingLease]]
    /\ \A d \in Deliveries :
         /\ reservation[d].token <= reservation[d].expires
         /\ outcome[d] = "none" => reservation[d].token = 0
    /\ \A h \in Receivers : receiver[h].token \in 0..MaxInstant + 1 /\ receiver[h].stamp \in 0..MaxInstant
    /\ admittedBy \in [Comments -> [delivery : Deliveries \union {"none"}, at : 0..MaxInstant]]
    /\ evidence \subseteq PullRequests
    /\ instant \in 0..MaxInstant

\* One handler goes on, with a token and a stamp within the bounds.
LEMMA ReceiverBounded ==
    ASSUME GithubInv, GithubRest, NEW h \in Receivers, NEW new, ReceiverTo(h, new),
           new.token \in 0..MaxInstant + 1, new.stamp \in 0..MaxInstant
    PROVE  \A g \in Receivers : receiver'[g].token \in 0..MaxInstant + 1 /\ receiver'[g].stamp \in 0..MaxInstant
<1>1. \A g \in Receivers : receiver'[g] = IF g = h THEN new ELSE receiver[g]
  BY DEF ReceiverTo, GithubInv, GithubShape
<1> QED BY <1>1 DEF GithubRest

LEMMA GithubRestStep ==
    ASSUME GithubInv, GithubRest, [GithubNext]_githubVars
    PROVE  GithubRest'
<1>1. /\ GithubShape /\ MaxInstant \in Nat /\ ProcessingLease \in Nat /\ ProcessingLease > 0
      /\ receiver \in [Receivers -> ReceiverRecord]
      /\ outcome \in [Deliveries -> {"none", "processing"} \union Final]
      /\ reservation \in [Deliveries -> [token : 0..MaxInstant + 1,
                                         expires : 0..MaxInstant + ProcessingLease]]
      /\ admittedBy \in [Comments -> [delivery : Deliveries \union {"none"}, at : 0..MaxInstant]]
      /\ instant \in 0..MaxInstant /\ evidence \subseteq PullRequests
  BY ReservationsExpire DEF GithubInv, GithubShape, GithubRest
<1> DEFINE Bounded == \A g \in Receivers : receiver'[g].token \in 0..MaxInstant + 1
                                           /\ receiver'[g].stamp \in 0..MaxInstant
<1>2. ASSUME UNCHANGED <<outcome, reservation, instant>>, Bounded,
             admittedBy' \in [Comments -> [delivery : Deliveries \union {"none"}, at : 0..MaxInstant]],
             evidence' \subseteq PullRequests
      PROVE  GithubRest'
  BY <1>2 DEF GithubRest
<1>3. ASSUME NEW h \in Receivers, ReceiverTo(h, Waiting) PROVE Bounded
  BY <1>1, <1>3, ReceiverBounded DEF Waiting
<1>4. ASSUME NEW h \in Receivers, NEW result, Decides(h, result) PROVE Bounded
  <2>1. receiver[h] \in ReceiverRecord /\ receiver[h].token \in 0..MaxInstant + 1
        /\ receiver[h].stamp \in 0..MaxInstant
    BY <1>1 DEF GithubRest
  <2>2. PICK new : new = [receiver[h] EXCEPT !.stage = "decided", !.result = result]
    OBVIOUS
  <2>3. new.token = receiver[h].token /\ new.stamp = receiver[h].stamp
    BY <2>1, <2>2 DEF ReceiverRecord
  <2> QED BY <1>4, <2>1, <2>2, <2>3, ReceiverBounded DEF Decides
<1>5. ASSUME NEW h \in Receivers, NEW d \in Deliveries, ReserveDelivery(h, d) PROVE GithubRest'
  <2>1. reservation[d].token <= instant
    <3>1. CASE outcome[d] = "none"
      BY <1>1, <3>1 DEF GithubRest
    <3>2. CASE outcome[d] # "none"
      <4>1. reservation[d].expires <= instant /\ reservation[d].token <= reservation[d].expires
        BY <1>5, <3>2 DEF ReserveDelivery, MayReserveDelivery, GithubRest
      <4> QED BY <1>1, <4>1
    <3> QED BY <3>1, <3>2
  <2>2. PICK token : token = reservation[d].token + 1
    OBVIOUS
  <2>3. PICK kept : kept = [token |-> token, expires |-> instant + ProcessingLease]
    OBVIOUS
  <2>3a. PICK new : new = [Waiting EXCEPT !.stage = "reserved", !.delivery = d, !.token = token]
    OBVIOUS
  <2>4. /\ token \in 0..MaxInstant + 1 /\ kept.expires \in 0..MaxInstant + ProcessingLease
        /\ kept.token = token /\ kept.token <= kept.expires
        /\ kept \in [token : 0..MaxInstant + 1, expires : 0..MaxInstant + ProcessingLease]
    BY <1>1, <2>1, <2>2, <2>3
  <2>5. /\ reservation' = [reservation EXCEPT ![d] = kept]
        /\ outcome' = [outcome EXCEPT ![d] = "processing"]
        /\ ReceiverTo(h, new) /\ UNCHANGED <<admittedBy, evidence, instant>>
    BY <1>5, <2>2, <2>3, <2>3a DEF ReserveDelivery
  <2>6. new.token = token /\ new.stamp \in 0..MaxInstant
    BY <1>1, <2>3a DEF Waiting
  <2>7. Bounded
    BY <1>1, <2>4, <2>5, <2>6, ReceiverBounded
  <2>8. \A e \in Deliveries : /\ reservation'[e] = IF e = d THEN kept ELSE reservation[e]
                              /\ outcome'[e] = IF e = d THEN "processing" ELSE outcome[e]
    BY <1>1, <2>5
  <2>9. \A e \in Deliveries : /\ reservation'[e].token <= reservation'[e].expires
                              /\ outcome'[e] = "none" => reservation'[e].token = 0
    BY <2>4, <2>8 DEF GithubRest
  <2>10. reservation' \in [Deliveries -> [token : 0..MaxInstant + 1,
                                          expires : 0..MaxInstant + ProcessingLease]]
    BY <1>1, <2>4, <2>5
  <2> QED BY <1>1, <2>5, <2>7, <2>9, <2>10 DEF GithubRest
<1>6. ASSUME NEW d \in Deliveries, ReplayOutcome(d) PROVE GithubRest'
  BY <1>6 DEF ReplayOutcome, GithubRest
<1>7. ASSUME NEW h \in Receivers, RefuseEvent(h) \/ FindNotReady(h) PROVE GithubRest'
  <2>1. UNCHANGED <<outcome, reservation, instant, admittedBy, evidence>> /\ \E result : Decides(h, result)
    BY <1>7 DEF RefuseEvent, FindNotReady, Decides
  <2> QED BY <1>1, <1>2, <1>4, <2>1
<1>8. ASSUME NEW h \in Receivers, RecordEvidence(h) PROVE GithubRest'
  <2>1. /\ UNCHANGED <<outcome, reservation, instant, admittedBy>> /\ Decides(h, "evidence_recorded")
        /\ evidence' = evidence \union {source[receiver[h].delivery]}
        /\ source[receiver[h].delivery] \in PullRequests
    BY <1>8 DEF RecordEvidence, Decides, At
  <2> QED BY <1>1, <1>2, <1>4, <2>1
<1>9. ASSUME NEW h \in Receivers, PrepareEnvelope(h) PROVE GithubRest'
  <2>1. receiver[h] \in ReceiverRecord /\ receiver[h].token \in 0..MaxInstant + 1
    BY <1>1 DEF GithubRest
  <2>2. PICK new : new = [receiver[h] EXCEPT !.stage = "prepared", !.stamp = instant]
    OBVIOUS
  <2>3. new.token = receiver[h].token /\ new.stamp = instant
    BY <2>1, <2>2 DEF ReceiverRecord
  <2>4. ReceiverTo(h, new) /\ UNCHANGED <<outcome, reservation, instant, admittedBy, evidence>>
    BY <1>9, <2>2 DEF PrepareEnvelope
  <2>5. Bounded
    BY <1>1, <2>1, <2>3, <2>4, ReceiverBounded
  <2> QED BY <1>1, <1>2, <2>4, <2>5
<1>10. ASSUME NEW h \in Receivers, AdmitDelivery(h) PROVE GithubRest'
  <2>1. receiver[h] \in ReceiverRecord /\ receiver[h].stamp \in 0..MaxInstant
    BY <1>1 DEF GithubRest
  <2>2. Envelope(h) \in [delivery : Deliveries \union {"none"}, at : 0..MaxInstant]
    BY <2>1 DEF Envelope, ReceiverRecord
  <2>3. /\ UNCHANGED <<outcome, reservation, instant, evidence>> /\ \E result : Decides(h, result)
        /\ \/ UNCHANGED admittedBy
           \/ \E m \in Comments : admittedBy' = [admittedBy EXCEPT ![m] = Envelope(h)]
    BY <1>10 DEF AdmitDelivery, Decides, At
  <2>4. admittedBy' \in [Comments -> [delivery : Deliveries \union {"none"}, at : 0..MaxInstant]]
    BY <1>1, <2>2, <2>3
  <2> QED BY <1>1, <1>2, <1>4, <2>3, <2>4
<1>11. ASSUME NEW h \in Receivers, CompleteDelivery(h) PROVE GithubRest'
  <2>1. /\ receiver[h].stage = "decided" /\ ReceiverTo(h, Waiting)
        /\ outcome' = [outcome EXCEPT ![receiver[h].delivery] = receiver[h].result]
        /\ UNCHANGED <<reservation, instant, admittedBy, evidence>>
    BY <1>11 DEF CompleteDelivery
  <2>2. receiver[h].result \in Final
    BY <2>1 DEF GithubInv
  <2>3. \A d \in Deliveries : outcome'[d] = "none" => outcome[d] = "none"
    BY <1>1, <2>1, <2>2 DEF Final
  <2>4. Bounded
    BY <1>3, <2>1
  <2> QED BY <2>1, <2>3, <2>4 DEF GithubRest
<1>12. ASSUME NEW h \in Receivers, LoseReservation(h) \/ StopReceiving(h) PROVE GithubRest'
  BY <1>1, <1>2, <1>3, <1>12 DEF LoseReservation, StopReceiving
<1>13. CASE InstantPasses
  BY <1>1, <1>13 DEF InstantPasses, GithubRest
<1>14. CASE UNCHANGED githubVars
  BY <1>14 DEF githubVars, GithubRest
<1> QED BY <1>5, <1>6, <1>7, <1>8, <1>9, <1>10, <1>11, <1>12, <1>13, <1>14 DEF GithubNext

GithubTypes == GithubInv /\ GithubRest

LEMMA GithubTyped ==
    /\ GithubInit => GithubTypes
    /\ GithubTypes /\ [GithubNext]_githubVars => GithubTypes'
    /\ GithubTypes => GithubTypeOK
<1>1. GithubInit => GithubRest
  BY ReservationsExpire DEF GithubInit, GithubRest, Unreserved, Waiting, NoEnvelope
<1>2. ASSUME GithubTypes PROVE GithubTypeOK
  <2>1. GithubShape /\ GithubRest
    BY <1>2 DEF GithubTypes, GithubInv
  <2>2. \A h \in Receivers : receiver[h] \in
          [stage : {"idle", "reserved", "prepared", "decided"},
           delivery : Deliveries \union {"none"}, token : 0..MaxInstant + 1,
           stamp : 0..MaxInstant, result : Final \union {"none"}]
    BY <2>1 DEF GithubShape, GithubRest, ReceiverRecord
  <2>3. receiver = [h \in Receivers |-> receiver[h]]
    BY <2>1 DEF GithubShape
  <2> QED BY <2>1, <2>2, <2>3 DEF GithubShape, GithubRest, GithubTypeOK
<1> QED BY <1>1, <1>2, GithubInitInv, GithubInvStep, GithubRestStep DEF GithubTypes

-----------------------------------------------------------------------------
(* Reassessment obligations *)

\* Only what was recorded is read; an obligation has a holder while it is leased.
ObligationRest(k) ==
    /\ k.holder \in Workers <=> k.state = "leased"
    /\ k.left \in 0..WorkLease /\ k.tries \in 0..MaxTries
ReassessRest ==
    /\ covered \subseteq facts
    /\ \A w \in Workers : worker[w].saw \subseteq facts
    /\ \A f \in Facts : ObligationRest(obligation[f])
    /\ calm \in BOOLEAN

\* A step writes at most one obligation, but for the clock.
LEMMA ObligationsBounded ==
    ASSUME ReassessInv, ReassessRest, [ReassessNext]_reassessVars, NEW f \in Facts
    PROVE  ObligationRest(obligation[f])'
<1>1. /\ ReassessShape /\ obligation \in [Facts -> ObligationRecord]
      /\ obligation[f] \in ObligationRecord /\ ObligationRest(obligation[f])
      /\ WorkLease \in Nat /\ MaxTries \in Nat /\ NoFact \notin Workers
      /\ \A w \in Workers : worker[w].at # "rest" => worker[w].on \in Facts
  BY ReassessmentAssumption, WorkersAreNamed
  DEF ReassessInv, ReassessShape, ReassessRest, AtWork
<1>2. CASE obligation'[f] = obligation[f]
  BY <1>1, <1>2 DEF ObligationRest
<1>3. ASSUME NEW g \in Facts, NEW new \in ObligationRecord, ObligationRest(new),
             obligation' = [obligation EXCEPT ![g] = new]
      PROVE  ObligationRest(obligation[f])'
  <2>1. obligation'[f] = IF f = g THEN new ELSE obligation[f]
    BY <1>1, <1>3
  <2>2. CASE f = g
    BY <1>3, <2>1, <2>2 DEF ObligationRest
  <2> QED BY <1>2, <2>1, <2>2
<1>4. ASSUME NEW g \in Facts, RecordFact(g) PROVE ObligationRest(obligation[f])'
  <2>1. obligation[g] \in ObligationRecord /\ ObligationRest(obligation[g])
    BY <1>1 DEF ReassessRest
  <2>2. PICK new : new = [obligation[g] EXCEPT !.state = "pending", !.due = TRUE]
    OBVIOUS
  <2>3. /\ new \in ObligationRecord /\ new.state = "pending" /\ new.holder = obligation[g].holder
        /\ new.left = obligation[g].left /\ new.tries = obligation[g].tries
    BY <2>1, <2>2 DEF ObligationRecord
  <2>4. UNCHANGED obligation \/ (obligation[g].state = "none" /\ obligation' = [obligation EXCEPT ![g] = new])
    BY <1>1, <1>4, <2>2 DEF RecordFact, Owes
  <2>5. obligation[g].state = "none" => ObligationRest(new)
    BY <2>1, <2>3 DEF ObligationRest
  <2> QED BY <1>2, <1>3, <2>3, <2>4, <2>5
<1>5. ASSUME NEW g \in Facts, BecomesDue(g) PROVE ObligationRest(obligation[f])'
  <2>1. obligation[g] \in ObligationRecord /\ ObligationRest(obligation[g])
    BY <1>1 DEF ReassessRest
  <2>2. PICK new : new = [obligation[g] EXCEPT !.due = TRUE]
    OBVIOUS
  <2>3. /\ new \in ObligationRecord /\ new.state = obligation[g].state /\ new.holder = obligation[g].holder
        /\ new.left = obligation[g].left /\ new.tries = obligation[g].tries
    BY <2>1, <2>2 DEF ObligationRecord
  <2>4. obligation' = [obligation EXCEPT ![g] = new] /\ ObligationRest(new)
    BY <1>1, <1>5, <2>1, <2>2, <2>3 DEF BecomesDue, ObligationRest
  <2> QED BY <1>3, <2>3, <2>4
<1>6. ASSUME NEW w \in Workers, NEW g \in Facts, ClaimObligation(w, g)
      PROVE  ObligationRest(obligation[f])'
  <2>1. obligation[g] \in ObligationRecord /\ ObligationRest(obligation[g])
    BY <1>1 DEF ReassessRest
  <2>2. PICK tries : tries = Lower(obligation[g].tries + 1, MaxTries)
    OBVIOUS
  <2>3. tries \in 0..MaxTries /\ tries \in Nat
    BY <1>1, <2>1, <2>2 DEF Lower, ObligationRecord
  <2>4. PICK new : new = [obligation[g] EXCEPT !.state = "leased", !.holder = w, !.left = WorkLease,
                                               !.tries = tries]
    OBVIOUS
  <2>5. /\ new \in ObligationRecord /\ new.state = "leased" /\ new.holder = w
        /\ new.left = WorkLease /\ new.tries = tries
    BY <1>1, <2>1, <2>3, <2>4 DEF ObligationRecord
  <2>6. obligation' = [obligation EXCEPT ![g] = new] /\ ObligationRest(new)
    BY <1>1, <1>6, <2>2, <2>3, <2>4, <2>5 DEF ClaimObligation, ObligationRest
  <2> QED BY <1>3, <2>5, <2>6
<1>7. ASSUME NEW w \in Workers, worker[w].at # "rest", obligation' = Renewed(w)
      PROVE  ObligationRest(obligation[f])'
  <2>1. PICK g \in Facts : g = worker[w].on
    BY <1>1, <1>7
  <2>2. obligation[g] \in ObligationRecord /\ ObligationRest(obligation[g])
    BY <1>1 DEF ReassessRest
  <2>3. PICK new : new = [obligation[g] EXCEPT !.left = WorkLease]
    OBVIOUS
  <2>4. /\ new \in ObligationRecord /\ new.state = obligation[g].state /\ new.holder = obligation[g].holder
        /\ new.left = WorkLease /\ new.tries = obligation[g].tries
    BY <1>1, <2>2, <2>3 DEF ObligationRecord
  <2>5. obligation' = [obligation EXCEPT ![g] = new] /\ ObligationRest(new)
    BY <1>1, <1>7, <2>1, <2>2, <2>3, <2>4 DEF Renewed, ObligationRest
  <2> QED BY <1>3, <2>4, <2>5
<1>8. ASSUME NEW w \in Workers, RenewWork(w) \/ LastRenewal(w) PROVE ObligationRest(obligation[f])'
  BY <1>2, <1>7, <1>8 DEF RenewWork, LastRenewal
<1>9. ASSUME NEW w \in Workers, Settle(w) PROVE ObligationRest(obligation[f])'
  <2>1. PICK g \in Facts : g = worker[w].on
    BY <1>1, <1>9 DEF Settle
  <2>2. obligation[g] \in ObligationRecord /\ ObligationRest(obligation[g]) /\ worker[w].result \in Results
    BY <1>1, <1>9 DEF ReassessRest, ReassessInv, AtWork, Settle
  <2>3. PICK verdict : verdict = Verdict(worker[w].result, obligation[g].tries)
    OBVIOUS
  <2>4. verdict \in {"satisfied", "pending", "blocked"}
    BY <2>2, <2>3, Verdicts
  <2>5. PICK new : new = [obligation[g] EXCEPT !.state = verdict, !.due = FALSE, !.holder = NoFact, !.left = 0]
    OBVIOUS
  <2>6. /\ new \in ObligationRecord /\ new.state = verdict /\ new.holder = NoFact
        /\ new.left = 0 /\ new.tries = obligation[g].tries
    BY <2>2, <2>4, <2>5 DEF ObligationRecord
  <2>7. UNCHANGED obligation \/ obligation' = [obligation EXCEPT ![g] = new]
    BY <1>1, <1>9, <2>1, <2>3, <2>5 DEF Settle
  <2>8. ObligationRest(new)
    BY <1>1, <2>2, <2>4, <2>6 DEF ObligationRest
  <2> QED BY <1>2, <1>3, <2>6, <2>7, <2>8
<1>10. CASE WorkTick
  <2>1. PICK left : left = IF obligation[f].left > 0 /\ ~InTime(f) THEN obligation[f].left - 1
                           ELSE obligation[f].left
    OBVIOUS
  <2>2. obligation'[f] = [obligation[f] EXCEPT !.left = left]
    BY <1>10, <2>1 DEF WorkTick
  <2>3. left \in 0..WorkLease
    BY <1>1, <2>1 DEF ObligationRest
  <2>4. /\ obligation'[f].state = obligation[f].state /\ obligation'[f].holder = obligation[f].holder
        /\ obligation'[f].left = left /\ obligation'[f].tries = obligation[f].tries
    BY <1>1, <2>2 DEF ObligationRecord
  <2> QED BY <1>1, <2>3, <2>4 DEF ObligationRest
<1>11. CASE \/ NoMoreFaults \/ AssessElsewhere \/ UNCHANGED reassessVars
            \/ \E w \in Workers : \/ LoadSource(w) \/ FinishAssessment(w) \/ Dispatch(w)
                                   \/ ProcessFails(w) \/ WorkerStops(w)
  BY <1>2, <1>11 DEF NoMoreFaults, AssessElsewhere, reassessVars, LoadSource, FinishAssessment, Dispatch,
                     ProcessFails, WorkerStops
<1> QED BY <1>4, <1>5, <1>6, <1>8, <1>9, <1>10, <1>11 DEF ReassessNext, Work

LEMMA ReassessRestStep ==
    ASSUME ReassessInv, ReassessRest, [ReassessNext]_reassessVars
    PROVE  ReassessRest'
<1>1. /\ worker \in [Workers -> DrainerRecord] /\ covered \subseteq facts /\ calm \in BOOLEAN
      /\ \A w \in Workers : worker[w].saw \subseteq facts /\ worker[w] \in DrainerRecord
  BY DEF ReassessInv, ReassessShape, ReassessRest
<1>2. \A f \in Facts : ObligationRest(obligation[f])'
  BY ObligationsBounded
<1>3. facts \subseteq facts'
  BY DrainersStep
<1>4. ASSUME covered' \subseteq facts', calm' \in BOOLEAN,
             \A w \in Workers : worker'[w].saw \subseteq facts \/ worker'[w] = worker[w]
      PROVE  ReassessRest'
  BY <1>1, <1>2, <1>3, <1>4 DEF ReassessRest
<1>5. Resting.saw = {}
  BY DEF Resting
<1>6. ASSUME NEW w \in Workers, NEW new, worker' = [worker EXCEPT ![w] = new], new.saw \subseteq facts,
             UNCHANGED calm, covered' \subseteq facts'
      PROVE  ReassessRest'
  BY <1>1, <1>4, <1>6
<1>7. ASSUME NEW w \in Workers, NEW f \in Facts, ClaimObligation(w, f) PROVE ReassessRest'
  <2>1. PICK new : new = [Resting EXCEPT !.at = "load", !.on = f]
    OBVIOUS
  <2>2. new.saw = {} /\ worker' = [worker EXCEPT ![w] = new] /\ UNCHANGED <<facts, covered, calm>>
    BY <1>7, <2>1 DEF ClaimObligation, Resting
  <2> QED BY <1>1, <1>3, <1>6, <2>2
<1>8. ASSUME NEW w \in Workers, NEW stage, NEW result,
             To(w, stage) \/ With(w, stage, result), UNCHANGED <<calm, covered>>
      PROVE  ReassessRest'
  <2>1. \A v \in Workers : worker'[v].saw = worker[v].saw
    BY <1>1, <1>8 DEF To, With, DrainerRecord
  <2> QED BY <1>1, <1>3, <1>4, <1>8, <2>1
<1>9. ASSUME NEW w \in Workers, LoadSource(w) PROVE ReassessRest'
  <2>1. CASE worker' = [worker EXCEPT ![w].at = "assess", ![w].saw = facts]
    <3>1. PICK new : new = [worker[w] EXCEPT !.at = "assess", !.saw = facts]
      OBVIOUS
    <3>2. new.saw = facts /\ worker' = [worker EXCEPT ![w] = new]
      BY <1>1, <2>1, <3>1 DEF DrainerRecord
    <3> QED BY <1>1, <1>3, <1>6, <1>9, <3>2 DEF LoadSource
  <2>2. CASE With(w, "renew", "human") \/ To(w, "dispatch")
    BY <1>8, <1>9, <2>2 DEF LoadSource
  <2> QED BY <1>9, <2>1, <2>2 DEF LoadSource, FindContract
<1>10. ASSUME NEW w \in Workers, FinishAssessment(w) PROVE ReassessRest'
  <2>1. PICK new : new = [worker[w] EXCEPT !.at = "dispatch", !.saw = {}]
    OBVIOUS
  <2>2. new.saw = {} /\ worker' = [worker EXCEPT ![w] = new]
    BY <1>1, <1>10, <2>1 DEF DrainerRecord, FinishAssessment
  <2>3. covered' \subseteq facts' /\ UNCHANGED calm
    BY <1>1, <1>10 DEF FinishAssessment
  <2> QED BY <1>6, <2>2, <2>3
<1>11. ASSUME NEW w \in Workers, Dispatch(w) PROVE ReassessRest'
  BY <1>8, <1>11 DEF Dispatch
<1>12. ASSUME NEW w \in Workers, ProcessFails(w) PROVE ReassessRest'
  <2>1. PICK new : new = [Resting EXCEPT !.at = "settle", !.on = worker[w].on, !.result = "failed"]
    OBVIOUS
  <2>2. new.saw = {} /\ worker' = [worker EXCEPT ![w] = new] /\ UNCHANGED <<facts, covered, calm>>
    BY <1>12, <2>1 DEF ProcessFails, Resting
  <2> QED BY <1>1, <1>3, <1>6, <2>2
<1>13. ASSUME NEW w \in Workers, LastRenewal(w) \/ Settle(w) \/ WorkerStops(w) PROVE ReassessRest'
  <2>1. /\ worker' = [worker EXCEPT ![w] = Resting] \/ To(w, "settle")
        /\ UNCHANGED <<calm, covered>>
    BY <1>13 DEF LastRenewal, Settle, WorkerStops
  <2> QED BY <1>1, <1>3, <1>5, <1>6, <1>8, <2>1
<1>14. CASE \/ UNCHANGED reassessVars \/ WorkTick \/ NoMoreFaults
            \/ \E f \in Facts : RecordFact(f) \/ BecomesDue(f)
            \/ \E w \in Workers : RenewWork(w)
  <2>1. UNCHANGED <<worker, covered>> /\ calm' \in BOOLEAN
    BY <1>1, <1>14 DEF reassessVars, WorkTick, NoMoreFaults, RecordFact, BecomesDue, RenewWork
  <2> QED BY <1>1, <1>3, <1>4, <2>1
<1>15. CASE AssessElsewhere
  <2>1. UNCHANGED <<worker, facts, calm>> /\ covered' \subseteq facts
    BY <1>1, <1>15 DEF AssessElsewhere
  <2> QED BY <1>1, <1>3, <1>4, <2>1
<1> QED BY <1>7, <1>9, <1>10, <1>11, <1>12, <1>13, <1>14, <1>15 DEF ReassessNext, Work

ReassessTypes == ReassessInv /\ ReassessRest

LEMMA ReassessTyped ==
    /\ ReassessInit => ReassessTypes
    /\ ReassessTypes /\ [ReassessNext]_reassessVars => ReassessTypes'
    /\ ReassessTypes => ReassessmentTypeOK
<1>1. ASSUME ReassessInit PROVE ReassessRest
  <2>1. 0 \in 0..WorkLease /\ 0 \in 0..MaxTries
    BY ReassessmentAssumption
  <2>2. \A f \in Facts : ObligationRest(obligation[f])
    BY <1>1, <2>1, WorkersAreNamed DEF ReassessInit, ObligationRest
  <2> QED BY <1>1, <2>2 DEF ReassessInit, ReassessRest, Resting
<1>2. ReassessTypes => ReassessmentTypeOK
  BY DEF ReassessTypes, ReassessInv, ReassessShape, ReassessRest, ContractFirst, ObligationRest,
         ReassessmentTypeOK, ObligationRecord, DrainerRecord
<1> QED BY <1>1, <1>2, ReassessInitInv, ReassessInvStep, ReassessRestStep DEF ReassessTypes

-----------------------------------------------------------------------------
(* The projection outbox *)

\* A row has a holder while it is leased, a pump has a row while it sends, and
\* nothing arrives twice.
RowRest(k) == (k.holder \in Pumps <=> k.state = "leased") /\ k.left \in 0..RowLease
OutboxRest ==
    /\ \A p \in Rows : RowRest(row[p])
    /\ \A u \in Pumps : pump[u].at \notin Sending => pump[u].on = NoRow
    /\ \A i, j \in DOMAIN arrived : arrived[i] = arrived[j] => i = j
    /\ steady \in BOOLEAN

LEMMA RowsBounded ==
    ASSUME OutboxInv, OutboxRest, [OutboxNext]_outboxVars, NEW q \in Rows
    PROVE  RowRest(row[q])'
<1>1. /\ row \in [Rows -> RowRecord] /\ row[q] \in RowRecord /\ RowRest(row[q])
      /\ RowLease \in Nat /\ <<>> \notin Pumps
      /\ \A u \in Pumps : pump[u].at \in Sending => pump[u].on \in Rows
  BY OutboxAssumption, PumpsAreNamed DEF OutboxInv, OutboxShape, OutboxRest
<1>2. CASE row'[q] = row[q]
  BY <1>1, <1>2 DEF RowRest
<1>3. ASSUME NEW p \in Rows, NEW state \in RowState \ {"leased"}, NEW due \in BOOLEAN
      PROVE  RowRest(Release(p, state, due)[q])
  <2>1. CASE q = p
    <3>1. Release(p, state, due)[q] = [state |-> state, due |-> due, holder |-> <<>>, left |-> 0]
      BY <1>1, <2>1 DEF Release
    <3> QED BY <1>1, <3>1 DEF RowRest
  <2>2. CASE q # p
    BY <1>1, <2>2 DEF Release
  <2> QED BY <2>1, <2>2
<1>4. ASSUME NEW p \in Rows, NEW state \in RowState \ {"leased"}, NEW due \in BOOLEAN,
             row'[q] = Release(p, state, due)[q]
      PROVE  RowRest(row[q])'
  BY <1>3, <1>4 DEF RowRest
<1>5. ASSUME NEW p \in Rows, EnqueueRow(p) \/ RowDue(p) PROVE RowRest(row[q])'
  <2>1. /\ row[p].state \in {"none", "pending"}
        /\ \/ row' = [row EXCEPT ![p].state = "pending", ![p].due = TRUE]
           \/ row' = [row EXCEPT ![p].due = TRUE]
    BY <1>5 DEF EnqueueRow, RowDue
  <2>2. CASE q = p
    <3>1. /\ row'[q].state \in {"none", "pending"} /\ row'[q].holder = row[q].holder
          /\ row'[q].left = row[q].left
      BY <1>1, <2>1, <2>2 DEF RowRecord
    <3> QED BY <1>1, <2>1, <2>2, <3>1 DEF RowRest
  <2>3. CASE q # p
    BY <1>1, <1>2, <2>1, <2>3
  <2> QED BY <2>2, <2>3
<1>6. ASSUME NEW u \in Pumps, WakePump(u) PROVE RowRest(row[q])'
  <2>1. row'[q] = IF ExpiredRow(q) THEN Release(q, "pending", TRUE)[q] ELSE row[q]
    BY <1>6 DEF WakePump
  <2> QED BY <1>2, <1>4, <2>1 DEF RowState
<1>7. ASSUME NEW u \in Pumps, NEW found, NEW passed, row' = Claimed(u, found, passed)
      PROVE  RowRest(row[q])'
  <2>1. row'[q] = IF q = found THEN [row[q] EXCEPT !.state = "leased", !.holder = u, !.left = RowLease]
                  ELSE IF q \in passed THEN Release(q, "attention", FALSE)[q] ELSE row[q]
    BY <1>7 DEF Claimed
  <2>2. CASE q = found
    <3>1. row'[q].state = "leased" /\ row'[q].holder = u /\ row'[q].left = RowLease
      BY <1>1, <2>1, <2>2 DEF RowRecord
    <3> QED BY <1>1, <3>1 DEF RowRest
  <2>3. CASE q # found
    BY <1>2, <1>4, <2>1, <2>3 DEF RowState
  <2> QED BY <2>2, <2>3
<1>8. ASSUME NEW u \in Pumps, ClaimRow(u) PROVE RowRest(row[q])'
  BY <1>7, <1>8 DEF ClaimRow
<1>9. ASSUME NEW u \in Pumps, GiveBackRow(u) \/ SettleRow(u) PROVE RowRest(row[q])'
  <2>1. pump[u].on \in Rows
    BY <1>1, <1>9 DEF GiveBackRow, SettleRow, Sending
  <2>2. UNCHANGED row \/ \E state \in RowState \ {"leased"}, due \in BOOLEAN :
                            row' = Release(pump[u].on, state, due)
    BY <1>9 DEF GiveBackRow, SettleRow, RowState
  <2> QED BY <1>2, <1>4, <2>1, <2>2
<1>10. CASE RowTick
  <2>1. PICK left : left = IF row[q].left > 0 THEN row[q].left - 1 ELSE 0
    OBVIOUS
  <2>2. row'[q] = [row[q] EXCEPT !.left = left]
    BY <1>10, <2>1 DEF RowTick
  <2>3. left \in 0..RowLease
    BY <1>1, <2>1 DEF RowRest
  <2>4. row'[q].state = row[q].state /\ row'[q].holder = row[q].holder /\ row'[q].left = left
    BY <1>1, <2>2 DEF RowRecord
  <2> QED BY <1>1, <2>3, <2>4 DEF RowRest
<1>11. CASE \/ CompletionMoves \/ LastFault \/ UNCHANGED outboxVars
            \/ \E p \in Rows : TakeLateRow(p)
            \/ \E u \in Pumps : SendRow(u) \/ TakeRow(u) \/ RefuseRow(u) \/ LoseRow(u) \/ StopPump(u)
  BY <1>2, <1>11 DEF CompletionMoves, LastFault, outboxVars, TakeLateRow, SendRow, TakeRow,
                     RefuseRow, LoseRow, StopPump
<1> QED BY <1>5, <1>6, <1>8, <1>9, <1>10, <1>11 DEF OutboxNext, PumpStep

\* A pump without a request has no row.
LEMMA PumpsIdle ==
    ASSUME OutboxInv, OutboxRest, [OutboxNext]_outboxVars, NEW v \in Pumps, pump'[v].at \notin Sending
    PROVE  pump'[v].on = NoRow
<1>1. /\ pump \in [Pumps -> PumpRecord] /\ pump[v] \in PumpRecord
      /\ \A u \in Pumps : pump[u].at \notin Sending => pump[u].on = NoRow
  BY DEF OutboxInv, OutboxShape, OutboxRest
<1>2. CASE pump'[v] = pump[v]
  BY <1>1, <1>2
<1>3. ASSUME NEW u \in Pumps, NEW new, pump' = [pump EXCEPT ![u] = new],
             new.at \notin Sending => new.on = NoRow
      PROVE  pump'[v].on = NoRow
  BY <1>1, <1>2, <1>3
<1>4. ASSUME NEW u \in Pumps, NEW stage \in Sending, PumpTo(u, stage) PROVE pump'[v].on = NoRow
  <2>1. CASE u = v
    BY <1>1, <1>4, <2>1 DEF PumpTo, PumpRecord
  <2> QED BY <1>1, <1>2, <1>4, <2>1 DEF PumpTo
<1>5. ASSUME NEW u \in Pumps, WakePump(u) PROVE pump'[v].on = NoRow
  <2>1. pump[u].at \notin Sending /\ pump' = [pump EXCEPT ![u].at = "claim"]
    BY <1>5 DEF WakePump, Sending
  <2>2. CASE u = v
    BY <1>1, <2>1, <2>2 DEF PumpRecord
  <2> QED BY <1>1, <1>2, <2>1, <2>2
<1>6. ASSUME NEW u \in Pumps, ClaimRow(u) PROVE pump'[v].on = NoRow
  <2>1. \/ \E p \in ReadyRows : pump' = [pump EXCEPT ![u] = [at |-> "send", on |-> p]]
        \/ pump' = [pump EXCEPT ![u] = Asleep]
    BY <1>6 DEF ClaimRow
  <2> QED BY <1>3, <2>1 DEF Asleep, Sending
<1>7. ASSUME NEW u \in Pumps, GiveBackRow(u) \/ SettleRow(u) \/ StopPump(u) PROVE pump'[v].on = NoRow
  <2>1. \/ pump' = [pump EXCEPT ![u] = [at |-> "claim", on |-> NoRow]]
        \/ pump' = [pump EXCEPT ![u] = Asleep]
    BY <1>7 DEF GiveBackRow, SettleRow, StopPump, PumpOn
  <2> QED BY <1>3, <2>1 DEF Asleep
<1>8. ASSUME NEW u \in Pumps, SendRow(u) \/ TakeRow(u) \/ RefuseRow(u) \/ LoseRow(u)
      PROVE  pump'[v].on = NoRow
  <2>1. \E stage \in Sending : PumpTo(u, stage)
    BY <1>8 DEF SendRow, TakeRow, RefuseRow, LoseRow, Sending
  <2> QED BY <1>4, <2>1
<1>9. CASE \/ CompletionMoves \/ RowTick \/ LastFault \/ UNCHANGED outboxVars
           \/ \E p \in Rows : EnqueueRow(p) \/ RowDue(p) \/ TakeLateRow(p)
  BY <1>2, <1>9 DEF CompletionMoves, RowTick, LastFault, outboxVars, EnqueueRow, RowDue, TakeLateRow
<1> QED BY <1>5, <1>6, <1>7, <1>8, <1>9 DEF OutboxNext, PumpStep

LEMMA OutboxRestStep ==
    ASSUME OutboxInv, OutboxRest, [OutboxNext]_outboxVars
    PROVE  OutboxRest'
<1>1. \A i, j \in DOMAIN arrived' : arrived'[i] = arrived'[j] => i = j
  <2>1. ArrivesStep /\ arrived \in Seq(Rows)
    BY PumpsStep DEF OutboxInv, OutboxShape
  <2>2. \A i, j \in DOMAIN arrived : arrived[i] = arrived[j] => i = j
    BY DEF OutboxRest
  <2>3. ASSUME NEW p \in Rows, p \notin Arrived, arrived' = Append(arrived, p)
        PROVE  \A i, j \in DOMAIN arrived' : arrived'[i] = arrived'[j] => i = j
    <3>1. /\ DOMAIN arrived' = 1..Len(arrived) + 1 /\ DOMAIN arrived = 1..Len(arrived)
          /\ Len(arrived) \in Nat
          /\ \A i \in 1..Len(arrived) : arrived'[i] = arrived[i]
          /\ arrived'[Len(arrived) + 1] = p
      BY <2>1, <2>3
    <3>2. \A i \in 1..Len(arrived) : arrived[i] # p
      BY <2>3, <3>1 DEF Arrived
    <3>3. \A i \in DOMAIN arrived' : i \in 1..Len(arrived) \/ i = Len(arrived) + 1
      BY <3>1
    <3> QED BY <2>2, <3>1, <3>2, <3>3
  <2> QED BY <2>1, <2>2, <2>3 DEF ArrivesStep
<1>2. steady' \in BOOLEAN
  BY DEF OutboxRest, OutboxNext, PumpStep, EnqueueRow, RowDue, TakeLateRow, CompletionMoves, WakePump,
         ClaimRow, SendRow, GiveBackRow, TakeRow, RefuseRow, LoseRow, SettleRow, StopPump, RowTick,
         LastFault, outboxVars
<1> QED BY <1>1, <1>2, RowsBounded, PumpsIdle DEF OutboxRest

OutboxTypes == OutboxInv /\ OutboxRest

LEMMA OutboxTyped ==
    /\ OutboxInit => OutboxTypes
    /\ OutboxTypes /\ [OutboxNext]_outboxVars => OutboxTypes'
    /\ OutboxTypes => OutboxTypeOK
<1>1. ASSUME OutboxInit PROVE OutboxRest
  <2>1. 0 \in 0..RowLease
    BY OutboxAssumption
  <2>2. \A p \in Rows : RowRest(row[p])
    BY <1>1, <2>1, PumpsAreNamed DEF OutboxInit, RowRest
  <2>3. \A u \in Pumps : pump[u].on = NoRow
    BY <1>1 DEF OutboxInit, Asleep
  <2>4. arrived = <<>> /\ steady \in BOOLEAN
    BY <1>1 DEF OutboxInit
  <2>5. DOMAIN <<>> = {}
    OBVIOUS
  <2> QED BY <2>2, <2>3, <2>4, <2>5 DEF OutboxRest
<1>2. ASSUME OutboxTypes PROVE OutboxTypeOK
  <2>1. OutboxShape /\ OutboxRest
    BY <1>2 DEF OutboxTypes, OutboxInv
  <2>2. NoRow \notin Rows
    BY OutboxAssumption DEF NoRow, NoParent
  <2>3. \A p \in Rows :
           /\ row[p].state \in {"none", "pending", "leased", "acknowledged", "attention"}
           /\ row[p].holder \in Pumps <=> row[p].state = "leased"
           /\ row[p].left \in 0..RowLease
    BY <2>1 DEF OutboxShape, OutboxRest, RowRest, RowRecord, RowState
  <2>4. \A u \in Pumps :
           /\ pump[u].at \in {"asleep", "claim", "send", "wait", "taken", "busy", "refused"}
           /\ pump[u].on \in Rows <=> pump[u].at \notin {"asleep", "claim"}
    BY <2>1, <2>2 DEF OutboxShape, OutboxRest, PumpRecord, Sending
  <2>5. Arrived \subseteq Rows
    BY <2>1 DEF OutboxShape, Arrived
  <2> QED BY <2>1, <2>3, <2>4, <2>5 DEF OutboxShape, OutboxRest, OutboxTypeOK
<1> QED BY <1>1, <1>2, OutboxInitInv, OutboxInvStep, OutboxRestStep DEF OutboxTypes

-----------------------------------------------------------------------------
(* All records *)

RecordsInv ==
    /\ FollowUpInv /\ ReassessTypes /\ OutboxTypes /\ JobInv /\ PermissionTypes
    /\ GithubTypes /\ BatchInv

LEMMA RecordsInvInit == Init => RecordsInv
BY FollowUpInitInv, ReassessTyped, OutboxTyped, JobInitInv, PermissionTyped, GithubTyped, BatchInitInv
DEF Init, RecordsInv

\* A step is one of each record, or none.
LEMMA StepOfEach ==
    ASSUME [Next]_vars
    PROVE  /\ [FollowUpNext]_followUpVars /\ [ReassessNext]_reassessVars
           /\ [OutboxNext]_outboxVars /\ [JobNext]_jobVars
           /\ [PermissionNext]_permissionVars /\ [GithubNext]_githubVars
           /\ [BatchNext]_batchVars
BY DEF Next, vars, recordVars

LEMMA RecordsInvStep == RecordsInv /\ [Next]_vars => RecordsInv'
<1> SUFFICES ASSUME RecordsInv, [Next]_vars PROVE RecordsInv'
  OBVIOUS
<1>1. FollowUpInv' /\ JobInv' /\ BatchInv'
  BY StepOfEach, FollowUpInvStep, JobInvStep, BatchInvStep DEF RecordsInv
<1>2. ReassessTypes' /\ OutboxTypes' /\ PermissionTypes' /\ GithubTypes'
  BY StepOfEach, ReassessTyped, OutboxTyped, PermissionTyped, GithubTyped DEF RecordsInv
<1> QED BY <1>1, <1>2 DEF RecordsInv

\* All records keep their types, for any number of each and any bounds: an
\* obligation or a row has a holder just while it is leased, what was read was
\* recorded, nothing arrives twice, and no counter passes its bound.
THEOREM RecordsTypes == Spec => []RecordsTypeOK
<1>1. JobInv => JobQueueTypeOK
  BY DEF JobInv, JobShape, JobQueueTypeOK, JobRecord, JobState, SettlementRecord, WorkerRecord
<1>2. BatchInv => BatchTypeOK
  BY DEF BatchInv, BatchShape, BatchTypeOK, BatchRecord, ItemRecord, AdmitterRecord, ResultList
<1>3. RecordsInv => RecordsTypeOK
  BY <1>1, <1>2, ReassessTyped, OutboxTyped, PermissionTyped, GithubTyped
  DEF RecordsInv, RecordsTypeOK, FollowUpInv
<1> QED BY <1>3, RecordsInvInit, RecordsInvStep, PTL DEF Spec

-----------------------------------------------------------------------------
(* Each record within the instance *)

\* A behaviour of all the records together is a behaviour of each of them.
LEMMA EachRecordRuns ==
    Spec => /\ FollowUpSpec /\ ReassessSpec /\ OutboxSpec /\ JobSpec
            /\ PermissionSpec /\ GithubSpec /\ BatchSpec
<1>1. Init => /\ FollowUpInit /\ ReassessInit /\ OutboxInit /\ JobInit
              /\ PermissionInit /\ GithubInit /\ BatchInit
  BY DEF Init
<1>2. [Next]_vars => /\ [FollowUpNext]_followUpVars /\ [ReassessNext]_reassessVars
                     /\ [OutboxNext]_outboxVars /\ [JobNext]_jobVars
                     /\ [PermissionNext]_permissionVars /\ [GithubNext]_githubVars
                     /\ [BatchNext]_batchVars
  BY StepOfEach
<1> QED
  BY <1>1, <1>2, PTL DEF Spec, FollowUpSpec, ReassessSpec, OutboxSpec, JobSpec,
     PermissionSpec, GithubSpec, BatchSpec

\* What is proved of each record holds of the specification that composes them:
\* every safety property of the records at once, and what a step may never do.
THEOREM RecordsSafe ==
    Spec => /\ [](PromotedHasItsRun /\ ReservationKept /\ NoFactForgotten
                   /\ SettledForItsLastClaim /\ PerformedWasAllowed /\ EndedIsAccounted
                   /\ AnsweredOnce /\ AdmissionAccounted /\ BatchTellsItsItems)
            /\ PromotionStays /\ FencedSettlement /\ KeepsOutboxPromise
<1>1. FollowUpSpec => []PromotedHasItsRun /\ []ReservationKept /\ PromotionStays
  BY PromotionsHaveRuns, ReservationsKept, PromotionsStay
<1>2. ReassessSpec => []NoFactForgotten /\ FencedSettlement
  BY FactsAreKept, SettlementFenced
<1>3. /\ OutboxSpec => KeepsOutboxPromise
      /\ JobSpec => []SettledForItsLastClaim
  BY OutboxPromiseKept, JobsSettleOnce
<1>4. PermissionSpec => []PerformedWasAllowed /\ []EndedIsAccounted
  BY PerformedOnPermission, EndedAccounted
<1>5. /\ GithubSpec => []AnsweredOnce /\ []AdmissionAccounted
      /\ BatchSpec => []BatchTellsItsItems
  BY AnswersStand, AdmissionsAccounted, BatchTellsTrue
<1> QED BY <1>1, <1>2, <1>3, <1>4, <1>5, EachRecordRuns, PTL
=============================================================================
