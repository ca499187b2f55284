------------------------ MODULE DeliveryKernelProofs ------------------------
(***************************************************************************)
(* Proofs about the delivery kernel, for any intents, workers and bounds:  *)
(* types, at most one call per intent, and the refinement of the delivery  *)
(* promise.  The invariant that carries them follows a row and the worker  *)
(* that begun it together.                                                 *)
(***************************************************************************)
EXTENDS DeliveryKernel, TLAPS

USE DeliveryAssumption

Begun == "provider_io_begun"

\* Two workers are never past the begin mark of one intent.
Apart ==
  \A v, w \in Workers :
    v # w /\ job[v].step \in PastBegin /\ job[w].step \in PastBegin => job[v].intent # job[w].intent

\* Nothing is sent before the mark, nor by a worker that has only the mark.
SentAfterBegin ==
  /\ \A i \in Intents : state[i] \notin Terminal \cup {Begun} => sent[i] = 0
  /\ \A w \in Workers : job[w].step = "begun" => sent[job[w].intent] = 0

\* Every request sent is under way, applied, or refused.
Counted == \A i \in Intents : inFlight[i] + applied[i] <= sent[i] /\ sent[i] <= 1

\* An outcome other than "outcome_unknown" is what happened at the provider.
Truthful(i, outcome) ==
  /\ outcome = "accepted" => applied[i] = 1
  /\ outcome = "rejected" => inFlight[i] = 0 /\ applied[i] = 0
  /\ outcome = "attention" => sent[i] = 0
AnswersTrue ==
  \A w \in Workers : job[w].step = "answered" => Truthful(job[w].intent, job[w].outcome)
VerdictsTrue ==
  \A i \in Intents :
    /\ Truthful(i, state[i])
    /\ state[i] \in Terminal \ {"outcome_unknown"} =>
         \A w \in Workers : job[w].step \in PastBegin => job[w].intent # i

\* A worker with a step to take holds a claim on an intent.
BusyHolds == \A w \in Workers : job[w].step # "idle" => job[w].intent \in Intents

DeliveryInv ==
  /\ DeliveryTypeOK /\ BusyHolds /\ SettlementFits /\ Apart
  /\ SentAfterBegin /\ Counted /\ AnswersTrue /\ VerdictsTrue

\* The empty journal satisfies the invariant.
LEMMA InitDelivery == Init => DeliveryInv
BY SMT DEF Init, DeliveryInv, DeliveryTypeOK, RowsFit, Journaled, BusyHolds, SettlementFits, Apart, SentAfterBegin,
  Counted, AnswersTrue, VerdictsTrue, Truthful, Job, Idle, Step, PastBegin, RowState, Terminal, NoLease, Begun

\* A change of one row keeps what the others hold.
LEMMA OneRowFits ==
  ASSUME DeliveryInv, NEW i \in Intents,
         \A k \in Intents \ {i} : /\ state'[k] = state[k] /\ revision'[k] = revision[k]
                                  /\ fence'[k] = fence[k] /\ lease'[k] = lease[k],
         state'[i] \notin {"absent", "pending"},
         revision'[i] > 0, fence'[i] # 0, lease'[i] # NoLease
  PROVE  RowsFit'
BY Zenon DEF RowsFit, Journaled, DeliveryInv, DeliveryTypeOK

\* Every action keeps the columns fitting the states.
LEMMA NextRowsFit == DeliveryInv /\ [Next]_vars => RowsFit'
<1> SUFFICES ASSUME DeliveryInv, [Next]_vars PROVE RowsFit'
  OBVIOUS
<1>t. /\ RowsFit /\ BusyHolds /\ SettlementFits
      /\ state \in [Intents -> RowState] /\ revision \in [Intents -> Nat]
      /\ fence \in [Intents -> 0..MaxClaims] /\ lease \in [Intents -> NoLease..LeaseTicks]
  BY DEF DeliveryInv, DeliveryTypeOK
<1>1. ASSUME UNCHANGED journal PROVE RowsFit'
  BY <1>1, <1>t, Zenon DEF RowsFit, Journaled, journal
<1>2. CASE Tick
  BY <1>2, <1>t DEF Tick, RowsFit, Journaled, NoLease
<1>3. ASSUME NEW i \in Intents, Inserted(i) PROVE RowsFit'
  BY <1>3, <1>t DEF Inserted, RowsFit, Journaled
<1>4. ASSUME NEW w \in Workers, ClaimNext(w) PROVE RowsFit'
  <2>1. PICK i \in Intents :
          /\ state' = [state EXCEPT ![i] = "leased"] /\ revision' = [revision EXCEPT ![i] = @ + 1]
          /\ fence' = [fence EXCEPT ![i] = @ + 1] /\ lease' = [lease EXCEPT ![i] = LeaseTicks]
    BY <1>4, Zenon DEF ClaimNext, Leased
  <2> QED BY <1>t, <2>1, OneRowFits DEF NoLease
<1>5. ASSUME NEW w \in Workers, RenewLease(w) PROVE RowsFit'
  <2>1. ASSUME HoldsClaim(job[w]),
               revision' = [revision EXCEPT ![job[w].intent] = @ + 1],
               lease' = [lease EXCEPT ![job[w].intent] = LeaseTicks],
               UNCHANGED <<state, fence>>
        PROVE  RowsFit'
    <3>1. job[w].intent \in Intents
      BY <1>5, <1>t DEF RenewLease, BusyHolds
    <3>2. state[job[w].intent] = "leased"
      BY <2>1, Zenon DEF HoldsClaim
    <3>3. fence[job[w].intent] # 0
      BY <1>t, <3>1, <3>2 DEF RowsFit
    <3> QED BY <1>t, <2>1, <3>1, <3>2, <3>3, OneRowFits DEF NoLease
  <2> QED BY <1>1, <1>5, <2>1, Zenon DEF RenewLease, Abandon, Leased
<1>6. ASSUME NEW w \in Workers, MarkBegin(w) PROVE RowsFit'
  <2>1. ASSUME HoldsClaim(job[w]),
               state' = [state EXCEPT ![job[w].intent] = "provider_io_begun"],
               revision' = [revision EXCEPT ![job[w].intent] = @ + 1],
               UNCHANGED <<fence, lease>>
        PROVE  RowsFit'
    <3>1. job[w].intent \in Intents
      BY <1>6, <1>t DEF MarkBegin, BusyHolds
    <3>2. state[job[w].intent] = "leased"
      BY <2>1, Zenon DEF HoldsClaim
    <3>3. fence[job[w].intent] # 0 /\ lease[job[w].intent] # NoLease
      BY <1>t, <3>1, <3>2 DEF RowsFit
    <3> QED BY <1>t, <2>1, <3>1, <3>3, OneRowFits
  <2> QED BY <1>1, <1>6, <2>1, Zenon DEF MarkBegin, Abandon
<1>7. ASSUME NEW i \in Intents, state[i] \in Terminal \cup {Begun},
             NEW s \in Terminal \cup {Begun}, NEW n \in {revision[i], revision[i] + 1},
             state' = [state EXCEPT ![i] = s], revision' = [revision EXCEPT ![i] = n],
             UNCHANGED <<fence, lease>>
      PROVE  RowsFit'
  <2>1. state[i] \notin {"absent", "pending"} /\ s \notin {"absent", "pending"}
    BY <1>7 DEF Terminal, Begun
  <2>2. fence[i] # 0 /\ lease[i] # NoLease /\ revision[i] > 0
    BY <1>t, <2>1 DEF RowsFit, Journaled
  <2> QED BY <1>7, <1>t, <2>1, <2>2, OneRowFits
<1>8. ASSUME NEW w \in Workers, SettleOrReadTerminal(w) PROVE RowsFit'
  <2> DEFINE i == job[w].intent
  <2>1. i \in Intents /\ job[w] \in Job
    BY <1>8 DEF SettleOrReadTerminal, BusyHolds, DeliveryInv, DeliveryTypeOK
  <2>2. state[i] \in Terminal \cup {Begun} /\ SettledState(i, job[w]) \in Terminal \cup {Begun}
    BY <1>8, <2>1 DEF SettleOrReadTerminal, SettledState, Begun, Terminal, Job
  <2>3. /\ state' = [state EXCEPT ![i] = SettledState(i, job[w])]
        /\ revision' = [revision EXCEPT ![i] =
                          IF state[i] \in Terminal THEN revision[i] ELSE revision[i] + 1]
        /\ UNCHANGED <<fence, lease>>
    BY <1>8 DEF SettleOrReadTerminal
  <2> QED BY <1>7, <2>1, <2>2, <2>3
<1>9. ASSUME NEW i \in Intents, FinalizeStrandedBegun(i) PROVE RowsFit'
  BY <1>7, <1>9 DEF FinalizeStrandedBegun, Begun, Terminal
<1> QED
  BY <1>1, <1>2, <1>3, <1>4, <1>5, <1>6, <1>8, <1>9, Zenon
  DEF Next, WorkerStep, Crash, Restart, RecoveryCut, Reconcile, RecordIntent, ProviderHandles,
    Load, Deliver, Answer, vars, journal

\* Every action keeps the types.
LEMMA NextDeliveryTypes == DeliveryInv /\ [Next]_vars => DeliveryTypeOK'
<1> SUFFICES ASSUME DeliveryInv, [Next]_vars PROVE DeliveryTypeOK'
  OBVIOUS
<1> USE DEF DeliveryInv, DeliveryTypeOK, RowState, Terminal, NoLease, journal, provider, vars
<1>r. RowsFit'
  BY NextRowsFit
<1> USE <1>r
<1>j. ASSUME NEW w \in Workers, NEW j \in Job PROVE [job EXCEPT ![w] = j] \in [Workers -> Job]
  OBVIOUS
<1>i. Idle \in Job
  BY DEF Idle, Job, Step
<1>f. ASSUME NEW j \in Job, NEW s \in Step, NEW n \in Nat, NEW o \in Terminal
      PROVE  /\ [j EXCEPT !.step = s] \in Job
             /\ [j EXCEPT !.step = s, !.revision = n] \in Job
             /\ [j EXCEPT !.step = s, !.outcome = o] \in Job
             /\ [j EXCEPT !.revision = n, !.step = s, !.outcome = o] \in Job
  BY DEF Job
<1>g. \A w \in Workers : job[w] \in Job /\ job[w].revision \in Nat
  BY DEF Job
<1>s. PastBegin \subseteq Step /\ {"claimed", "renewed", "fit", "unfit"} \subseteq Step
  BY DEF PastBegin, Step
<1>1. CASE Crash
  <2>1. up' \in BOOLEAN /\ job' \in [Workers -> Job]
    <3> HIDE DEF DeliveryInv, DeliveryTypeOK
    <3> QED BY <1>1, <1>i DEF Crash, Stopped
  <2> QED BY <1>1, <2>1 DEF Crash
<1>2. CASE Restart
  BY <1>2 DEF Restart, Finalized
<1>3. CASE Tick
  BY <1>3 DEF Tick
<1>3c. CASE RecoveryCut
  BY <1>3c DEF RecoveryCut
<1>4. ASSUME NEW old \in SUBSET Intents, Reconcile(old) PROVE DeliveryTypeOK'
  BY <1>4 DEF Reconcile, Finalized
<1>5. ASSUME NEW i \in Intents, RecordIntent(i) PROVE DeliveryTypeOK'
  <2>1. Inserted(i) \/ UNCHANGED journal
    BY <1>5 DEF RecordIntent
  <2>2. /\ state' \in [Intents -> RowState] /\ revision' \in [Intents -> Nat]
        /\ fence' \in [Intents -> 0..MaxClaims] /\ lease' \in [Intents -> NoLease..LeaseTicks]
    BY <2>1 DEF Inserted
  <2>3. custody' \in [Intents -> SUBSET {"staged", "payload"}] /\ UNCHANGED provider
    <3>1. {{"payload"}, {"staged"}, {"staged", "payload"}} \subseteq SUBSET {"staged", "payload"}
      OBVIOUS
    <3>2. PICK c \in {{"payload"}, {"staged"}, {"staged", "payload"}} : custody' = [custody EXCEPT ![i] = c]
      BY <1>5 DEF RecordIntent
    <3> QED BY <1>5, <3>1, <3>2 DEF RecordIntent
  <2>4. up' \in BOOLEAN /\ job' \in [Workers -> Job]
    <3>1. Stopped \/ UNCHANGED <<up, job>>
      BY <1>5 DEF RecordIntent
    <3>2. CASE Stopped
      <4> HIDE DEF DeliveryInv, DeliveryTypeOK
      <4> QED BY <1>i, <3>2 DEF Stopped
    <3>3. CASE UNCHANGED <<up, job>>
      BY <3>3
    <3> QED BY <3>1, <3>2, <3>3
  <2> QED BY <2>2, <2>3, <2>4
<1>6. ASSUME NEW i \in Intents, ProviderHandles(i) PROVE DeliveryTypeOK'
  BY <1>6 DEF ProviderHandles
<1>7. ASSUME NEW i \in Intents, FinalizeStrandedBegun(i) PROVE DeliveryTypeOK'
  BY <1>7 DEF FinalizeStrandedBegun
<1>8. ASSUME NEW w \in Workers, ClaimNext(w) PROVE DeliveryTypeOK'
  BY <1>8 DEF ClaimNext, Leased, Job, Step
<1>9. ASSUME NEW w \in Workers, RenewLease(w) PROVE DeliveryTypeOK'
  <2>1. job[w] \in Job /\ job[w].intent \in Intents
    BY <1>9 DEF RenewLease, BusyHolds
  <2>2. [job[w] EXCEPT !.step = "renewed", !.revision = job[w].revision + 1] \in Job
    <3>1. job[w].revision + 1 \in Nat /\ "renewed" \in Step
      BY <1>g, <1>s
    <3> QED BY <2>1, <3>1, <1>f
  <2>3. job' \in [Workers -> Job]
    <3>1. \/ job' = [job EXCEPT ![w] = [job[w] EXCEPT !.step = "renewed", !.revision = job[w].revision + 1]]
          \/ job' = [job EXCEPT ![w] = Idle]
      BY <1>9 DEF RenewLease, Advance, Abandon
    <3> HIDE DEF DeliveryInv, DeliveryTypeOK
    <3> QED BY <1>j, <1>i, <2>2, <3>1
  <2> QED BY <1>9, <2>1, <2>3 DEF RenewLease, Abandon, Leased
<1>10. ASSUME NEW w \in Workers, Load(w) PROVE DeliveryTypeOK'
  <2>1. /\ [job[w] EXCEPT !.step = "fit", !.revision = job[w].revision] \in Job
        /\ [job[w] EXCEPT !.step = "unfit", !.revision = job[w].revision] \in Job
    <3>1. job[w] \in Job /\ job[w].revision \in Nat /\ "fit" \in Step /\ "unfit" \in Step
      BY <1>g, <1>s
    <3> HIDE DEF DeliveryInv, DeliveryTypeOK
    <3> QED BY <1>f, <3>1
  <2>2. job' \in [Workers -> Job]
    <3>1. \/ job' = [job EXCEPT ![w] = [job[w] EXCEPT !.step = "fit", !.revision = job[w].revision]]
          \/ job' = [job EXCEPT ![w] = [job[w] EXCEPT !.step = "unfit", !.revision = job[w].revision]]
      BY <1>10 DEF Load, Advance
    <3> HIDE DEF DeliveryInv, DeliveryTypeOK
    <3> QED BY <1>j, <2>1, <3>1
  <2> QED BY <1>10, <2>2 DEF Load
<1>11. ASSUME NEW w \in Workers, MarkBegin(w) PROVE DeliveryTypeOK'
  <2>1. job[w] \in Job /\ job[w].intent \in Intents
    BY <1>11 DEF MarkBegin, BusyHolds
  <2>2. [job[w] EXCEPT !.revision = job[w].revision + 1,
                       !.step = IF job[w].step = "fit" THEN "begun" ELSE "answered",
                       !.outcome = IF job[w].step = "fit" THEN "outcome_unknown" ELSE "attention"] \in Job
    <3>1. job[w].revision + 1 \in Nat
      BY <1>g
    <3>2. (IF job[w].step = "fit" THEN "begun" ELSE "answered") \in Step
      BY DEF Step, PastBegin
    <3>3. (IF job[w].step = "fit" THEN "outcome_unknown" ELSE "attention") \in Terminal
      OBVIOUS
    <3> QED BY <2>1, <3>1, <3>2, <3>3, <1>f
  <2>3. job' \in [Workers -> Job]
    <3>1. \/ job' = [job EXCEPT ![w] =
               [job[w] EXCEPT !.revision = job[w].revision + 1,
                       !.step = IF job[w].step = "fit" THEN "begun" ELSE "answered",
                       !.outcome = IF job[w].step = "fit" THEN "outcome_unknown" ELSE "attention"]]
          \/ job' = [job EXCEPT ![w] = Idle]
      BY <1>11 DEF MarkBegin, Abandon
    <3> HIDE DEF DeliveryInv, DeliveryTypeOK
    <3> QED BY <1>j, <1>i, <2>2, <3>1
  <2> QED BY <1>11, <2>1, <2>3 DEF MarkBegin, Abandon
<1>12. ASSUME NEW w \in Workers, Deliver(w) PROVE DeliveryTypeOK'
  <2>1. job[w] \in Job /\ job[w].intent \in Intents
    BY <1>12 DEF Deliver, BusyHolds
  <2>2. /\ [job[w] EXCEPT !.step = "calling"] \in Job
        /\ \A o \in {"attention", "outcome_unknown"} :
             [job[w] EXCEPT !.step = "answered", !.outcome = o] \in Job
    <3>1. "calling" \in Step /\ "answered" \in Step /\ {"attention", "outcome_unknown"} \subseteq Terminal
      BY DEF Step, PastBegin
    <3> HIDE DEF DeliveryInv, DeliveryTypeOK, Terminal
    <3> QED BY <1>f, <2>1, <3>1
  <2>3. job' \in [Workers -> Job]
    <3>1. \/ job' = [job EXCEPT ![w] = [job[w] EXCEPT !.step = "calling"]]
          \/ \E o \in {"attention", "outcome_unknown"} :
               job' = [job EXCEPT ![w] = [job[w] EXCEPT !.step = "answered", !.outcome = o]]
      BY <1>12 DEF Deliver
    <3> HIDE DEF DeliveryInv, DeliveryTypeOK
    <3> QED BY <1>j, <2>2, <3>1
  <2> QED BY <1>12, <2>1, <2>3 DEF Deliver
<1>13. ASSUME NEW w \in Workers, Answer(w) PROVE DeliveryTypeOK'
  <2>1. PICK o \in Answers(job[w].intent) :
          job' = [job EXCEPT ![w] = [job[w] EXCEPT !.step = "answered", !.outcome = o]]
    BY <1>13 DEF Answer
  <2>2. o \in Terminal
    BY DEF Answers
  <2>3. [job[w] EXCEPT !.step = "answered", !.outcome = o] \in Job
    <3>1. "answered" \in Step
      BY DEF Step, PastBegin
    <3> QED BY <2>2, <3>1, <1>f, <1>g
  <2>4. job' \in [Workers -> Job]
    BY <1>j, <2>1, <2>3
  <2> QED BY <1>13, <2>4 DEF Answer
<1>14. ASSUME NEW w \in Workers, SettleOrReadTerminal(w) PROVE DeliveryTypeOK'
  <2>1. job[w].intent \in Intents /\ job[w].outcome \in Terminal
    BY <1>14 DEF SettleOrReadTerminal, BusyHolds, Job
  <2> QED BY <1>14, <1>i, <2>1 DEF SettleOrReadTerminal, SettledState
<1>15. CASE UNCHANGED vars
  BY <1>15
<1> QED BY <1>1, <1>2, <1>3, <1>3c, <1>4, <1>5, <1>6, <1>7, <1>8, <1>9, <1>10, <1>11, <1>12, <1>13, <1>14, <1>15
     DEF Next, WorkerStep

-----------------------------------------------------------------------------
(* The invariant *)

DeliveryFacts == BusyHolds /\ SettlementFits /\ Apart /\ SentAfterBegin /\ Counted /\ AnswersTrue /\ VerdictsTrue

\* Steps before the begin mark disturb nothing: rows that are neither begun nor
\* closed change among themselves, workers move without passing the mark.
LEMMA QuietStep ==
  ASSUME DeliveryInv, DeliveryTypeOK', UNCHANGED provider,
         \A i \in Intents :
           \/ state'[i] = state[i] /\ fence'[i] = fence[i]
           \/ state[i] \notin Terminal \cup {Begun} /\ state'[i] \notin Terminal \cup {Begun},
         \A w \in Workers :
           \/ job'[w] = job[w]
           \/ job'[w].step \notin PastBegin /\ (job'[w].step # "idle" => job'[w].intent \in Intents)
  PROVE  DeliveryFacts'
<1> USE DEF DeliveryInv, provider
<1>w. \A w \in Workers : job'[w].step \in PastBegin =>
        job'[w] = job[w] /\ job[w].intent \in Intents
  BY DEF BusyHolds, PastBegin
<1>b. "begun" \in PastBegin /\ "answered" \in PastBegin
  BY DEF PastBegin
<1>1. BusyHolds'
  BY DEF BusyHolds
<1>2. SettlementFits'
  BY <1>w DEF SettlementFits, Begun, Terminal
<1>3. Apart'
  BY <1>w DEF Apart
<1>4. SentAfterBegin'
  BY <1>w, <1>b DEF SentAfterBegin
<1>5. Counted'
  BY DEF Counted
<1>6. AnswersTrue'
  BY <1>w, <1>b DEF AnswersTrue, Truthful
<1>7. VerdictsTrue'
  <2> SUFFICES ASSUME NEW i \in Intents
               PROVE  /\ Truthful(i, state[i])'
                      /\ state'[i] \in Terminal \ {"outcome_unknown"} =>
                           \A w \in Workers : job'[w].step \in PastBegin => job'[w].intent # i
    BY DEF VerdictsTrue
  <2>1. CASE state'[i] = state[i]
    BY <2>1, <1>w DEF VerdictsTrue, Truthful
  <2>2. CASE state'[i] \notin Terminal \cup {Begun}
    BY <2>2 DEF Truthful, Terminal
  <2> QED BY <2>1, <2>2
<1> QED BY <1>1, <1>2, <1>3, <1>4, <1>5, <1>6, <1>7 DEF DeliveryFacts

\* The begin mark is set by one worker, on a row nobody was past the mark of.
LEMMA BeginStep ==
  ASSUME DeliveryInv, DeliveryTypeOK', NEW w \in Workers, MarkBegin(w) PROVE DeliveryFacts'
<1> DEFINE i == job[w].intent
<1> USE DEF DeliveryInv
<1>0. w \in Workers /\ i \in Intents /\ job[w].step \notin PastBegin /\ UNCHANGED <<fence, provider>>
  BY DEF MarkBegin, BusyHolds, PastBegin, Abandon, journal
<1>1. CASE ~HoldsClaim(job[w])
  <2>1. UNCHANGED <<state, fence, provider>> /\ job' = [job EXCEPT ![w] = Idle]
    BY <1>1 DEF MarkBegin, Abandon, journal
  <2>2. \A v \in Workers : job'[v] = job[v] \/ (job'[v].step \notin PastBegin /\ job'[v].step = "idle")
    BY <2>1 DEF Idle, PastBegin, DeliveryTypeOK
  <2> QED BY <2>1, <2>2, QuietStep
<1>2. CASE HoldsClaim(job[w])
  <2>1. /\ state[i] = "leased" /\ fence[i] = job[w].fence
        /\ state' = [state EXCEPT ![i] = Begun]
    BY <1>2 DEF MarkBegin, HoldsClaim, Begun, Abandon
  <2>2. /\ \A v \in Workers \ {w} : job'[v] = job[v]
        /\ job'[w].intent = i /\ job'[w].fence = job[w].fence
        /\ \/ job'[w].step = "begun"
           \/ job'[w].step = "answered" /\ job'[w].outcome = "attention"
    <3>1. job[w] \in Job
      BY DEF DeliveryTypeOK
    <3>2. job' = [job EXCEPT ![w] =
             [job[w] EXCEPT !.revision = job[w].revision + 1,
                       !.step = IF job[w].step = "fit" THEN "begun" ELSE "answered",
                       !.outcome = IF job[w].step = "fit" THEN "outcome_unknown" ELSE "attention"]]
      BY <1>2 DEF MarkBegin, Abandon
    <3> DEFINE begun == [job[w] EXCEPT !.revision = job[w].revision + 1,
                       !.step = IF job[w].step = "fit" THEN "begun" ELSE "answered",
                       !.outcome = IF job[w].step = "fit" THEN "outcome_unknown" ELSE "attention"]
    <3>3. /\ begun.intent = i /\ begun.fence = job[w].fence
          /\ begun.step = IF job[w].step = "fit" THEN "begun" ELSE "answered"
          /\ begun.outcome = IF job[w].step = "fit" THEN "outcome_unknown" ELSE "attention"
      BY <3>1 DEF Job
    <3> HIDE DEF begun
    <3>4. job' = [job EXCEPT ![w] = begun]
      BY <3>2 DEF begun
    <3>5. job'[w] = begun /\ \A v \in Workers \ {w} : job'[v] = job[v]
      BY <3>4 DEF DeliveryTypeOK
    <3> QED BY <3>3, <3>5
  <2>3. sent[i] = 0 /\ \A v \in Workers : job[v].step \in PastBegin => job[v].intent # i
    BY <1>0, <2>1 DEF SentAfterBegin, SettlementFits, Terminal, Begun
  <2>4. state'[i] = Begun /\ \A j \in Intents : j # i => state'[j] = state[j]
    BY <2>1, <1>0 DEF DeliveryTypeOK
  <2>5. UNCHANGED <<fence, sent, inFlight, applied>>
    BY <1>0 DEF provider
  <2>6. BusyHolds'
    BY <1>0, <2>2 DEF BusyHolds
  <2>7. SettlementFits'
    BY <1>0, <2>1, <2>2, <2>3, <2>4, <2>5 DEF SettlementFits, BusyHolds, PastBegin, Begun
  <2>8. Apart'
    BY <2>2, <2>3 DEF Apart
  <2>9. SentAfterBegin'
    BY <1>0, <2>2, <2>3, <2>4, <2>5 DEF SentAfterBegin, BusyHolds, PastBegin
  <2>10. Counted' /\ AnswersTrue'
    BY <2>2, <2>3, <2>5 DEF Counted, AnswersTrue, Truthful
  <2>11. VerdictsTrue'
    BY <1>0, <2>2, <2>3, <2>4, <2>5 DEF VerdictsTrue, Truthful, Terminal, Begun
  <2> QED BY <2>6, <2>7, <2>8, <2>9, <2>10, <2>11 DEF DeliveryFacts
<1> QED BY <1>1, <1>2

\* A call is the first of its intent.
LEMMA CallStep ==
  ASSUME DeliveryInv, DeliveryTypeOK', NEW w \in Workers, Deliver(w) PROVE DeliveryFacts'
<1> DEFINE i == job[w].intent
<1> USE DEF DeliveryInv
<1>0. /\ i \in Intents /\ job[w].step = "begun" /\ job[w].step \in PastBegin /\ sent[i] = 0
      /\ inFlight[i] = 0 /\ applied[i] = 0 /\ UNCHANGED <<state, fence, applied>>
  <2>1. job[w].step = "begun" /\ UNCHANGED <<state, fence, applied>>
    BY DEF Deliver, journal
  <2>2. job[w].step \in PastBegin /\ i \in Intents
    BY <2>1 DEF BusyHolds, PastBegin
  <2>3. sent[i] = 0
    BY <2>1 DEF SentAfterBegin
  <2>4. inFlight[i] \in Nat /\ applied[i] \in Nat /\ inFlight[i] + applied[i] <= 0
    BY <2>2, <2>3 DEF Counted, DeliveryTypeOK
  <2> QED BY <2>1, <2>2, <2>3, <2>4
<1>1. /\ \A v \in Workers \ {w} : job'[v] = job[v]
      /\ job'[w].intent = i /\ job'[w].fence = job[w].fence
      /\ \/ /\ job'[w].step = "calling"
            /\ sent' = [sent EXCEPT ![i] = 1] /\ inFlight' = [inFlight EXCEPT ![i] = 1]
         \/ /\ job'[w].step = "answered" /\ job'[w].outcome \in {"attention", "outcome_unknown"}
            /\ UNCHANGED <<sent, inFlight>>
  <2>1. job[w] \in Job
    BY DEF DeliveryTypeOK
  <2>2. CASE job' = [job EXCEPT ![w] = [job[w] EXCEPT !.step = "calling"]]
             /\ sent' = [sent EXCEPT ![i] = @ + 1] /\ inFlight' = [inFlight EXCEPT ![i] = @ + 1]
    BY <1>0, <2>1, <2>2 DEF DeliveryTypeOK, Job
  <2>3. CASE \E o \in {"attention", "outcome_unknown"} :
               /\ job' = [job EXCEPT ![w] = [job[w] EXCEPT !.step = "answered", !.outcome = o]]
               /\ UNCHANGED <<sent, inFlight>>
    BY <2>1, <2>3 DEF DeliveryTypeOK, Job
  <2> QED BY <2>2, <2>3 DEF Deliver
<1>2. \A v \in Workers : job'[v].intent = job[v].intent /\ job'[v].fence = job[v].fence
                         /\ (job'[v].step \in PastBegin => job[v].step \in PastBegin)
  BY <1>0, <1>1
<1>3. state[i] \in {Begun, "outcome_unknown"}
  BY <1>0 DEF SettlementFits, VerdictsTrue, Begun, Terminal
<1>4. \A v \in Workers : job[v].step \in PastBegin /\ v # w => job[v].intent # i
  BY <1>0 DEF Apart
<1>5. \A j \in Intents : j # i => sent'[j] = sent[j] /\ inFlight'[j] = inFlight[j]
  BY <1>1 DEF DeliveryTypeOK
<1>6. /\ inFlight'[i] + applied'[i] <= sent'[i] /\ sent'[i] <= 1
  BY <1>0, <1>1 DEF DeliveryTypeOK
<1>7. BusyHolds' /\ SettlementFits'
  BY <1>0, <1>1, <1>2 DEF BusyHolds, SettlementFits
<1>8. Apart'
  BY <1>2 DEF Apart
<1>9. SentAfterBegin'
  BY <1>0, <1>1, <1>3, <1>4, <1>5 DEF SentAfterBegin, BusyHolds, PastBegin, Terminal, Begun
<1>10. Counted'
  BY <1>0, <1>5, <1>6 DEF Counted
<1>11. AnswersTrue'
  BY <1>0, <1>1, <1>4, <1>5 DEF AnswersTrue, Truthful, BusyHolds, PastBegin
<1>12. VerdictsTrue'
  BY <1>0, <1>2, <1>3, <1>5 DEF VerdictsTrue, Truthful, Terminal, Begun
<1> QED BY <1>7, <1>8, <1>9, <1>10, <1>11, <1>12 DEF DeliveryFacts

\* The provider may handle a request only of a row that is not closed, or
\* closed as unknown.
LEMMA ProviderStep ==
  ASSUME DeliveryInv, DeliveryTypeOK', NEW i \in Intents, ProviderHandles(i) PROVE DeliveryFacts'
<1> USE DEF DeliveryInv
<1>0. /\ inFlight[i] > 0 /\ UNCHANGED <<state, fence, job, sent>>
      /\ \A j \in Intents \ {i} : inFlight'[j] = inFlight[j] /\ applied'[j] = applied[j]
  BY DEF ProviderHandles, journal, DeliveryTypeOK
<1>1. inFlight[i] = 1 /\ applied[i] = 0 /\ sent[i] = 1
  <2>1. inFlight[i] \in Nat /\ applied[i] \in Nat /\ sent[i] \in Nat
    BY DEF DeliveryTypeOK
  <2>2. inFlight[i] + applied[i] <= sent[i] /\ sent[i] <= 1
    BY DEF Counted
  <2> QED BY <1>0, <2>1, <2>2
<1>2. inFlight'[i] = 0 /\ applied'[i] \in {0, 1}
  <2>1. inFlight' = [inFlight EXCEPT ![i] = @ - 1]
        /\ (applied' = [applied EXCEPT ![i] = @ + 1] \/ UNCHANGED applied)
    BY DEF ProviderHandles
  <2> QED BY <1>1, <2>1 DEF DeliveryTypeOK
<1>3. /\ state[i] \notin {"accepted", "rejected", "attention"}
      /\ \A w \in Workers : job[w].step = "answered" /\ job[w].intent = i
                             => job[w].outcome \notin {"accepted", "rejected", "attention"}
  BY <1>1 DEF VerdictsTrue, AnswersTrue, Truthful
<1>4. BusyHolds' /\ SettlementFits' /\ Apart' /\ SentAfterBegin'
  BY <1>0 DEF BusyHolds, SettlementFits, Apart, SentAfterBegin
<1>5. Counted'
  <2> SUFFICES ASSUME NEW j \in Intents
               PROVE  inFlight'[j] + applied'[j] <= sent'[j] /\ sent'[j] <= 1
    BY DEF Counted
  <2> QED BY <1>0, <1>1, <1>2 DEF Counted
<1>6. AnswersTrue'
  <2> SUFFICES ASSUME NEW w \in Workers, job[w].step = "answered"
               PROVE  Truthful(job[w].intent, job[w].outcome)'
    BY <1>0 DEF AnswersTrue
  <2>1. job[w].intent \in Intents
    BY DEF BusyHolds
  <2> QED BY <1>0, <1>3, <2>1 DEF AnswersTrue, Truthful
<1>7. VerdictsTrue'
  <2> SUFFICES ASSUME NEW j \in Intents
               PROVE  /\ Truthful(j, state[j])'
                      /\ state[j] \in Terminal \ {"outcome_unknown"} =>
                           \A w \in Workers : job[w].step \in PastBegin => job[w].intent # j
    BY <1>0 DEF VerdictsTrue
  <2> QED BY <1>0, <1>3 DEF VerdictsTrue, Truthful
<1> QED BY <1>4, <1>5, <1>6, <1>7 DEF DeliveryFacts

\* The answer taken for a call is what happened at the provider, or nothing.
LEMMA AnswerStep ==
  ASSUME DeliveryInv, DeliveryTypeOK', NEW w \in Workers, Answer(w) PROVE DeliveryFacts'
<1> DEFINE i == job[w].intent
<1> USE DEF DeliveryInv
<1>0. /\ i \in Intents /\ job[w].step = "calling" /\ job[w].step \in PastBegin
      /\ UNCHANGED <<state, fence, sent, inFlight, applied>>
  BY DEF Answer, BusyHolds, PastBegin, journal, provider
<1>1. PICK o \in Answers(i) : job' = [job EXCEPT ![w] = [job[w] EXCEPT !.step = "answered", !.outcome = o]]
  BY DEF Answer
<1>2. /\ \A v \in Workers \ {w} : job'[v] = job[v]
      /\ job'[w].intent = i /\ job'[w].fence = job[w].fence
      /\ job'[w].step = "answered" /\ job'[w].outcome = o
  <2>1. job[w] \in Job
    BY DEF DeliveryTypeOK
  <2> DEFINE answered == [job[w] EXCEPT !.step = "answered", !.outcome = o]
  <2>2. /\ answered.intent = i /\ answered.fence = job[w].fence
        /\ answered.step = "answered" /\ answered.outcome = o
    BY <2>1 DEF Job
  <2> HIDE DEF answered
  <2>3. job' = [job EXCEPT ![w] = answered]
    BY <1>1 DEF answered
  <2> QED BY <2>2, <2>3 DEF DeliveryTypeOK
<1>3. \A v \in Workers : job'[v].intent = job[v].intent /\ job'[v].fence = job[v].fence
                         /\ (job'[v].step \in PastBegin => job[v].step \in PastBegin)
  BY <1>0, <1>2
<1>4. BusyHolds' /\ SettlementFits'
  BY <1>0, <1>2, <1>3 DEF BusyHolds, SettlementFits
<1>5. Apart'
  BY <1>3 DEF Apart
<1>6. SentAfterBegin' /\ Counted'
  BY <1>0, <1>2 DEF SentAfterBegin, Counted
<1>7. Truthful(i, o)
  <2>1. inFlight[i] \in Nat /\ applied[i] \in Nat /\ sent[i] \in Nat /\ inFlight[i] + applied[i] <= 1
    BY <1>0 DEF Counted, DeliveryTypeOK
  <2>2. CASE o = "outcome_unknown"
    BY <2>2 DEF Truthful
  <2>3. CASE inFlight[i] = 0 /\ o = IF applied[i] > 0 THEN "accepted" ELSE "rejected"
    BY <2>1, <2>3 DEF Truthful
  <2> QED BY <1>1, <2>1, <2>2, <2>3 DEF Answers
<1>8. AnswersTrue'
  BY <1>0, <1>2, <1>7 DEF AnswersTrue, Truthful
<1>9. VerdictsTrue'
  BY <1>0, <1>3 DEF VerdictsTrue, Truthful
<1> QED BY <1>4, <1>5, <1>6, <1>8, <1>9 DEF DeliveryFacts

\* A settlement closes its own row, or leaves a closed one as it is.
LEMMA SettleStep ==
  ASSUME DeliveryInv, DeliveryTypeOK', NEW w \in Workers, SettleOrReadTerminal(w) PROVE DeliveryFacts'
<1> DEFINE i == job[w].intent
<1> USE DEF DeliveryInv
<1>0. /\ i \in Intents /\ job[w].step = "answered" /\ job[w].step \in PastBegin
      /\ UNCHANGED <<fence, sent, inFlight, applied>>
  BY DEF SettleOrReadTerminal, BusyHolds, PastBegin, provider
<1>1. /\ state' = [state EXCEPT ![i] = SettledState(i, job[w])]
      /\ job' = [job EXCEPT ![w] = Idle]
  BY DEF SettleOrReadTerminal
<1>2. /\ \A v \in Workers \ {w} : job'[v] = job[v]
      /\ job'[w].step = "idle" /\ job'[w].step \notin PastBegin
  BY <1>1 DEF DeliveryTypeOK, Idle, PastBegin
<1>3. \A v \in Workers : job'[v].step \in PastBegin => v # w /\ job'[v] = job[v] /\ job[v].intent # i
  BY <1>0, <1>2 DEF Apart
<1>4. \A j \in Intents : j # i => state'[j] = state[j]
  BY <1>1 DEF DeliveryTypeOK
<1>5. /\ state'[i] \in Terminal /\ Truthful(i, state'[i])
      /\ state[i] \in Terminal \cup {Begun}
  <2>1. state'[i] = SettledState(i, job[w]) /\ state[i] \in Terminal \cup {Begun}
    BY <1>0, <1>1 DEF DeliveryTypeOK, SettlementFits, Begun
  <2>2. job[w].outcome \in Terminal /\ Truthful(i, job[w].outcome) /\ Truthful(i, state[i])
    BY <1>0 DEF DeliveryTypeOK, Job, AnswersTrue, VerdictsTrue
  <2> QED BY <2>1, <2>2 DEF SettledState, Truthful, Terminal
<1>b. "begun" \in PastBegin /\ "answered" \in PastBegin
  BY DEF PastBegin
<1>6. BusyHolds' /\ Apart'
  BY <1>2, <1>3 DEF BusyHolds, Apart
<1>7. SettlementFits'
  <2> SUFFICES ASSUME NEW v \in Workers, job'[v].step \in PastBegin
               PROVE  /\ fence'[job'[v].intent] = job'[v].fence
                      /\ state'[job'[v].intent] \in Terminal \cup {"provider_io_begun"}
    BY DEF SettlementFits
  <2>1. job[v].step \in PastBegin /\ job'[v] = job[v] /\ job[v].intent # i
    BY <1>3
  <2>2. job[v].intent \in Intents
    BY <2>1 DEF BusyHolds, PastBegin
  <2> QED BY <1>0, <1>4, <2>1, <2>2 DEF SettlementFits
<1>8. SentAfterBegin' /\ Counted'
  BY <1>0, <1>3, <1>4, <1>5, <1>b DEF SentAfterBegin, Counted
<1>9. AnswersTrue'
  BY <1>0, <1>3, <1>b DEF AnswersTrue, Truthful
<1>10. VerdictsTrue'
  BY <1>0, <1>3, <1>4, <1>5 DEF VerdictsTrue, Truthful
<1> QED BY <1>6, <1>7, <1>8, <1>9, <1>10 DEF DeliveryFacts

\* The sweep closes a begun row as unknown, whoever is still at work on it.
LEMMA SweepStep ==
  ASSUME DeliveryInv, DeliveryTypeOK', NEW i \in Intents, FinalizeStrandedBegun(i) PROVE DeliveryFacts'
<1> USE DEF DeliveryInv
<1>0. /\ state[i] = Begun /\ UNCHANGED <<fence, job, sent, inFlight, applied>>
      /\ state'[i] = "outcome_unknown" /\ \A j \in Intents : j # i => state'[j] = state[j]
  BY DEF FinalizeStrandedBegun, provider, DeliveryTypeOK, Begun
<1>1. BusyHolds' /\ Apart' /\ Counted' /\ AnswersTrue'
  BY <1>0 DEF BusyHolds, Apart, Counted, AnswersTrue, Truthful
<1>2. SettlementFits'
  <2> SUFFICES ASSUME NEW w \in Workers, job[w].step \in PastBegin
               PROVE  /\ fence[job[w].intent] = job[w].fence
                      /\ state'[job[w].intent] \in Terminal \cup {"provider_io_begun"}
    BY <1>0 DEF SettlementFits
  <2>1. job[w].intent \in Intents
    BY DEF BusyHolds, PastBegin
  <2> QED BY <1>0, <2>1 DEF SettlementFits, Terminal
<1>3. SentAfterBegin'
  BY <1>0 DEF SentAfterBegin, Terminal
<1>4. VerdictsTrue'
  BY <1>0 DEF VerdictsTrue, Truthful, Terminal
<1> QED BY <1>1, <1>2, <1>3, <1>4 DEF DeliveryFacts

\* Every step keeps the invariant.
LEMMA NextDelivery == DeliveryInv /\ [Next]_vars => DeliveryInv'
<1> SUFFICES ASSUME DeliveryInv, [Next]_vars PROVE DeliveryFacts'
  BY NextDeliveryTypes DEF DeliveryInv, DeliveryFacts
<1>t. DeliveryTypeOK'
  BY NextDeliveryTypes
<1>k. job \in [Workers -> Job] /\ state \in [Intents -> RowState] /\ fence \in [Intents -> 0..MaxClaims]
  BY DEF DeliveryInv, DeliveryTypeOK
<1>i. Idle.step \notin PastBegin /\ Idle.step = "idle"
  BY DEF Idle, PastBegin
<1>p. \A s \in {"claimed", "renewed", "fit", "unfit", "idle"} : s \notin PastBegin
  BY DEF PastBegin
<1>1. CASE Crash
  <2>1. \A w \in Workers : job'[w] = Idle
    BY <1>1 DEF Crash, Stopped
  <2>2. UNCHANGED provider /\ UNCHANGED <<state, fence>>
    BY <1>1 DEF Crash, journal
  <2> QED BY <1>t, <1>i, <2>1, <2>2, QuietStep
<1>2. CASE Restart \/ RecoveryCut
  <2>1. UNCHANGED <<state, fence, job>> /\ UNCHANGED provider
    BY <1>2 DEF Restart, RecoveryCut, journal
  <2> QED BY <1>t, <2>1, QuietStep
<1>3. CASE Tick
  <2>1. UNCHANGED <<state, fence, job>> /\ UNCHANGED provider
    BY <1>3 DEF Tick
  <2> QED BY <1>t, <2>1, QuietStep
<1>4. ASSUME NEW old \in SUBSET Intents, Reconcile(old) PROVE DeliveryFacts'
  <2>1. UNCHANGED <<state, fence, job>> /\ UNCHANGED provider
    BY <1>4 DEF Reconcile, journal
  <2> QED BY <1>t, <2>1, QuietStep
<1>5. ASSUME NEW i \in Intents, RecordIntent(i) PROVE DeliveryFacts'
  <2>1. UNCHANGED provider /\ (UNCHANGED journal \/ Inserted(i)) /\ (UNCHANGED job \/ Stopped)
    BY <1>5 DEF RecordIntent
  <2>2. \A j \in Intents :
          \/ state'[j] = state[j] /\ fence'[j] = fence[j]
          \/ state[j] \notin Terminal \cup {Begun} /\ state'[j] \notin Terminal \cup {Begun}
    BY <1>k, <2>1 DEF Inserted, journal, Terminal, Begun
  <2>3. \A w \in Workers : job'[w] = job[w] \/ job'[w] = Idle
    BY <2>1 DEF Stopped
  <2> QED BY <1>t, <1>i, <2>1, <2>2, <2>3, QuietStep
<1>6. ASSUME NEW i \in Intents, ProviderHandles(i) PROVE DeliveryFacts'
  BY <1>t, <1>6, ProviderStep
<1>7. ASSUME NEW i \in Intents, FinalizeStrandedBegun(i) PROVE DeliveryFacts'
  BY <1>t, <1>7, SweepStep
<1>8. ASSUME NEW w \in Workers, ClaimNext(w) PROVE DeliveryFacts'
  <2>1. PICK i \in Intents :
          /\ Claimable(i)
          /\ state' = [state EXCEPT ![i] = "leased"]
          /\ fence' = [fence EXCEPT ![i] = @ + 1]
          /\ job' = [job EXCEPT ![w] = [step |-> "claimed", intent |-> i, fence |-> fence'[i],
                                        revision |-> revision'[i], outcome |-> "outcome_unknown"]]
    BY <1>8 DEF ClaimNext
  <2>2. \A j \in Intents :
          \/ state'[j] = state[j] /\ fence'[j] = fence[j]
          \/ state[j] \notin Terminal \cup {Begun} /\ state'[j] \notin Terminal \cup {Begun}
    BY <1>k, <2>1 DEF Claimable, Terminal, Begun
  <2>3. \A v \in Workers : job'[v] = job[v] \/ (job'[v].step = "claimed" /\ job'[v].intent \in Intents)
    BY <1>k, <2>1
  <2>4. UNCHANGED provider
    BY <1>8 DEF ClaimNext
  <2> QED BY <1>t, <1>p, <2>2, <2>3, <2>4, QuietStep
<1>9. ASSUME NEW w \in Workers, NEW s \in {"renewed", "fit", "unfit"}, NEW n \in Nat,
             Advance(w, s, n), job[w].step # "idle"
      PROVE  \A v \in Workers :
               job'[v] = job[v] \/ (job'[v].step \notin PastBegin /\ job'[v].intent \in Intents)
  <2>1. job[w] \in Job /\ job[w].intent \in Intents
    BY <1>k, <1>9 DEF DeliveryInv, BusyHolds
  <2> DEFINE advanced == [job[w] EXCEPT !.step = s, !.revision = n]
  <2>2. advanced.step = s /\ advanced.intent = job[w].intent
    BY <2>1 DEF Job
  <2> HIDE DEF advanced
  <2>3. job' = [job EXCEPT ![w] = advanced]
    BY <1>9 DEF Advance, advanced
  <2> QED BY <1>k, <1>p, <2>1, <2>2, <2>3
<1>10. ASSUME NEW w \in Workers, Abandon(w) PROVE \A v \in Workers : job'[v] = job[v] \/ job'[v] = Idle
  BY <1>k, <1>10 DEF Abandon
<1>11. ASSUME NEW w \in Workers, RenewLease(w) PROVE DeliveryFacts'
  <2>1. UNCHANGED <<state, fence>> /\ UNCHANGED provider /\ job[w].step # "idle"
    BY <1>11 DEF RenewLease, Abandon, journal
  <2>2. job[w].revision + 1 \in Nat
    BY <1>k DEF Job
  <2>3. Advance(w, "renewed", job[w].revision + 1) \/ Abandon(w)
    BY <1>11 DEF RenewLease
  <2> QED BY <1>t, <1>i, <1>9, <1>10, <2>1, <2>2, <2>3, QuietStep
<1>12. ASSUME NEW w \in Workers, Load(w) PROVE DeliveryFacts'
  <2>1. UNCHANGED <<state, fence>> /\ UNCHANGED provider /\ job[w].step # "idle"
    BY <1>12 DEF Load, journal
  <2>2. job[w].revision \in Nat
    BY <1>k DEF Job
  <2>3. Advance(w, "fit", job[w].revision) \/ Advance(w, "unfit", job[w].revision)
    BY <1>12 DEF Load
  <2> QED BY <1>t, <1>9, <2>1, <2>2, <2>3, QuietStep
<1>13. ASSUME NEW w \in Workers, MarkBegin(w) PROVE DeliveryFacts'
  BY <1>t, <1>13, BeginStep
<1>14. ASSUME NEW w \in Workers, Deliver(w) PROVE DeliveryFacts'
  BY <1>t, <1>14, CallStep
<1>15. ASSUME NEW w \in Workers, Answer(w) PROVE DeliveryFacts'
  BY <1>t, <1>15, AnswerStep
<1>16. ASSUME NEW w \in Workers, SettleOrReadTerminal(w) PROVE DeliveryFacts'
  BY <1>t, <1>16, SettleStep
<1>17. CASE UNCHANGED vars
  <2>1. UNCHANGED <<state, fence, job>> /\ UNCHANGED provider
    BY <1>17 DEF vars, journal
  <2> QED BY <1>t, <2>1, QuietStep
<1> QED BY <1>1, <1>2, <1>3, <1>4, <1>5, <1>6, <1>7, <1>8, <1>11, <1>12, <1>13, <1>14, <1>15, <1>16, <1>17
     DEF Next, WorkerStep

\* The invariant holds of every reachable state.
LEMMA DeliveryInvariant == Spec => []DeliveryInv
BY InitDelivery, NextDelivery, PTL DEF Spec

-----------------------------------------------------------------------------
(* The theorems *)

\* The types of the journal, the disk, the workers and the provider.
THEOREM DeliveryTypes == Spec => []DeliveryTypeOK
<1>1. DeliveryInv => DeliveryTypeOK
  BY DEF DeliveryInv
<1> QED BY <1>1, DeliveryInvariant, PTL

\* Leases run out, workers overtake each other, the process dies: the provider
\* is still called at most once for an intent.
THEOREM OneCall == Spec => []AtMostOneCall
<1>1. DeliveryInv => AtMostOneCall
  BY DEF DeliveryInv, Counted, AtMostOneCall
<1> QED BY <1>1, DeliveryInvariant, PTL

\* A worker past its begin mark can always settle.
THEOREM SettlementsFit == Spec => []SettlementFits
<1>1. DeliveryInv => SettlementFits
  BY DEF DeliveryInv
<1> QED BY <1>1, DeliveryInvariant, PTL

-----------------------------------------------------------------------------
(* Rows move on *)

\* What a step may make of the row of an intent: a verdict stands, a fence or a
\* revision is never given back, every change of the row has a revision of its
\* own, and a begun row can only be closed.
RowMovesOn(i) ==
  /\ state[i] \in Terminal => state'[i] = state[i] /\ revision'[i] = revision[i]
  /\ revision'[i] >= revision[i] /\ fence'[i] >= fence[i]
  /\ state'[i] # state[i] \/ fence'[i] # fence[i] => revision'[i] > revision[i]
  /\ state[i] = Begun => state'[i] \in Terminal \cup {Begun} /\ fence'[i] = fence[i]
RowsMoveOn == [][\A i \in Intents : RowMovesOn(i)]_vars

\* A row gets its first revision with its insertion.
RowsNumbered == \A i \in Intents : Journaled(i) <=> revision[i] > 0

\* A step that leaves the rows alone, but perhaps for a lease.
LEMMA RowsAlone ==
  ASSUME UNCHANGED <<state, revision, fence>>, DeliveryInv, RowsNumbered
  PROVE  RowsNumbered' /\ \A i \in Intents : RowMovesOn(i)
<1>1. RowsNumbered'
  BY DEF RowsNumbered, Journaled
<1>2. revision \in [Intents -> Nat] /\ fence \in [Intents -> 0..MaxClaims]
  BY DEF DeliveryInv, DeliveryTypeOK
<1> QED BY <1>1, <1>2 DEF RowMovesOn

\* A step that writes a new revision to one row which is there and not closed.
LEMMA OneRowMoves ==
  ASSUME DeliveryInv, RowsNumbered, NEW i \in Intents, NEW to,
         state[i] \notin Terminal, to \in RowState \ {"absent"},
         state' = [state EXCEPT ![i] = to],
         revision' = [revision EXCEPT ![i] = @ + 1],
         \/ fence' = fence
         \/ state[i] # Begun /\ fence' = [fence EXCEPT ![i] = @ + 1],
         state[i] = Begun => to \in Terminal
  PROVE  RowsNumbered' /\ \A k \in Intents : RowMovesOn(k)
<1>1. /\ state \in [Intents -> RowState] /\ revision \in [Intents -> Nat]
      /\ fence \in [Intents -> 0..MaxClaims]
  BY DEF DeliveryInv, DeliveryTypeOK
<1>2. \A k \in Intents : /\ state'[k] = IF k = i THEN to ELSE state[k]
                         /\ revision'[k] = IF k = i THEN revision[k] + 1 ELSE revision[k]
  BY <1>1
<1>3. RowsNumbered'
  BY <1>1, <1>2 DEF RowsNumbered, Journaled
<1>4. \A k \in Intents : /\ fence'[k] >= fence[k]
                         /\ k # i \/ state[k] = Begun => fence'[k] = fence[k]
  BY <1>1
<1>5. \A k \in Intents : RowMovesOn(k)
  BY <1>1, <1>2, <1>4 DEF RowMovesOn
<1> QED BY <1>3, <1>5

\* An insertion makes a row where there is none, and is nothing where one is.
LEMMA InsertedMoves ==
  ASSUME DeliveryInv, RowsNumbered, NEW i \in Intents, Inserted(i)
  PROVE  RowsNumbered' /\ \A k \in Intents : RowMovesOn(k)
<1>1. /\ state \in [Intents -> RowState] /\ revision \in [Intents -> Nat]
      /\ fence \in [Intents -> 0..MaxClaims]
  BY DEF DeliveryInv, DeliveryTypeOK
<1>2. \A k \in Intents :
        /\ state'[k] = IF k = i /\ state[k] = "absent" THEN "pending" ELSE state[k]
        /\ revision'[k] = IF k = i /\ revision[k] = 0 THEN 1 ELSE revision[k]
        /\ fence'[k] = fence[k]
  BY <1>1 DEF Inserted
<1>3. \A k \in Intents : state[k] = "absent" <=> revision[k] = 0
  BY <1>1 DEF RowsNumbered, Journaled
<1>4. RowsNumbered'
  BY <1>1, <1>2, <1>3 DEF RowsNumbered, Journaled
<1>5. \A k \in Intents : RowMovesOn(k)
  <2> SUFFICES ASSUME NEW k \in Intents PROVE RowMovesOn(k)
    OBVIOUS
  <2>1. CASE state[k] = "absent"
    BY <1>1, <1>2, <1>3, <2>1 DEF RowMovesOn, Terminal, Begun
  <2>2. CASE state[k] # "absent"
    <3>1. state'[k] = state[k] /\ revision'[k] = revision[k] /\ fence'[k] = fence[k]
      BY <1>2, <1>3, <2>2
    <3> QED BY <1>1, <3>1 DEF RowMovesOn
  <2> QED BY <2>1, <2>2
<1> QED BY <1>4, <1>5

\* Every action moves the rows on.
LEMMA RowsStep ==
  ASSUME DeliveryInv, RowsNumbered, [Next]_vars
  PROVE  RowsNumbered' /\ \A i \in Intents : RowMovesOn(i)
<1> DEFINE Moves == RowsNumbered' /\ \A i \in Intents : RowMovesOn(i)
<1>1. CASE UNCHANGED journal
  BY <1>1, RowsAlone DEF journal
<1>2. CASE Tick
  BY <1>2, RowsAlone DEF Tick
<1>3. ASSUME NEW i \in Intents, RecordIntent(i) PROVE Moves
  BY <1>1, <1>3, InsertedMoves DEF RecordIntent
<1>4. ASSUME NEW i \in Intents, FinalizeStrandedBegun(i) PROVE Moves
  BY <1>4, OneRowMoves DEF FinalizeStrandedBegun, Begun, RowState, Terminal
<1>5. ASSUME NEW w \in Workers, ClaimNext(w) PROVE Moves
  <2>1. PICK i \in Intents :
          /\ Claimable(i)
          /\ state' = [state EXCEPT ![i] = "leased"]
          /\ revision' = [revision EXCEPT ![i] = @ + 1]
          /\ fence' = [fence EXCEPT ![i] = @ + 1]
    BY <1>5 DEF ClaimNext
  <2> QED BY <2>1, OneRowMoves DEF Claimable, Begun, RowState, Terminal
<1>6. ASSUME NEW w \in Workers, RenewLease(w), HoldsClaim(job[w]) PROVE Moves
  <2>1. job[w].intent \in Intents /\ state[job[w].intent] = "leased"
    BY <1>6 DEF RenewLease, HoldsClaim, DeliveryInv, BusyHolds
  <2>2. CASE UNCHANGED journal
    BY <1>1, <2>2
  <2>3. CASE revision' = [revision EXCEPT ![job[w].intent] = @ + 1] /\ UNCHANGED <<state, fence>>
    <3>1. state' = [state EXCEPT ![job[w].intent] = "leased"]
      BY <2>1, <2>3 DEF DeliveryInv, DeliveryTypeOK
    <3> QED BY <2>1, <2>3, <3>1, OneRowMoves DEF Begun, RowState, Terminal
  <2> QED BY <1>6, <2>2, <2>3 DEF RenewLease, Abandon
<1>7. ASSUME NEW w \in Workers, MarkBegin(w), HoldsClaim(job[w]) PROVE Moves
  <2>1. job[w].intent \in Intents /\ state[job[w].intent] = "leased"
    BY <1>7 DEF MarkBegin, HoldsClaim, DeliveryInv, BusyHolds
  <2>2. /\ state' = [state EXCEPT ![job[w].intent] = "provider_io_begun"]
        /\ revision' = [revision EXCEPT ![job[w].intent] = @ + 1]
        /\ fence' = fence
    BY <1>7 DEF MarkBegin
  <2> QED BY <2>1, <2>2, OneRowMoves DEF Begun, RowState, Terminal
<1>8. ASSUME NEW w \in Workers, SettleOrReadTerminal(w) PROVE Moves
  <2> DEFINE j == job[w]  i == job[w].intent
  <2>1. /\ i \in Intents /\ j.outcome \in Terminal
        /\ state \in [Intents -> RowState] /\ revision \in [Intents -> Nat]
    BY <1>8 DEF SettleOrReadTerminal, DeliveryInv, DeliveryTypeOK, BusyHolds, Job
  <2>2. /\ state[i] \in Terminal \cup {Begun} /\ fence' = fence
        /\ state' = [state EXCEPT ![i] = SettledState(i, j)]
        /\ revision' = [revision EXCEPT ![i] = IF state[i] \in Terminal THEN @ ELSE @ + 1]
    BY <1>8 DEF SettleOrReadTerminal, Begun
  <2>3. CASE state[i] \in Terminal
    <3>1. state' = state /\ revision' = revision
      BY <2>1, <2>2, <2>3 DEF SettledState
    <3> QED BY <2>2, <3>1, RowsAlone
  <2>4. CASE state[i] \notin Terminal
    <3>1. SettledState(i, j) \in Terminal
      BY <2>1, <2>4 DEF SettledState, Terminal
    <3>2. revision' = [revision EXCEPT ![i] = @ + 1]
      BY <2>2, <2>4
    <3>3. SettledState(i, j) \in RowState \ {"absent"}
      BY <3>1 DEF RowState, Terminal
    <3> HIDE DEF i, j
    <3> QED BY <2>1, <2>2, <2>4, <3>1, <3>2, <3>3, OneRowMoves
  <2> QED BY <2>3, <2>4
<1>9. ASSUME NEW w \in Workers, WorkerStep(w) PROVE Moves
  BY <1>1, <1>5, <1>6, <1>7, <1>8, <1>9
  DEF WorkerStep, RenewLease, Load, MarkBegin, Deliver, Answer, Abandon
<1> QED
  BY <1>1, <1>2, <1>3, <1>4, <1>9
  DEF Next, vars, Crash, Restart, RecoveryCut, Reconcile, ProviderHandles

\* The journal is a log of revisions: verdicts stand, begun rows are only ever
\* closed, and nothing that was written is overwritten under the same revision,
\* whatever the workers, the sweep and the crashes do.
THEOREM RowsGoOn == Spec => RowsMoveOn
<1>1. ASSUME Init PROVE RowsNumbered
  <2>1. ASSUME NEW i \in Intents PROVE state[i] = "absent" /\ ~(revision[i] > 0)
    <3>1. state[i] = "absent" /\ revision[i] = 0
      BY <1>1 DEF Init
    <3> QED BY <3>1
  <2> QED BY <2>1, Zenon DEF RowsNumbered, Journaled
<1>2. DeliveryInv /\ RowsNumbered /\ [Next]_vars => RowsNumbered' /\ \A i \in Intents : RowMovesOn(i)
  BY RowsStep
<1> QED BY <1>1, <1>2, DeliveryInvariant, PTL DEF Spec, RowsMoveOn

-----------------------------------------------------------------------------
(* The promise *)

Verdict == [i \in Intents |-> IF state[i] \in Terminal THEN state[i] ELSE "open"]

\* Steps that close no row and apply nothing leave the promise where it is.
LEMMA OpenStays ==
  ASSUME UNCHANGED applied,
         \A i \in Intents :
           \/ state'[i] = state[i]
           \/ state[i] \notin Terminal /\ state'[i] \notin Terminal
  PROVE  UNCHANGED Promise!vars
<1>1. Verdict' = Verdict
  BY DEF Verdict
<1> QED BY <1>1 DEF Promise!vars, Verdict

\* A step that closes one open row truthfully closes it in the promise.
LEMMA ClosesOne ==
  ASSUME DeliveryInv, UNCHANGED <<sent, inFlight, applied>>, NEW i \in Intents, NEW v \in Terminal,
         state[i] \notin Terminal, state' = [state EXCEPT ![i] = v], Truthful(i, v)
  PROVE  Promise!Next
<1>1. state \in [Intents -> RowState] /\ applied[i] \in Nat /\ inFlight[i] \in Nat
      /\ inFlight[i] + applied[i] <= sent[i]
  BY DEF DeliveryInv, DeliveryTypeOK, Counted
<1>2. Verdict' = [Verdict EXCEPT ![i] = v] /\ Verdict[i] = "open"
  BY <1>1 DEF Verdict
<1>3. (v = "accepted" => applied[i] = 1) /\ (v \in {"rejected", "attention"} => applied[i] = 0)
  BY <1>1 DEF Truthful
<1>4. Promise!Close(i, v)
  BY <1>2, <1>3 DEF Promise!Close, Verdict
<1> QED BY <1>4 DEF Promise!Next, Terminal

\* Every step of the kernel is a step of the promise, or none.
LEMMA PromiseStep == DeliveryInv /\ [Next]_vars => [Promise!Next]_(Promise!vars)
<1> SUFFICES ASSUME DeliveryInv, [Next]_vars PROVE Promise!Next \/ UNCHANGED Promise!vars
  OBVIOUS
<1>k. state \in [Intents -> RowState]
  BY DEF DeliveryInv, DeliveryTypeOK
<1>1. CASE UNCHANGED <<state, applied>>
  BY <1>1, OpenStays
<1>2. ASSUME Crash \/ Restart \/ RecoveryCut \/ Tick \/ (\E old \in SUBSET Intents : Reconcile(old))
      PROVE  UNCHANGED <<state, applied>>
  BY <1>2 DEF Crash, Restart, RecoveryCut, Tick, Reconcile, journal, provider
<1>3. ASSUME NEW i \in Intents, RecordIntent(i) PROVE UNCHANGED Promise!vars
  <2>1. UNCHANGED applied /\ (UNCHANGED state \/ Inserted(i))
    BY <1>3 DEF RecordIntent, provider, journal
  <2>2. \A j \in Intents : state'[j] = state[j] \/ (state[j] \notin Terminal /\ state'[j] \notin Terminal)
    BY <1>k, <2>1 DEF Inserted, Terminal
  <2> QED BY <2>1, <2>2, OpenStays
<1>4. ASSUME NEW i \in Intents, ProviderHandles(i) PROVE Promise!Next \/ UNCHANGED Promise!vars
  <2>1. /\ UNCHANGED state /\ inFlight[i] > 0
        /\ UNCHANGED applied \/ applied' = [applied EXCEPT ![i] = applied[i] + 1]
    BY <1>4 DEF ProviderHandles, journal
  <2>2. applied[i] = 0 /\ sent[i] = 1
    <3>1. inFlight[i] \in Nat /\ applied[i] \in Nat /\ sent[i] \in Nat
      BY DEF DeliveryInv, DeliveryTypeOK
    <3>2. inFlight[i] + applied[i] <= sent[i] /\ sent[i] <= 1
      BY DEF DeliveryInv, Counted
    <3> QED BY <2>1, <3>1, <3>2
  <2>3. Verdict' = Verdict /\ Verdict[i] \in {"open", "outcome_unknown"}
    <3>1. state[i] \notin {"accepted", "rejected", "attention"}
      BY <2>1, <2>2 DEF DeliveryInv, VerdictsTrue, Truthful
    <3> QED BY <1>k, <2>1, <3>1 DEF Verdict, Terminal
  <2>4. CASE UNCHANGED applied
    BY <2>1, <2>4, <1>1
  <2>5. CASE applied' = [applied EXCEPT ![i] = applied[i] + 1]
    <3>1. Promise!Apply(i)
      BY <2>2, <2>3, <2>5 DEF Promise!Apply, Verdict
    <3> QED BY <3>1 DEF Promise!Next
  <2> QED BY <2>1, <2>4, <2>5
<1>5. ASSUME NEW i \in Intents, FinalizeStrandedBegun(i) PROVE Promise!Next
  <2>1. /\ UNCHANGED <<sent, inFlight, applied>> /\ state[i] \notin Terminal
        /\ state' = [state EXCEPT ![i] = "outcome_unknown"]
        /\ Truthful(i, "outcome_unknown") /\ "outcome_unknown" \in Terminal
    BY <1>5 DEF FinalizeStrandedBegun, provider, Terminal, Truthful
  <2> QED BY <2>1, ClosesOne
<1>6. ASSUME NEW w \in Workers, ClaimNext(w) \/ MarkBegin(w) PROVE UNCHANGED Promise!vars
  <2>1. UNCHANGED applied
    BY <1>6 DEF ClaimNext, MarkBegin, provider
  <2>2. \A j \in Intents : state'[j] = state[j] \/ (state[j] \notin Terminal /\ state'[j] \notin Terminal)
    BY <1>k, <1>6 DEF ClaimNext, Claimable, MarkBegin, HoldsClaim, Abandon, journal, Terminal
  <2> QED BY <2>1, <2>2, OpenStays
<1>7. ASSUME NEW w \in Workers, RenewLease(w) \/ Load(w) \/ Deliver(w) \/ Answer(w)
      PROVE  UNCHANGED <<state, applied>>
  BY <1>7 DEF RenewLease, Load, Deliver, Answer, Abandon, journal, provider
<1>8. ASSUME NEW w \in Workers, SettleOrReadTerminal(w) PROVE Promise!Next \/ UNCHANGED Promise!vars
  <2> DEFINE i == job[w].intent
  <2>1. /\ i \in Intents /\ job[w].step = "answered"
        /\ UNCHANGED <<sent, inFlight, applied>>
        /\ state' = [state EXCEPT ![i] = SettledState(i, job[w])]
    BY <1>8 DEF SettleOrReadTerminal, provider, DeliveryInv, BusyHolds
  <2>2. CASE state[i] \in Terminal
    BY <1>k, <1>1, <2>1, <2>2 DEF SettledState
  <2>3. CASE state[i] \notin Terminal
    <3>1. job[w].outcome \in Terminal /\ Truthful(i, job[w].outcome)
      BY <2>1 DEF DeliveryInv, DeliveryTypeOK, Job, AnswersTrue
    <3>2. SettledState(i, job[w]) \in Terminal /\ Truthful(i, SettledState(i, job[w]))
      BY <2>3, <3>1 DEF SettledState, Truthful, Terminal
    <3> QED BY <2>1, <2>3, <3>2, ClosesOne
  <2> QED BY <2>2, <2>3
<1>9. CASE UNCHANGED vars
  BY <1>1, <1>9 DEF vars, journal, provider
<1> QED BY <1>1, <1>2, <1>3, <1>4, <1>5, <1>6, <1>7, <1>8, <1>9 DEF Next, WorkerStep

\* The kernel implements the delivery promise: one application at most, and a
\* verdict that is never wrong and never changes.
THEOREM PromiseKept == Spec => KeepsPromise
<1>1. Init => Promise!Init
  BY DEF Init, Promise!Init, Terminal
<1> QED BY <1>1, PromiseStep, DeliveryInvariant, PTL DEF Spec, KeepsPromise, Promise!Spec

-----------------------------------------------------------------------------
(* Custody *)

\* Steps that journal nothing and leave the files alone keep the payloads, if
\* they start no process.
LEMMA FilesStay ==
  ASSUME PayloadKept, UNCHANGED custody, up' => up,
         \A i \in Intents : state[i] = "absent" => state'[i] = "absent"
  PROVE  PayloadKept'
BY DEF PayloadKept, Journaled

\* A payload outlives every step: the row is written between the stage and the
\* link, recovery links before it removes, and the sweep spares journaled rows.
THEOREM PayloadSafe == Spec => []PayloadKept
<1>1. Init => PayloadKept
  BY DEF Init, PayloadKept, Journaled
<1>2. PayloadKept /\ DeliveryInv /\ [Next]_vars => PayloadKept'
  <2> SUFFICES ASSUME PayloadKept, DeliveryInv, [Next]_vars PROVE PayloadKept'
    OBVIOUS
  <2>k. state \in [Intents -> RowState] /\ custody \in [Intents -> SUBSET {"staged", "payload"}]
    BY DEF DeliveryInv, DeliveryTypeOK
  <2>1. CASE Crash
    BY <2>1, FilesStay DEF Crash, Stopped, journal
  <2>2. CASE Restart
    BY <2>2 DEF Restart, PayloadKept, Journaled, Finalized, journal
  <2>3. CASE Tick
    BY <2>3, FilesStay DEF Tick
  <2>3c. CASE RecoveryCut
    BY <2>3c DEF RecoveryCut, PayloadKept, Journaled, journal
  <2>4. ASSUME NEW old \in SUBSET Intents, Reconcile(old) PROVE PayloadKept'
    BY <2>4 DEF Reconcile, PayloadKept, Journaled, Finalized, journal
  <2>5. ASSUME NEW i \in Intents, RecordIntent(i) PROVE PayloadKept'
    <3>1. \A j \in Intents \ {i} : custody'[j] = custody[j] /\ state'[j] = state[j]
      BY <2>k, <2>5 DEF RecordIntent, Inserted, journal
    <3>2. custody'[i] # {} /\ (up' => "payload" \in custody'[i]) /\ (up' => up)
      BY <2>k, <2>5 DEF RecordIntent, Stopped
    <3> QED BY <3>1, <3>2 DEF PayloadKept, Journaled
  <2>6. ASSUME NEW i \in Intents, ProviderHandles(i) \/ FinalizeStrandedBegun(i) PROVE PayloadKept'
    <3>1. \A j \in Intents : state[j] = "absent" => state'[j] = "absent"
      BY <2>k, <2>6 DEF ProviderHandles, FinalizeStrandedBegun, journal
    <3>2. UNCHANGED <<custody, up>>
      BY <2>6 DEF ProviderHandles, FinalizeStrandedBegun
    <3> QED BY <3>1, <3>2, FilesStay
  <2>7. ASSUME NEW w \in Workers, WorkerStep(w) PROVE PayloadKept'
    <3>1. UNCHANGED <<custody, up>>
      BY <2>7 DEF WorkerStep, ClaimNext, RenewLease, Load, MarkBegin, Deliver, Answer, SettleOrReadTerminal
    <3>2. CASE UNCHANGED state
      BY <3>1, <3>2, FilesStay
    <3>3. CASE \E i \in Intents, s \in RowState : state[i] # "absent" /\ state' = [state EXCEPT ![i] = s]
      BY <2>k, <3>1, <3>3, FilesStay
    <3>4. CASE ClaimNext(w)
      <4>1. PICK i \in Intents : state[i] # "absent" /\ state' = [state EXCEPT ![i] = "leased"]
        BY <3>4 DEF ClaimNext, Claimable
      <4> QED BY <3>3, <4>1 DEF RowState
    <3>5. CASE MarkBegin(w) \/ SettleOrReadTerminal(w)
      <4>1. job[w].intent \in Intents /\ job[w].outcome \in Terminal
        BY <3>5 DEF MarkBegin, SettleOrReadTerminal, DeliveryInv, DeliveryTypeOK, BusyHolds, Job
      <4> QED BY <3>2, <3>3, <3>5, <4>1
           DEF MarkBegin, HoldsClaim, Abandon, journal, SettleOrReadTerminal, SettledState, RowState, Terminal
    <3>6. CASE RenewLease(w) \/ Load(w) \/ Deliver(w) \/ Answer(w)
      BY <3>2, <3>6 DEF RenewLease, Load, Deliver, Answer, Abandon, journal
    <3> QED BY <2>7, <3>4, <3>5, <3>6 DEF WorkerStep
  <2>8. CASE UNCHANGED vars
    BY <2>8, FilesStay DEF vars, journal
  <2> QED BY <2>1, <2>2, <2>3, <2>3c, <2>4, <2>5, <2>6, <2>7, <2>8 DEF Next
<1> QED BY <1>1, <1>2, DeliveryInvariant, PTL DEF Spec
=============================================================================
