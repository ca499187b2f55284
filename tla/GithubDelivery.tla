--------------------------- MODULE GithubDelivery ---------------------------
(***************************************************************************)
(* GitHub deliveries at the control plane (modules/github-ingress of the   *)
(* control plane): a delivery is reserved under a processing token that    *)
(* expires, its event becomes a hosted run or a piece of evidence, and its *)
(* outcome is recorded against the token.  GitHub may deliver the same     *)
(* delivery again at any time, several deliveries may tell of one source   *)
(* event, and the process handling one may stop between any two of the     *)
(* transactions.  A delivery id that comes back with another payload is    *)
(* refused without a change and is left out.                               *)
(***************************************************************************)
EXTENDS Integers

CONSTANTS
    Deliveries,         \* ids of deliveries
    Comments,           \* source events that ask for a run
    PullRequests,       \* source events that are evidence
    OtherEvents,        \* source events the ingress refuses
    Receivers,          \* handlers of requests
    ProcessingLease,    \* instants a reservation is kept for
    MaxInstant          \* bound of the clock

ASSUME ReservationsExpire == ProcessingLease \in Nat \ {0} /\ MaxInstant \in Nat
\* A delivery is told from the absence of one.
ASSUME DeliveriesAreNamed == "none" \notin Deliveries

VARIABLES
    source,       \* the source event each delivery tells of
    outcome,      \* what is recorded of each delivery
    reservation,  \* per delivery: the token that holds it and when it expires
    receiver,     \* what each handler is doing
    admittedBy,   \* per comment: the envelope its run was admitted from
    evidence,     \* pull request events recorded
    instant,      \* the clock, which envelopes are stamped with
    told          \* outcomes GitHub was answered with, per delivery

githubVars ==
    <<source, outcome, reservation, receiver, admittedBy, evidence, instant, told>>

NoEnvelope == [delivery |-> "none", at |-> 0]
Unreserved == [token |-> 0, expires |-> 0]
Waiting == [stage |-> "idle", delivery |-> "none", token |-> 0, stamp |-> 0,
            result |-> "none"]

Events == Comments \cup PullRequests \cup OtherEvents

GithubInit ==
    /\ source = [d \in Deliveries |-> "none"]
    /\ outcome = [d \in Deliveries |-> "none"]
    /\ reservation = [d \in Deliveries |-> Unreserved]
    /\ receiver = [h \in Receivers |-> Waiting]
    /\ admittedBy = [m \in Comments |-> NoEnvelope]
    /\ evidence = {}
    /\ instant = 0
    /\ told = [d \in Deliveries |-> {}]

Final == {"accepted", "admission_conflict", "evidence_recorded",
          "runner_not_ready", "refused"}

\* Deliveries, handlers, envelopes and answers have their types.
GithubTypeOK ==
    /\ source \in [Deliveries -> Events \cup {"none"}]
    /\ outcome \in [Deliveries -> {"none", "processing"} \cup Final]
    /\ reservation \in [Deliveries -> [token : 0..MaxInstant + 1,
                                       expires : 0..MaxInstant + ProcessingLease]]
    /\ receiver \in [Receivers ->
         [stage : {"idle", "reserved", "prepared", "decided"},
          delivery : Deliveries \cup {"none"}, token : 0..MaxInstant + 1,
          stamp : 0..MaxInstant, result : Final \cup {"none"}]]
    /\ admittedBy \in [Comments -> [delivery : Deliveries \cup {"none"}, at : 0..MaxInstant]]
    /\ evidence \subseteq PullRequests
    /\ instant \in 0..MaxInstant
    /\ told \in [Deliveries -> SUBSET Final]

Tell(d, answer) == told' = [told EXCEPT ![d] = @ \cup {answer}]
ReceiverTo(h, changed) == receiver' = [receiver EXCEPT ![h] = changed]

\* A fresh delivery is taken, and so is one whose handler has not finished
\* within its lease.
MayReserveDelivery(d) ==
    \/ outcome[d] = "none"
    \/ outcome[d] = "processing" /\ reservation[d].expires <= instant

\* The event of a delivery comes with its first request.
ReserveDelivery(h, d) ==
    /\ receiver[h] = Waiting
    /\ MayReserveDelivery(d)
    /\ IF outcome[d] = "none" THEN \E e \in Events : source' = [source EXCEPT ![d] = e]
                              ELSE UNCHANGED source
    /\ LET token == reservation[d].token + 1 IN
       /\ outcome' = [outcome EXCEPT ![d] = "processing"]
       /\ reservation' = [reservation EXCEPT
            ![d] = [token |-> token, expires |-> instant + ProcessingLease]]
       /\ ReceiverTo(h, [Waiting EXCEPT !.stage = "reserved", !.delivery = d, !.token = token])
    /\ UNCHANGED <<admittedBy, evidence, instant, told>>

\* A delivery with an outcome is answered with it; one in progress is left alone.
ReplayOutcome(d) ==
    /\ outcome[d] \in Final
    /\ Tell(d, outcome[d])
    /\ UNCHANGED <<outcome, reservation, receiver, admittedBy, evidence, instant>>

Decides(h, result) ==
    /\ ReceiverTo(h, [receiver[h] EXCEPT !.stage = "decided", !.result = result])
    /\ UNCHANGED <<outcome, reservation, instant, told>>

At(h, stage, events) ==
    receiver[h].stage = stage /\ source[receiver[h].delivery] \in events

\* The payload, the sender or the kind of event is refused.
RefuseEvent(h) ==
    /\ At(h, "reserved", OtherEvents)
    /\ Decides(h, "refused")
    /\ UNCHANGED <<admittedBy, evidence>>

\* Evidence is inserted under the identity of its event, once.
RecordEvidence(h) ==
    /\ At(h, "reserved", PullRequests)
    /\ evidence' = evidence \cup {source[receiver[h].delivery]}
    /\ Decides(h, "evidence_recorded")
    /\ UNCHANGED admittedBy

\* No current readiness receipt of the runner fits the binding.
FindNotReady(h) ==
    /\ At(h, "reserved", Comments)
    /\ Decides(h, "runner_not_ready")
    /\ UNCHANGED <<admittedBy, evidence>>

\* The envelope carries the delivery and the instant it was received.
PrepareEnvelope(h) ==
    /\ At(h, "reserved", Comments)
    /\ ReceiverTo(h, [receiver[h] EXCEPT !.stage = "prepared", !.stamp = instant])
    /\ UNCHANGED <<outcome, reservation, admittedBy, evidence, instant, told>>

Envelope(h) == [delivery |-> receiver[h].delivery, at |-> receiver[h].stamp]
\* (fault) Any run of the comment is given again.
AnyEnvelope(m, e) == admittedBy[m] # NoEnvelope
\* A run admitted before is given again only to the very same envelope.
SameEnvelope(m, e) == admittedBy[m] = e

\* The run of a comment is admitted in one transaction, found by the comment.
AdmitDelivery(h) ==
    /\ At(h, "prepared", Comments)
    /\ LET m == source[receiver[h].delivery] IN
       \/ /\ admittedBy[m] = NoEnvelope
          /\ admittedBy' = [admittedBy EXCEPT ![m] = Envelope(h)]
          /\ Decides(h, "accepted")
       \/ /\ SameEnvelope(m, Envelope(h))
          /\ Decides(h, "accepted") /\ UNCHANGED admittedBy
       \/ /\ admittedBy[m] # NoEnvelope /\ ~SameEnvelope(m, Envelope(h))
          /\ Decides(h, "admission_conflict") /\ UNCHANGED admittedBy
    /\ UNCHANGED evidence

\* (fault) The outcome is recorded by delivery id alone.
CompletesByKey(h) == outcome[receiver[h].delivery] # "none"
\* The outcome is recorded by the holder of the token, and once.
Completes(h) ==
    /\ outcome[receiver[h].delivery] = "processing"
    /\ reservation[receiver[h].delivery].token = receiver[h].token

CompleteDelivery(h) ==
    /\ receiver[h].stage = "decided" /\ Completes(h)
    /\ outcome' = [outcome EXCEPT ![receiver[h].delivery] = receiver[h].result]
    /\ Tell(receiver[h].delivery, receiver[h].result)
    /\ ReceiverTo(h, Waiting)
    /\ UNCHANGED <<reservation, admittedBy, evidence, instant>>

\* The reservation was lost: the request fails and records nothing.
LoseReservation(h) ==
    /\ receiver[h].stage = "decided" /\ ~Completes(h)
    /\ ReceiverTo(h, Waiting)
    /\ UNCHANGED <<outcome, reservation, admittedBy, evidence, instant, told>>

\* A query fails or the process stops; what is committed stays.
StopReceiving(h) ==
    /\ receiver[h] # Waiting
    /\ ReceiverTo(h, Waiting)
    /\ UNCHANGED <<outcome, reservation, admittedBy, evidence, instant, told>>

InstantPasses ==
    /\ instant < MaxInstant
    /\ instant' = instant + 1
    /\ UNCHANGED <<outcome, reservation, receiver, admittedBy, evidence, told>>

GithubNext ==
    \/ \E h \in Receivers, d \in Deliveries : ReserveDelivery(h, d)
    \/ /\ \/ InstantPasses
          \/ \E d \in Deliveries : ReplayOutcome(d)
          \/ \E h \in Receivers :
               \/ RefuseEvent(h) \/ RecordEvidence(h) \/ FindNotReady(h)
               \/ PrepareEnvelope(h) \/ AdmitDelivery(h)
               \/ CompleteDelivery(h) \/ LoseReservation(h) \/ StopReceiving(h)
       /\ UNCHANGED source

GithubSpec == GithubInit /\ [][GithubNext]_githubVars

\* What GitHub was once answered of a delivery is what is recorded of it ever
\* after, even when its handler outlived its lease and another took over
\* (reserveDelivery, completeDelivery, replayOutcome).
AnsweredOnce == \A d \in Deliveries : told[d] \subseteq {outcome[d]}

\* A delivery is recorded as accepted only if the run of its comment was
\* admitted from it, and as in conflict only if there is a run: of several
\* deliveries of a comment one at most is accepted, and none is dropped for a
\* run that was never made (receive, hosted.admit).
AdmissionAccounted ==
    \A d \in Deliveries :
      /\ outcome[d] = "accepted" => admittedBy[source[d]].delivery = d
      /\ outcome[d] = "admission_conflict" => admittedBy[source[d]] # NoEnvelope
      /\ outcome[d] = "evidence_recorded" => source[d] \in evidence
=============================================================================
