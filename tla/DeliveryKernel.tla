--------------------------- MODULE DeliveryKernel ---------------------------
(***************************************************************************)
(* The delivery kernel: a journal of side effects (one row per intent),    *)
(* the custody of their payloads on disk, and the workers that claim a     *)
(* row, mark it begun, call the provider and settle it.                    *)
(*                                                                         *)
(* The journal's operations are synchronous SQLite statements, so each is  *)
(* one action; a worker awaits between them and other workers, the clock   *)
(* and the provider come in between.  One process runs all the workers; a  *)
(* crash ends them together and forgets whatever they held in memory.      *)
(***************************************************************************)
EXTENDS Integers

CONSTANTS
  Intents,     \* delivery intents
  NoIntent,    \* the intent of an idle worker
  Workers,     \* concurrent deliverNext calls of the process
  LeaseTicks,  \* length of a claim's lease
  MaxClaims    \* bound of the model: claims per intent

Terminal == {"accepted", "rejected", "outcome_unknown", "attention"}
RowState == {"absent", "pending", "leased", "provider_io_begun"} \cup Terminal
NoLease == -1

ASSUME DeliveryAssumption ==
  NoIntent \notin Intents /\ LeaseTicks \in Nat \ {0} /\ MaxClaims \in Nat \ {0}

VARIABLES
  state, revision, fence, lease,  \* the journal, by intent; fence 0 is the null column
  custody,                        \* payload files of each intent: "staged", "payload"
  up,                             \* the process runs
  job,                            \* what each worker holds in memory
  sent, inFlight, applied         \* requests to the provider: made, under way, applied

journal == <<state, revision, fence, lease>>
provider == <<sent, inFlight, applied>>
vars == <<journal, custody, up, job, provider>>

PastBegin == {"begun", "calling", "answered"}
Step == {"idle", "claimed", "renewed", "fit", "unfit"} \cup PastBegin
Job == [step : Step, intent : Intents \cup {NoIntent}, fence : Nat, revision : Nat, outcome : Terminal]
Idle == [step |-> "idle", intent |-> NoIntent, fence |-> 0, revision |-> 0, outcome |-> "outcome_unknown"]

Journaled(i) == state[i] # "absent"

\* The columns a row holds in its state, as the table's CHECK demands: the
\* fence and the expiry of a claim from the first claim on, also once settled.
RowsFit ==
  \A i \in Intents :
    /\ Journaled(i) <=> revision[i] > 0
    /\ fence[i] # 0 <=> state[i] \notin {"absent", "pending"}
    /\ lease[i] # NoLease <=> state[i] \notin {"absent", "pending"}

\* The values the journal, the disk and the workers' memory may hold.
DeliveryTypeOK ==
  /\ state \in [Intents -> RowState]
  /\ revision \in [Intents -> Nat]
  /\ fence \in [Intents -> 0..MaxClaims]
  /\ lease \in [Intents -> NoLease..LeaseTicks]
  /\ custody \in [Intents -> SUBSET {"staged", "payload"}]
  /\ up \in BOOLEAN
  /\ job \in [Workers -> Job]
  /\ sent \in [Intents -> Nat] /\ inFlight \in [Intents -> Nat] /\ applied \in [Intents -> Nat]
  /\ RowsFit

Init ==
  /\ state = [i \in Intents |-> "absent"]
  /\ revision = [i \in Intents |-> 0]
  /\ fence = [i \in Intents |-> 0]
  /\ lease = [i \in Intents |-> NoLease]
  /\ custody = [i \in Intents |-> {}]
  /\ up = TRUE
  /\ job = [w \in Workers |-> Idle]
  /\ sent = [i \in Intents |-> 0]
  /\ inFlight = [i \in Intents |-> 0]
  /\ applied = [i \in Intents |-> 0]

-----------------------------------------------------------------------------
(* The process, the disk and the clock *)

Stopped == up' = FALSE /\ job' = [w \in Workers |-> Idle]

Crash ==
  /\ up
  /\ Stopped
  /\ UNCHANGED <<journal, custody, provider>>

\* (fault) Recovery clears the stages instead of finalizing them.
FinalizedOrDropped(i) == IF Journaled(i) THEN custody[i] \cap {"payload"} ELSE {}

\* Finalizing links the payload before it removes the stage.
Finalized(i) == IF Journaled(i) THEN {"payload"} ELSE custody[i]

\* The repository starts only after the custody of every journaled row is
\* final; a row without any payload file stops it.
Restart ==
  /\ ~up
  /\ \A i \in Intents : Journaled(i) => custody[i] # {}
  /\ custody' = [i \in Intents |-> Finalized(i)]
  /\ up' = TRUE
  /\ UNCHANGED <<journal, job, provider>>

\* Recovery goes row by row and file by file; the process may die on the way.
RecoveryCut ==
  /\ ~up
  /\ \E final, linked \in SUBSET {i \in Intents : Journaled(i) /\ custody[i] # {}} :
       custody' = [i \in Intents |->
         IF i \in final THEN {"payload"} ELSE IF i \in linked THEN custody[i] \cup {"payload"} ELSE custody[i]]
  /\ UNCHANGED <<journal, up, job, provider>>

\* A sweep also removes the stages of rows that never came to be, once old.
Reconcile(old) ==
  /\ up
  /\ \A i \in Intents : Journaled(i) => custody[i] # {}
  /\ custody' = [i \in Intents |->
       IF ~Journaled(i) /\ i \in old THEN custody[i] \ {"staged"} ELSE Finalized(i)]
  /\ UNCHANGED <<journal, up, job, provider>>

\* Leases run out: what is left of each is one tick less.
Tick ==
  /\ \E i \in Intents : lease[i] > 0
  /\ lease' = [i \in Intents |-> IF lease[i] > 0 THEN lease[i] - 1 ELSE lease[i]]
  /\ UNCHANGED <<state, revision, fence, custody, up, job, provider>>

-----------------------------------------------------------------------------
(* The journal *)

Inserted(i) ==
  /\ state' = [state EXCEPT ![i] = IF @ = "absent" THEN "pending" ELSE @]
  /\ revision' = [revision EXCEPT ![i] = IF @ = 0 THEN 1 ELSE @]
  /\ UNCHANGED <<fence, lease>>

\* Stage the payload, insert the row, finalize the payload: the process may
\* die after each.  A replay finds the row and the payload, and does nothing; a
\* refused row leaves nothing behind, for the stage made for it is removed.
RecordIntent(i) ==
  /\ up
  /\ "payload" \notin custody[i]
  /\ \/ /\ custody' = [custody EXCEPT ![i] = {"payload"}]
        /\ Inserted(i)
        /\ UNCHANGED <<up, job>>
     \/ /\ custody' = [custody EXCEPT ![i] = {"staged"}]
        /\ Inserted(i) \/ UNCHANGED journal
        /\ Stopped
     \/ /\ custody' = [custody EXCEPT ![i] = {"staged", "payload"}]
        /\ Inserted(i)
        /\ Stopped
  /\ UNCHANGED provider

\* (fault) An expired lease is all it takes.
ClaimableOnceExpired(i) == state[i] = "pending" \/ (state[i] \in {"leased", "provider_io_begun"} /\ lease[i] = 0)

Claimable(i) == state[i] = "pending" \/ (state[i] = "leased" /\ lease[i] = 0)

\* (fault) The expiry is written when there is one to extend.
ExtendedLease(i) == IF lease[i] = NoLease THEN lease ELSE [lease EXCEPT ![i] = LeaseTicks]

\* A claim and a renewal both write a new expiry.
Leased(i) == [lease EXCEPT ![i] = LeaseTicks]

\* A new fence for a pending row, or for one whose lease ran out before it was
\* begun; which of the candidates is the oldest is left open.
ClaimNext(w) ==
  /\ up /\ job[w] = Idle
  /\ \E i \in Intents :
       /\ Claimable(i)
       /\ fence[i] < MaxClaims
       /\ state' = [state EXCEPT ![i] = "leased"]
       /\ revision' = [revision EXCEPT ![i] = @ + 1]
       /\ fence' = [fence EXCEPT ![i] = @ + 1]
       /\ lease' = Leased(i)
       /\ job' = [job EXCEPT ![w] = [step |-> "claimed", intent |-> i, fence |-> fence'[i],
                                     revision |-> revision'[i], outcome |-> "outcome_unknown"]]
  /\ UNCHANGED <<custody, up, provider>>

\* (fault) The tuple is compared without its fence and revision.
AnyLease(j) == state[j.intent] = "leased"

\* The row is leased under exactly the claim the worker holds.
HoldsClaim(j) ==
  /\ state[j.intent] = "leased"
  /\ fence[j.intent] = j.fence
  /\ revision[j.intent] = j.revision

Advance(w, step, newRevision) ==
  job' = [job EXCEPT ![w] = [@ EXCEPT !.step = step, !.revision = newRevision]]
Abandon(w) == job' = [job EXCEPT ![w] = Idle] /\ UNCHANGED journal

RenewLease(w) ==
  /\ job[w].step = "claimed"
  /\ LET j == job[w]  i == job[w].intent IN
     \/ /\ HoldsClaim(j)
        /\ revision' = [revision EXCEPT ![i] = @ + 1]
        /\ lease' = Leased(i)
        /\ Advance(w, "renewed", j.revision + 1)
        /\ UNCHANGED <<state, fence>>
     \/ ~HoldsClaim(j) /\ Abandon(w)
  /\ UNCHANGED <<custody, up, provider>>

\* Read the payload, resolve the adapter, prepare the request.  The delivery
\* is unfit without a payload, or when one of the other checks fails.
Load(w) ==
  /\ job[w].step = "renewed"
  /\ \/ "payload" \in custody[job[w].intent] /\ Advance(w, "fit", job[w].revision)
     \/ Advance(w, "unfit", job[w].revision)
  /\ UNCHANGED <<journal, custody, up, provider>>

\* The durable mark before any call.  An unfit delivery is begun as well, and
\* then settled as attention without a call.
MarkBegin(w) ==
  /\ job[w].step \in {"fit", "unfit"}
  /\ LET j == job[w]  i == job[w].intent IN
     \/ /\ HoldsClaim(j)
        /\ state' = [state EXCEPT ![i] = "provider_io_begun"]
        /\ revision' = [revision EXCEPT ![i] = @ + 1]
        /\ job' = [job EXCEPT ![w] =
             [@ EXCEPT !.revision = j.revision + 1,
                       !.step = IF j.step = "fit" THEN "begun" ELSE "answered",
                       !.outcome = IF j.step = "fit" THEN "outcome_unknown" ELSE "attention"]]
        /\ UNCHANGED <<fence, lease>>
     \/ ~HoldsClaim(j) /\ Abandon(w)
  /\ UNCHANGED <<custody, up, provider>>

-----------------------------------------------------------------------------
(* The provider *)

\* The adapter sends the request; or sends nothing, because it refuses the
\* shape of the delivery or has no credential for it.
Deliver(w) ==
  /\ job[w].step = "begun"
  /\ LET i == job[w].intent IN
     \/ /\ sent' = [sent EXCEPT ![i] = @ + 1]
        /\ inFlight' = [inFlight EXCEPT ![i] = @ + 1]
        /\ job' = [job EXCEPT ![w].step = "calling"]
     \/ /\ \E o \in {"attention", "outcome_unknown"} :
             job' = [job EXCEPT ![w] = [@ EXCEPT !.step = "answered", !.outcome = o]]
        /\ UNCHANGED <<sent, inFlight>>
  /\ UNCHANGED <<journal, custody, up, applied>>

\* The provider handles a request, whether anyone still waits for it or not.
ProviderHandles(i) ==
  /\ inFlight[i] > 0
  /\ inFlight' = [inFlight EXCEPT ![i] = @ - 1]
  /\ applied' = [applied EXCEPT ![i] = @ + 1] \/ UNCHANGED applied
  /\ UNCHANGED <<journal, custody, up, job, sent>>

\* The answers a call can end with: what the provider did, or, when the answer
\* is late, lost or unreadable, that nobody knows.
Answers(i) ==
  {"outcome_unknown"} \cup
  (IF inFlight[i] > 0 THEN {} ELSE {IF applied[i] > 0 THEN "accepted" ELSE "rejected"})

Answer(w) ==
  /\ job[w].step = "calling"
  /\ \E o \in Answers(job[w].intent) :
       job' = [job EXCEPT ![w] = [@ EXCEPT !.step = "answered", !.outcome = o]]
  /\ UNCHANGED <<journal, custody, up, provider>>

\* (fault) The last writer wins.
OverwritesVerdict(i, j) == j.outcome

\* A settlement closes a begun row; one that lost a race reads the verdict
\* that stands, or records that the outcome is unknown.
SettledState(i, j) ==
  IF state[i] \in Terminal THEN state[i]
  ELSE IF revision[i] = j.revision THEN j.outcome ELSE "outcome_unknown"

SettleOrReadTerminal(w) ==
  /\ job[w].step = "answered"
  /\ LET j == job[w]  i == job[w].intent IN
     /\ fence[i] = j.fence
     /\ state[i] \in Terminal \cup {"provider_io_begun"}
     /\ state' = [state EXCEPT ![i] = SettledState(i, j)]
     /\ revision' = [revision EXCEPT ![i] = IF state[i] \in Terminal THEN @ ELSE @ + 1]
  /\ job' = [job EXCEPT ![w] = Idle]
  /\ UNCHANGED <<fence, lease, custody, up, provider>>

\* A sweep closes begun rows as unknown; the cutoff is its caller's, so it may
\* take a row whose worker is still calling.
FinalizeStrandedBegun(i) ==
  /\ up
  /\ state[i] = "provider_io_begun"
  /\ state' = [state EXCEPT ![i] = "outcome_unknown"]
  /\ revision' = [revision EXCEPT ![i] = @ + 1]
  /\ UNCHANGED <<fence, lease, custody, up, job, provider>>

-----------------------------------------------------------------------------

WorkerStep(w) ==
  \/ ClaimNext(w) \/ RenewLease(w) \/ Load(w) \/ MarkBegin(w)
  \/ Deliver(w) \/ Answer(w) \/ SettleOrReadTerminal(w)

Next ==
  \/ Crash \/ Restart \/ RecoveryCut \/ Tick
  \/ \E old \in SUBSET Intents : Reconcile(old)
  \/ \E i \in Intents : RecordIntent(i) \/ ProviderHandles(i) \/ FinalizeStrandedBegun(i)
  \/ \E w \in Workers : WorkerStep(w)

Spec == Init /\ [][Next]_vars

-----------------------------------------------------------------------------

\* The provider is called at most once for an intent, whichever workers claimed
\* it, however often leases ran out or the process died.
AtMostOneCall == \A i \in Intents : sent[i] <= 1

\* A worker past its begin mark still owns the row, or finds it closed: its
\* settlement cannot meet a tuple conflict, or a row it could not settle.
SettlementFits ==
  \A w \in Workers :
    job[w].step \in PastBegin =>
      /\ fence[job[w].intent] = job[w].fence
      /\ state[job[w].intent] \in Terminal \cup {"provider_io_begun"}

\* The payload of a journaled intent is never lost: while the process runs it
\* can be read, and after a crash at any point there is a file to start from.
PayloadKept ==
  \A i \in Intents : Journaled(i) => custody[i] # {} /\ (up => "payload" \in custody[i])

Promise == INSTANCE DeliveryPromise WITH
  applied <- applied,
  verdict <- [i \in Intents |-> IF state[i] \in Terminal THEN state[i] ELSE "open"]

\* The journal never lies about a side effect: it keeps the delivery promise,
\* with the provider applying requests after timeouts, crashes and sweeps.
KeepsPromise == Promise!Spec
=============================================================================
