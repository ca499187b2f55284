--------------------------- MODULE AdmissionBatch ---------------------------
(***************************************************************************)
(* A workstream admission batch: posted with its items, which become runs  *)
(* one by one under a lease on the batch and one on the item at hand       *)
(* (POST /v1/workstream-batches of the dispatcher and the batch operations *)
(* of the store).  The same batch may be posted again while it is being    *)
(* processed or after a request for it stopped half way: the new request   *)
(* takes over once the lease has run out, and goes on behind the items     *)
(* completed.  A request owns its leases under a name of its own, so each  *)
(* request posts once.  Refused posts (another digest, no such workstream, *)
(* an item of another member) change nothing and are left out.             *)
(***************************************************************************)
EXTENDS Integers, FiniteSetsExt

CONSTANTS
    Admitters,      \* requests that post the batch
    LastItem,       \* the items are 1..LastItem, in their order
    BatchLease      \* ticks a lease is kept for

ASSUME BatchAssumption == LastItem \in Nat \ {0} /\ BatchLease \in Nat \ {0}

VARIABLES
    batch,      \* the row of the batch: status, owner, ticks left, result
    item,       \* the rows of its items
    admitter,   \* what each request is doing, and the results it has gathered
    runMade     \* items whose event has become a run

batchVars == <<batch, item, admitter, runMade>>

Items == 1..LastItem
NoOwner == "none"
NoResults == [i \in Items |-> "none"]

BatchInit ==
    /\ batch = [status |-> "none", owner |-> NoOwner, left |-> 0, result |-> NoResults]
    /\ item = [i \in Items |-> [status |-> "pending", owner |-> NoOwner, left |-> 0,
                                result |-> "none"]]
    /\ admitter = [h \in Admitters |-> [at |-> "new", on |-> 0, results |-> NoResults]]
    /\ runMade = {}

Outcomes == {"created", "idempotent_replay", "refused"}

\* The batch, its items and the requests have their types.
BatchTypeOK ==
    LET ResultLists == [Items -> Outcomes \cup {"none"}] IN
    /\ batch \in [status : {"none", "processing", "completed"},
                  owner : Admitters \cup {NoOwner}, left : 0..BatchLease,
                  result : ResultLists]
    /\ item \in [Items -> [status : {"pending", "processing", "completed"},
                           owner : Admitters \cup {NoOwner}, left : 0..BatchLease,
                           result : Outcomes \cup {"none"}]]
    /\ admitter \in [Admitters ->
         [at : {"new", "next", "admit", "admitted", "record", "finalize", "done"},
          on : Items \cup {0}, results : ResultLists]]
    /\ runMade \subseteq Items

AdmitterTo(h, stage) == admitter' = [admitter EXCEPT ![h].at = stage]
\* The request is over, with its answer or with an error.
Ends(h) == AdmitterTo(h, "done") /\ UNCHANGED <<batch, item, runMade>>

HoldsBatch(h) ==
    batch.status = "processing" /\ batch.owner = h /\ batch.left > 0
HoldsItem(h) ==
    LET row == item[admitter[h].on] IN
    row.status = "processing" /\ row.owner = h /\ row.left > 0

\* The batch is new, or its lease ran out and it is not completed.
Acquirable == batch.status = "none" \/ (batch.status = "processing" /\ batch.left = 0)

BeginBatch(h) ==
    /\ admitter[h].at = "new"
    /\ Acquirable
    /\ batch' = [batch EXCEPT !.status = "processing", !.owner = h, !.left = BatchLease]
    /\ admitter' = [admitter EXCEPT ![h] =
         [at |-> "next", on |-> 0, results |-> [i \in Items |-> item[i].result]]]
    /\ UNCHANGED <<item, runMade>>

\* In progress, or completed and answered with the result recorded.
AnswerPost(h) == admitter[h].at = "new" /\ ~Acquirable /\ Ends(h)

Remaining(h) == {i \in Items : admitter[h].results[i] = "none"}

\* The items are taken in their order, each with a new lease on the batch.
\* An item another request still holds stops this one; the leases of an item
\* and of its batch end together, so that none is found.
ItemTaken(h, i) ==
    item[i].status = "processing" /\ item[i].owner # h /\ item[i].left > 0

ClaimItem(h) ==
    /\ admitter[h].at = "next" /\ Remaining(h) # {}
    /\ LET i == Min(Remaining(h)) IN
       IF ~HoldsBatch(h) \/ ItemTaken(h, i)
       THEN Ends(h)
       ELSE /\ batch' = [batch EXCEPT !.left = BatchLease]
            /\ item' = [item EXCEPT ![i] = [status |-> "processing", owner |-> h,
                                            left |-> BatchLease, result |-> "none"]]
            /\ admitter' = [admitter EXCEPT ![h].at = "admit", ![h].on = i]
            /\ UNCHANGED runMade

\* The event of the item becomes a run, has become one before, or is refused:
\* rejected, queued behind an active run, or left to a human.  Nothing here
\* looks at the leases.
AdmitItem(h) ==
    /\ admitter[h].at = "admit"
    /\ LET i == admitter[h].on
           Gather(result) == admitter' = [admitter EXCEPT
             ![h].at = "admitted", ![h].results = [@ EXCEPT ![i] = result]] IN
       \/ /\ i \notin runMade
          /\ runMade' = runMade \cup {i}
          /\ Gather("created")
       \/ i \in runMade /\ Gather("idempotent_replay") /\ UNCHANGED runMade
       \/ i \notin runMade /\ Gather("refused") /\ UNCHANGED runMade
    /\ UNCHANGED <<batch, item>>

RenewLeases(h) ==
    /\ batch' = [batch EXCEPT !.left = BatchLease]
    /\ item' = [item EXCEPT ![admitter[h].on].left = BatchLease]

\* A timer renews both leases while the item is admitted.  Once they are lost
\* it changes nothing, and the last renewal fails as well.
HeartbeatItem(h) ==
    /\ admitter[h].at \in {"admit", "admitted"}
    /\ HoldsBatch(h) /\ HoldsItem(h)
    /\ RenewLeases(h)
    /\ UNCHANGED <<admitter, runMade>>

LastHeartbeat(h) ==
    /\ admitter[h].at = "admitted"
    /\ IF HoldsBatch(h) /\ HoldsItem(h)
       THEN RenewLeases(h) /\ AdmitterTo(h, "record") /\ UNCHANGED runMade
       ELSE Ends(h)

\* (fault) The result is written by batch and item id alone.
RecordsByKey(h) == item[admitter[h].on].status # "pending"
\* A result is written under both leases.
MayRecord(h) == HoldsBatch(h) /\ HoldsItem(h)

RecordItem(h) ==
    /\ admitter[h].at = "record"
    /\ LET i == admitter[h].on IN
       IF MayRecord(h)
       THEN /\ item' = [item EXCEPT ![i] = [status |-> "completed", owner |-> NoOwner,
                                            left |-> 0, result |-> admitter[h].results[i]]]
            /\ AdmitterTo(h, "next")
            /\ UNCHANGED <<batch, runMade>>
       ELSE Ends(h)

\* All results are gathered: the batch is renewed once more and finalized.
FinalRenewal(h) ==
    /\ admitter[h].at = "next" /\ Remaining(h) = {}
    /\ IF HoldsBatch(h)
       THEN /\ batch' = [batch EXCEPT !.left = BatchLease]
            /\ AdmitterTo(h, "finalize")
            /\ UNCHANGED <<item, runMade>>
       ELSE Ends(h)

FinalizeBatch(h) ==
    /\ admitter[h].at = "finalize"
    /\ IF HoldsBatch(h) /\ \A i \in Items : item[i].status = "completed"
       THEN /\ batch' = [status |-> "completed", owner |-> NoOwner, left |-> 0,
                         result |-> admitter[h].results]
            /\ AdmitterTo(h, "done")
            /\ UNCHANGED <<item, runMade>>
       ELSE Ends(h)

\* A request stops: the process dies, or a call throws.
StopAdmitting(h) == admitter[h].at \notin {"new", "done"} /\ Ends(h)

BatchTick ==
    LET Sooner(left) == IF left > 0 THEN left - 1 ELSE 0 IN
    /\ batch.left > 0
    /\ batch' = [batch EXCEPT !.left = Sooner(@)]
    /\ item' = [i \in Items |-> [item[i] EXCEPT !.left = Sooner(@)]]
    /\ UNCHANGED <<admitter, runMade>>

BatchNext ==
    \/ BatchTick
    \/ \E h \in Admitters :
         \/ BeginBatch(h) \/ AnswerPost(h)
         \/ ClaimItem(h) \/ AdmitItem(h) \/ HeartbeatItem(h) \/ LastHeartbeat(h)
         \/ RecordItem(h) \/ FinalRenewal(h) \/ FinalizeBatch(h) \/ StopAdmitting(h)

BatchSpec == BatchInit /\ [][BatchNext]_batchVars

\* The result a batch closes with tells of every item what that item recorded,
\* whichever requests worked on it, lost it and came late, and a run told to be
\* created was made (claimWorkstreamAdmissionBatchItem,
\* completeWorkstreamAdmissionBatchItem, finalizeWorkstreamAdmissionBatch).
BatchTellsItsItems ==
    batch.status = "completed" =>
      \A i \in Items :
        /\ item[i].status = "completed" /\ batch.result[i] = item[i].result
        /\ batch.result[i] \in {"created", "idempotent_replay"} => i \in runMade
=============================================================================
