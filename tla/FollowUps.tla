------------------------------ MODULE FollowUps ------------------------------
(***************************************************************************)
(* Requests that arrived while a run was active, queued behind it          *)
(* (repository.ts, follow_up_requests) and promoted into runs of their own *)
(* when it ends.  A promotion is several transactions: it reserves a run   *)
(* id in the request, creates the run, records it with the parent run and  *)
(* marks the request promoted.  The handler of the completion, the worker  *)
(* of the reassessments and a person's request may all promote at once,    *)
(* and the process may stop between any two transactions.                  *)
(*                                                                         *)
(* The requests are those of one conversation, queued behind one run, in   *)
(* the order of their numbers.  An automatic continuation, which comes and *)
(* goes outside this module, makes the creation of a run fail while it is  *)
(* active: the promotion then puts the request back.  The id of the new    *)
(* run is a fresh one, or whatever the client of the create-run route      *)
(* names, also one that is taken.  What a caller is answered is left out.  *)
(***************************************************************************)
EXTENDS Naturals

CONSTANTS
    Requests,   \* follow-up requests: an interval of numbers from 1
    Callers,    \* who promotes: handlers and workers
    MaxRuns     \* bound: run ids in use at a time

ASSUME FollowUpsAssumption == Requests \subseteq Nat \ {0} /\ MaxRuns \in Nat \ {0}

VARIABLES
    request,    \* follow_up_requests: status and created_run_id
    runOf,      \* runs, by the event that caused them
    recorded,   \* follow_up_request.promoted events of the parent run
    caller,     \* what each promotion under way is at
    contested   \* history: requests put back under a run of theirs (PutBack)

followUpVars == <<request, runOf, recorded, caller, contested>>

NoRun == 0
NoRequest == 0
Idle == [at |-> "idle", req |-> NoRequest, run |-> NoRun]

FollowUpInit ==
    /\ request = [r \in Requests |-> [status |-> "none", run |-> NoRun]]
    /\ runOf = [r \in Requests |-> NoRun]
    /\ recorded = {}
    /\ caller = [c \in Callers |-> Idle]
    /\ contested = {}

Stages == {"idle", "read", "reserve", "create", "raced", "reset", "record", "finish"}

FollowUpsTypeOK ==
    /\ request \in [Requests ->
         [status : {"none", "queued", "promoting", "promoted"}, run : 0..MaxRuns]]
    /\ runOf \in [Requests -> 0..MaxRuns]
    /\ recorded \subseteq Requests \X (1..MaxRuns)
    /\ caller \in [Callers ->
         [at : Stages, req : Requests \union {NoRequest}, run : 0..MaxRuns]]
    /\ contested \subseteq Requests

----------------------------------------------------------------------------
\* A request of the conversation is queued behind the active run, once.
QueueFollowUp(r) ==
    /\ request[r].status = "none"
    /\ \A q \in Requests : q < r => request[q].status # "none"
    /\ request' = [request EXCEPT ![r].status = "queued"]
    /\ UNCHANGED <<runOf, recorded, caller, contested>>

FirstWith(statuses, r) ==
    /\ request[r].status \in statuses
    /\ \A q \in Requests : q < r => request[q].status \notin statuses
NoneWith(statuses) == \A r \in Requests : request[r].status \notin statuses

Begun == {"promoting", "promoted"}

\* The id is that of a run: none can be created under it again.
IdTaken(n) == \E q \in Requests : runOf[q] = n

\* A random id: no run's, no request's, no caller's.
Fresh(n) ==
    /\ n \in 1..MaxRuns /\ ~IdTaken(n)
    /\ \A q \in Requests : request[q].run # n
    /\ \A c \in Callers : caller[c].run # n

Goto(c, stage) == caller' = [caller EXCEPT ![c].at = stage]
Takes(c, r, n) ==
    caller' = [caller EXCEPT ![c] = [at |-> "read", req |-> r, run |-> n]]
\* The promotion is over; its caller gets the run, or learns why there is none.
Returns(c) == caller' = [caller EXCEPT ![c] = Idle]

\* promoteNextFollowUpAfterTerminalRun takes up the first request whose
\* promotion has begun, with the run id reserved (none, if that one is
\* promoted), else the first queued, with a fresh id.
PromoteNext(c) ==
    /\ caller[c].at = "idle"
    /\ \E r \in Requests :
         \/ /\ FirstWith(Begun, r) /\ request[r].status = "promoting"
            /\ Takes(c, r, request[r].run)
         \/ /\ NoneWith(Begun) /\ FirstWith({"queued"}, r)
            /\ \E n \in 1..MaxRuns : Fresh(n) /\ Takes(c, r, n)
    /\ UNCHANGED <<request, runOf, recorded, contested>>

\* A client asks for the promotion of a queued request, under a run id of its
\* own choice.
PromoteOne(c, r, n) ==
    /\ caller[c].at = "idle"
    /\ request[r].status = "queued"
    /\ Takes(c, r, n)
    /\ UNCHANGED <<request, runOf, recorded, contested>>

\* createRunFromFollowUpRequest reads the request: queued, it must reserve the
\* run id it was called with; promoting, it goes on with the id reserved;
\* promoted, it repeats the record.
ReadRequest(c) ==
    LET r == caller[c].req IN
    /\ caller[c].at = "read"
    /\ CASE request[r].status = "queued" -> Goto(c, "reserve") /\ UNCHANGED recorded
         [] request[r].status = "promoting" ->
              /\ caller' = [caller EXCEPT ![c].at = "create", ![c].run = request[r].run]
              /\ UNCHANGED recorded
         [] request[r].status = "promoted" ->
              /\ recorded' = recorded \union {<<r, request[r].run>>}
              /\ Returns(c)
    /\ UNCHANGED <<request, runOf, contested>>

\* (fault) A request being promoted is reserved anew.
MayReserveAgain(r) == request[r].status \in {"queued", "promoting"}

\* The request is still queued: it is promoting with the caller's run id.
\* Another caller reserved first: this one goes on with that id.  Otherwise it
\* fails.
MayReserve(r) == request[r].status = "queued"

Reserve(c) ==
    LET r == caller[c].req IN
    /\ caller[c].at = "reserve"
    /\ \/ /\ MayReserve(r)
          /\ request' = [request EXCEPT ![r] =
               [status |-> "promoting", run |-> caller[c].run]]
          /\ Goto(c, "create")
       \/ /\ request[r].status = "promoting"
          /\ caller' = [caller EXCEPT ![c].at = "create", ![c].run = request[r].run]
          /\ UNCHANGED request
       \/ /\ request[r].status = "promoted"
          /\ Returns(c)
          /\ UNCHANGED request
    /\ UNCHANGED <<runOf, recorded, contested>>

\* What createRun finds for the request's event, and what the caller makes of
\* it: a run of the id reserved is its own, another is an error.
Replayed(c) == runOf[caller[c].req] # NoRun
\* (fault) Any run of the event is taken for the one reserved.
AnyReplayFits(c) == TRUE
ReplayFits(c) == runOf[caller[c].req] = caller[c].run

CreateRun(c) ==
    /\ caller[c].at = "create"
    /\ \/ /\ Replayed(c)
          /\ IF ReplayFits(c) THEN Goto(c, "record") ELSE Returns(c)
          /\ UNCHANGED runOf
       \* (an automatic continuation is active)
       \/ /\ ~Replayed(c)
          /\ Goto(c, "raced")
          /\ UNCHANGED runOf
       \/ /\ ~Replayed(c) /\ IdTaken(caller[c].run)
          /\ Returns(c)
          /\ UNCHANGED runOf
       \/ /\ ~Replayed(c) /\ ~IdTaken(caller[c].run)
          /\ runOf' = [runOf EXCEPT ![caller[c].req] = caller[c].run]
          /\ Goto(c, "record")
    /\ UNCHANGED <<request, recorded, contested>>

\* After the race it looks whether there is a run of the id after all: one
\* another caller created for the request, or one of something else.
CheckCommitted(c) ==
    /\ caller[c].at = "raced"
    /\ \/ ReplayFits(c) /\ Goto(c, "record")
       \/ ~ReplayFits(c) /\ IdTaken(caller[c].run) /\ Returns(c)
       \/ ~ReplayFits(c) /\ ~IdTaken(caller[c].run) /\ Goto(c, "reset")
    /\ UNCHANGED <<request, runOf, recorded, contested>>

\* (fault) A request is put back whatever its status.
StillNamed(c) == request[caller[c].req].run = caller[c].run
Reserved(c) == request[caller[c].req] = [status |-> "promoting", run |-> caller[c].run]

\* The run of the reservation exists after all, or another caller is about to
\* create it: neither is looked at when the request is put back.
Overtaken(c) ==
    \/ ReplayFits(c)
    \/ \E d \in Callers \ {c} :
         caller[d].at = "create" /\ caller[d].req = caller[c].req /\ caller[d].run = caller[c].run

PutBack(c) ==
    /\ caller[c].at = "reset"
    /\ LET r == caller[c].req IN
       IF Reserved(c)
       THEN /\ request' = [request EXCEPT ![r] = [status |-> "queued", run |-> NoRun]]
            /\ contested' = IF Overtaken(c) THEN contested \union {r} ELSE contested
       ELSE UNCHANGED <<request, contested>>
    /\ Returns(c)
    /\ UNCHANGED <<runOf, recorded>>

RecordPromotion(c) ==
    /\ caller[c].at = "record"
    /\ recorded' = recorded \union {<<caller[c].req, caller[c].run>>}
    /\ Goto(c, "finish")
    /\ UNCHANGED <<request, runOf, contested>>

\* The request is marked promoted if it still holds the reservation; if not,
\* the caller gets an error.
FinishPromotion(c) ==
    /\ caller[c].at = "finish"
    /\ request' = IF Reserved(c)
                  THEN [request EXCEPT ![caller[c].req].status = "promoted"]
                  ELSE request
    /\ Returns(c)
    /\ UNCHANGED <<runOf, recorded, contested>>

Promote(c) ==
    \/ ReadRequest(c) \/ Reserve(c) \/ CreateRun(c) \/ CheckCommitted(c)
    \/ PutBack(c) \/ RecordPromotion(c) \/ FinishPromotion(c)

\* The store fails under a promotion: its caller gets an error.
StoreFails(c) ==
    /\ caller[c].at # "idle"
    /\ Returns(c)
    /\ UNCHANGED <<request, runOf, recorded, contested>>

\* The process stops: what its callers were at is gone.
StopPromoting ==
    /\ caller' = [c \in Callers |-> Idle]
    /\ UNCHANGED <<request, runOf, recorded, contested>>

FollowUpNext ==
    \/ \E r \in Requests : QueueFollowUp(r)
    \/ \E c \in Callers :
         \/ PromoteNext(c) \/ \E r \in Requests, n \in 1..MaxRuns : PromoteOne(c, r, n)
         \/ Promote(c) \/ StoreFails(c)
    \/ StopPromoting

FollowUpSpec == FollowUpInit /\ [][FollowUpNext]_followUpVars

----------------------------------------------------------------------------
\* A promoted request has its run, and the parent run's record names it: what
\* a reader of either side follows leads to the same run.
PromotedHasItsRun ==
    \A r \in Requests : request[r].status = "promoted" =>
        /\ request[r].run # NoRun
        /\ runOf[r] = request[r].run
        /\ {n \in 1..MaxRuns : <<r, n>> \in recorded} = {request[r].run}

\* However many promote, and wherever they stop: a run created for a request
\* has the id its request has reserved, so that the promotion can be taken up;
\* but for a request put back just when another caller had created its run or
\* was about to (the case RunFoundFromRequest is about).
ReservationKept ==
    \A r \in Requests : runOf[r] # NoRun /\ r \notin contested =>
        /\ request[r].run = runOf[r]
        /\ request[r].status \in Begun

\* A run that was committed for a request outlives whatever befalls the rest of
\* its promotion: the request still names it, and a retry takes it up.
RunFoundFromRequest ==
    \A r \in Requests : runOf[r] # NoRun =>
        /\ request[r].run = runOf[r]
        /\ request[r].status \in Begun

\* A promotion is final: the request's run is never exchanged for another, nor
\* a run created for it.
PromotionStays ==
    [][\A r \in Requests :
         /\ request[r].status = "promoted" => request'[r] = request[r]
         /\ runOf[r] # NoRun => runOf'[r] = runOf[r]]_followUpVars
=============================================================================
