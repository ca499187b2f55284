-------------------------- MODULE HostedPermission --------------------------
(***************************************************************************)
(* Permission for the material actions of a hosted run, and the receipts   *)
(* of those actions: the coordinators of the control plane                 *)
(* (hosted-runs/permissions.ts, material-actions.ts), the client of the    *)
(* runner (control-v1.ts), the resolver and reporter of its daemon         *)
(* (daemon.ts) and the executor whose agent asks (acp-executor.ts).        *)
(*                                                                         *)
(* The agent asks before each action.  The control plane holds the request *)
(* until a person decides; the runner polls.  The agent acts, and the      *)
(* executor reports the action; what could not be reported is reported     *)
(* again when the session ends.  Every request carries the attempt: the    *)
(* control plane serves it while the attempt is current and its lease      *)
(* runs.  Requests are lost, answered too late, or arrive late.            *)
(*                                                                         *)
(* The daemon's lease ends before the control plane's (HostedRunner,       *)
(* LocalLeaseWithinCloud).  An agent that was allowed to act may do so     *)
(* after both, and after its session: a process may survive its            *)
(* termination.                                                            *)
(***************************************************************************)
EXTENDS Naturals, FiniteSets

CONSTANTS
    Actions,        \* tool calls an agent may make
    LastTry,        \* bound: attempts of the run
    MaxUnsent       \* bound: requests their sender gave up, under way at once

ASSUME PermissionAssumption == LastTry \in Nat \ {0}

VARIABLES
    attempt,        \* the current attempt of the run, and is it live?
    permission,     \* cp_permission_request: state
    receipts,       \* cp_material_action_current
    session,        \* the executor's session of each attempt
    trusts,         \* attempts whose daemon takes its own lease to be current
    tool,           \* what each session is at with each action
    unsent,         \* requests given up that may still arrive
    performed       \* history: actions performed

permissionVars ==
    <<attempt, permission, receipts, session, trusts, tool, unsent, performed>>

AttemptNumbers == 1..LastTry
Calls == AttemptNumbers \X Actions

PermissionInit ==
    /\ attempt = [number |-> 1, live |-> TRUE]
    /\ permission = [c \in Calls |-> "none"]
    /\ receipts = {}
    /\ session = [n \in AttemptNumbers |-> IF n = 1 THEN "open" ELSE "none"]
    /\ trusts = {1}
    /\ tool = [c \in Calls |-> "idle"]
    /\ unsent = {}
    /\ performed = {}

\* Granted actions are those the executor governs: they are to be reported.
Granted == {"granted", "reporting", "unreported", "reported"}

PermissionTypeOK ==
    /\ attempt \in [number : AttemptNumbers, live : BOOLEAN]
    /\ permission \in [Calls -> {"none", "waiting", "authorized", "denied"}]
    /\ receipts \subseteq Calls
    /\ session \in [AttemptNumbers -> {"none", "open", "closing", "ended", "failed"}]
    /\ trusts \subseteq AttemptNumbers
    /\ tool \in [Calls -> {"idle", "asking", "waiting", "denied"} \union Granted]
    /\ unsent \subseteq {"ask", "report"} \X Calls
    /\ performed \subseteq Calls

----------------------------------------------------------------------------
\* currentAttemptMatches
Current(n) == attempt.live /\ n = attempt.number

ToolTo(c, stage) == tool' = [tool EXCEPT ![c] = stage]
Open(c) == session[c[1]] = "open"
Trusted(c) == c[1] \in trusts

\* A request given up is lost, or arrives later.
GiveUp(requests) ==
    unsent' \in {unsent} \union
        {u \in {unsent \union requests} : Cardinality(u) <= MaxUnsent}

\* The agent asks, for the first time or again: its request has the time of the
\* asking, so that a request already there is another one.
Ask(c) ==
    /\ Open(c) /\ tool[c] \in {"idle", "denied"}
    /\ Trusted(c)
    /\ ToolTo(c, "asking")
    /\ UNCHANGED <<attempt, permission, receipts, session, trusts, unsent, performed>>

AdmitsAsk(c) == Current(c[1]) /\ permission[c] = "none"
AskAdmitted(c) ==
    permission' = IF AdmitsAsk(c) THEN [permission EXCEPT ![c] = "waiting"] ELSE permission

AnswerAsk(c) ==
    /\ Open(c) /\ tool[c] = "asking"
    /\ AskAdmitted(c)
    /\ ToolTo(c, IF AdmitsAsk(c) THEN "waiting" ELSE "denied")
    /\ UNCHANGED <<attempt, receipts, session, trusts, unsent, performed>>

LoseAsk(c) ==
    /\ Open(c) /\ tool[c] = "asking"
    /\ GiveUp({<<"ask", c>>})
    /\ ToolTo(c, "denied")
    /\ UNCHANGED <<attempt, permission, receipts, session, trusts, performed>>

AskArrives(c) ==
    /\ <<"ask", c>> \in unsent
    /\ unsent' = unsent \ {<<"ask", c>>}
    /\ AskAdmitted(c)
    /\ UNCHANGED <<attempt, receipts, session, trusts, tool, performed>>

\* (fault) A decision may be changed.
MayDecideAgain(c) == permission[c] # "none" /\ Current(c[1])

\* A person decides a request that waits, while its attempt is current.
MayDecide(c) == permission[c] = "waiting" /\ Current(c[1])

Decide(c) ==
    /\ MayDecide(c)
    /\ \E verdict \in {"authorized", "denied"} :
         permission' = [permission EXCEPT ![c] = verdict]
    /\ UNCHANGED <<attempt, receipts, session, trusts, tool, unsent, performed>>

\* The runner polls until the request is decided.  It denies the action once it
\* has lost its lease, here or there, or gets no answer.
Allows(c) == Trusted(c) /\ Current(c[1]) /\ permission[c] = "authorized"

Poll(c) ==
    /\ Open(c) /\ tool[c] = "waiting"
    /\ (Allows(c) /\ ToolTo(c, "granted")) \/ ToolTo(c, "denied")
    /\ UNCHANGED <<attempt, permission, receipts, session, trusts, unsent, performed>>

\* The agent performs an action it was granted, once.
Perform(c) ==
    /\ tool[c] \in Granted
    /\ performed' = performed \union {c}
    /\ UNCHANGED <<attempt, permission, receipts, session, trusts, tool, unsent>>

----------------------------------------------------------------------------
\* The executor reports an action when the agent says it is over, and, when the
\* session closes, every action granted and not yet reported.
Report(c) ==
    /\ Open(c) \/ session[c[1]] = "closing"
    /\ tool[c] \in {"granted", "unreported"}
    /\ Trusted(c)
    /\ ToolTo(c, "reporting")
    /\ UNCHANGED <<attempt, permission, receipts, session, trusts, unsent, performed>>

\* One receipt of an action is taken; no runner names a predecessor for it to
\* take the place of.  The same receipt again is repeated to its sender: the
\* executor's own has the time of the report, so that a second one differs and
\* is refused, and a trusted provider's is kept, and the same.
AdmitsReport(c) == Current(c[1]) /\ c \notin receipts
ReportAdmitted(c) ==
    receipts' = IF AdmitsReport(c) THEN receipts \union {c} ELSE receipts

\* (fault) A report that fails at the end is dropped.
FailsUnnoticed(c) ==
    /\ ToolTo(c, IF Open(c) THEN "unreported" ELSE "reported")
    /\ UNCHANGED session

\* A report that fails is tried again while the session is open; when it closes,
\* the failure is that of the session.
Fails(c) ==
    /\ ToolTo(c, "unreported")
    /\ session' = IF Open(c) THEN session ELSE [session EXCEPT ![c[1]] = "failed"]

AnswerReport(c) ==
    /\ tool[c] = "reporting" /\ session[c[1]] \in {"open", "closing"}
    /\ ReportAdmitted(c)
    /\ \/ /\ AdmitsReport(c) \/ c \in receipts
          /\ ToolTo(c, "reported") /\ UNCHANGED session
       \/ ~AdmitsReport(c) /\ Fails(c)
    /\ UNCHANGED <<attempt, permission, trusts, unsent, performed>>

LoseReport(c) ==
    /\ tool[c] = "reporting" /\ session[c[1]] \in {"open", "closing"}
    /\ GiveUp({<<"report", c>>})
    /\ Fails(c)
    /\ UNCHANGED <<attempt, permission, receipts, trusts, performed>>

\* The reporter of a daemon that lost its lease refuses.
RefuseReport(c) ==
    /\ session[c[1]] = "closing" /\ tool[c] \in {"granted", "unreported"}
    /\ ~Trusted(c)
    /\ Fails(c)
    /\ UNCHANGED <<attempt, permission, receipts, trusts, unsent, performed>>

ReportArrives(c) ==
    /\ <<"report", c>> \in unsent
    /\ unsent' = unsent \ {<<"report", c>>}
    /\ ReportAdmitted(c)
    /\ UNCHANGED <<attempt, permission, session, trusts, tool, performed>>

\* The agent has ended its turn: its process is terminated, and what it still
\* asks for is not granted any more.  The session ends well when all is reported.
CallsOf(n) == {n} \X Actions

CloseSession(n) ==
    /\ session[n] = "open"
    /\ \A c \in CallsOf(n) : tool[c] # "reporting"
    /\ session' = [session EXCEPT ![n] = "closing"]
    /\ tool' = [c \in Calls |->
         IF c \in CallsOf(n) /\ tool[c] \in {"asking", "waiting"} THEN "denied" ELSE tool[c]]
    /\ UNCHANGED <<attempt, permission, receipts, trusts, unsent, performed>>

EndSession(n) ==
    /\ session[n] = "closing"
    /\ \A c \in CallsOf(n) : tool[c] \in {"idle", "denied", "reported"}
    /\ session' = [session EXCEPT ![n] = "ended"]
    /\ UNCHANGED <<attempt, permission, receipts, trusts, tool, unsent, performed>>

\* The session is cancelled, or its process stops, with its requests on the way.
StopSession(n) ==
    /\ session[n] \in {"open", "closing"}
    /\ session' = [session EXCEPT ![n] = "failed"]
    /\ GiveUp({<<"ask", c>> : c \in {d \in CallsOf(n) : tool[d] = "asking"}} \union
              {<<"report", c>> : c \in {d \in CallsOf(n) : tool[d] = "reporting"}})
    /\ trusts' = trusts \ {n}
    /\ UNCHANGED <<attempt, permission, receipts, tool, performed>>

\* The daemon loses its lease; later the attempt ends at the control plane, and
\* the run is claimed again.
LoseTrust(n) ==
    /\ n \in trusts
    /\ trusts' = trusts \ {n}
    /\ UNCHANGED <<attempt, permission, receipts, session, tool, unsent, performed>>

AttemptEnds ==
    /\ attempt.live /\ attempt.number \notin trusts
    /\ attempt' = [attempt EXCEPT !.live = FALSE]
    /\ UNCHANGED <<permission, receipts, session, trusts, tool, unsent, performed>>

NextAttempt ==
    /\ ~attempt.live /\ attempt.number < LastTry
    /\ attempt' = [number |-> attempt.number + 1, live |-> TRUE]
    /\ session' = [session EXCEPT ![attempt'.number] = "open"]
    /\ trusts' = trusts \union {attempt'.number}
    /\ UNCHANGED <<permission, receipts, tool, unsent, performed>>

PermissionNext ==
    \/ \E c \in Calls :
         \/ Ask(c) \/ AnswerAsk(c) \/ LoseAsk(c) \/ AskArrives(c)
         \/ Decide(c) \/ Poll(c) \/ Perform(c)
         \/ Report(c) \/ AnswerReport(c) \/ LoseReport(c) \/ RefuseReport(c)
         \/ ReportArrives(c)
    \/ \E n \in AttemptNumbers :
         CloseSession(n) \/ EndSession(n) \/ StopSession(n) \/ LoseTrust(n)
    \/ AttemptEnds \/ NextAttempt

PermissionSpec == PermissionInit /\ [][PermissionNext]_permissionVars

----------------------------------------------------------------------------
\* An action performed, or reported as performed, is one that a person allowed
\* for that very attempt, and nobody has taken the permission back since:
\* whatever was asked twice, polled late or decided again.
PerformedWasAllowed ==
    performed \union receipts \subseteq {c \in Calls : permission[c] = "authorized"}

\* A session that ends well has left a receipt of every action its agent
\* performed, although reports fail, and their retries are refused.
EndedIsAccounted ==
    \A c \in performed : session[c[1]] = "ended" => c \in receipts
=============================================================================
