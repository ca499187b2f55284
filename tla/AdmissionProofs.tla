--------------------------- MODULE AdmissionProofs ---------------------------
(* Proofs about what the control plane and the dispatcher let in, once: the    *)
(* material actions of a hosted run, GitHub deliveries, and the items of an    *)
(* admission batch.                                                            *)
EXTENDS HostedPermission, GithubDelivery, AdmissionBatch, WellFoundedInduction, TLAPS

-----------------------------------------------------------------------------
(* Permission for material actions *)

ToolState == {"idle", "asking", "waiting", "denied"} \union Granted
SessionState == {"none", "open", "closing", "ended", "failed"}

PermissionShape ==
    /\ permission \in [Calls -> {"none", "waiting", "authorized", "denied"}]
    /\ session \in [AttemptNumbers -> SessionState]
    /\ tool \in [Calls -> ToolState]
    /\ performed \subseteq Calls /\ receipts \subseteq Calls

\* A call that was ever granted, in its session or on its way to the control
\* plane, is authorized; an action performed stays a granted one, and is reported
\* once there is a receipt; a session ended well has nothing left to report.
PermissionInv ==
    /\ PermissionShape
    /\ \A c \in Calls :
         /\ tool[c] \in Granted \/ <<"report", c>> \in unsent \/ c \in receipts =>
              permission[c] = "authorized"
         /\ c \in performed => tool[c] \in Granted
         /\ tool[c] = "reported" => c \in receipts
         /\ session[c[1]] = "ended" => tool[c] \in {"idle", "denied", "reported"}

\* What a step may do to the tool of a call: nothing, go on before any grant,
\* grant it, ask for its report, or find it reported.
ToolStep(c) ==
    \/ tool'[c] = tool[c]
    \/ tool[c] \notin Granted /\ tool'[c] \in {"asking", "waiting", "denied"}
       /\ session[c[1]] # "ended" /\ (session'[c[1]] = "ended" => tool'[c] = "denied")
    \/ tool[c] = "waiting" /\ tool'[c] = "granted" /\ permission[c] = "authorized"
       /\ session[c[1]] # "ended" /\ session'[c[1]] # "ended"
    \/ tool[c] \in Granted /\ tool'[c] \in {"reporting", "unreported"}
       /\ session[c[1]] # "ended" /\ session'[c[1]] # "ended"
    \/ tool[c] \in Granted /\ tool'[c] = "reported" /\ c \in receipts'
       /\ session[c[1]] # "ended" /\ session'[c[1]] # "ended"

CallStep(c) ==
    /\ ToolStep(c)
    /\ permission'[c] = permission[c] \/ permission[c] # "authorized"
    /\ <<"report", c>> \in unsent' => <<"report", c>> \in unsent \/ tool[c] \in Granted
    /\ c \in receipts' => c \in receipts \/ tool[c] \in Granted \/ <<"report", c>> \in unsent
    /\ c \in receipts => c \in receipts'
    /\ c \in performed' => c \in performed \/ (tool[c] \in Granted /\ tool'[c] = tool[c])
    /\ session[c[1]] # "ended" /\ session'[c[1]] = "ended" =>
         tool'[c] \in {"idle", "denied", "reported"}

CallsMove ==
    /\ PermissionShape'
    /\ \A c \in Calls : CallStep(c)

LEMMA CallsShape ==
    /\ \A c \in Calls : c[1] \in AttemptNumbers
    /\ \A n : \A c \in Calls : c \in CallsOf(n) <=> c[1] = n
BY DEF Calls, CallsOf

LEMMA GivenUp ==
    ASSUME NEW requests, NEW u, GiveUp(requests), u \in unsent'
    PROVE  u \in unsent \/ u \in requests
BY DEF GiveUp

LEMMA CallsStep == ASSUME PermissionInv, [PermissionNext]_permissionVars PROVE CallsMove
<1>1. /\ PermissionShape
      /\ permission \in [Calls -> {"none", "waiting", "authorized", "denied"}]
      /\ session \in [AttemptNumbers -> SessionState] /\ tool \in [Calls -> ToolState]
      /\ performed \subseteq Calls /\ receipts \subseteq Calls
      /\ \A c \in Calls : c[1] \in AttemptNumbers
  BY CallsShape DEF PermissionInv, PermissionShape
<1> USE DEF ToolTo
<1>2. CASE UNCHANGED permissionVars
  BY <1>1, <1>2 DEF permissionVars, CallsMove, PermissionShape, CallStep, ToolStep
<1>3. ASSUME NEW c \in Calls, Ask(c) PROVE CallsMove
  BY <1>1, <1>3 DEF Ask, Open, CallsMove, PermissionShape, CallStep, ToolStep, ToolState, Granted
<1>4. ASSUME NEW c \in Calls, AnswerAsk(c) PROVE CallsMove
  BY <1>1, <1>4 DEF AnswerAsk, AskAdmitted, AdmitsAsk, Open, CallsMove, PermissionShape, CallStep,
                    ToolStep, ToolState, Granted
<1>5. ASSUME NEW c \in Calls, LoseAsk(c) PROVE CallsMove
  <2>1. \A d \in Calls : <<"report", d>> \in unsent' => <<"report", d>> \in unsent
    BY <1>5, GivenUp DEF LoseAsk
  <2> QED BY <1>1, <1>5, <2>1 DEF LoseAsk, Open, CallsMove, PermissionShape, CallStep, ToolStep,
                                  ToolState, Granted
<1>6. ASSUME NEW c \in Calls, AskArrives(c) PROVE CallsMove
  BY <1>1, <1>6 DEF AskArrives, AskAdmitted, AdmitsAsk, CallsMove, PermissionShape, CallStep, ToolStep
<1>7. ASSUME NEW c \in Calls, Decide(c) PROVE CallsMove
  BY <1>1, <1>7 DEF Decide, MayDecide, CallsMove, PermissionShape, CallStep, ToolStep
<1>8. ASSUME NEW c \in Calls, Poll(c) PROVE CallsMove
  BY <1>1, <1>8 DEF Poll, Allows, Open, CallsMove, PermissionShape, CallStep, ToolStep, ToolState, Granted
<1>9. ASSUME NEW c \in Calls, Perform(c) PROVE CallsMove
  BY <1>1, <1>9 DEF Perform, CallsMove, PermissionShape, CallStep, ToolStep
<1>10. ASSUME NEW c \in Calls, Report(c) PROVE CallsMove
  BY <1>1, <1>10 DEF Report, Open, CallsMove, PermissionShape, CallStep, ToolStep, ToolState, Granted
<1>11. ASSUME NEW c \in Calls, session[c[1]] \in {"open", "closing"}, Fails(c)
       PROVE  /\ session' \in [AttemptNumbers -> SessionState] /\ tool' \in [Calls -> ToolState]
              /\ \A n \in AttemptNumbers : session'[n] = "ended" => session[n] = "ended"
              /\ session'[c[1]] # "ended" /\ tool'[c] = "unreported"
              /\ \A d \in Calls \ {c} : tool'[d] = tool[d]
  BY <1>1, <1>11 DEF Fails, Open, SessionState, ToolState, Granted
<1>12. ASSUME NEW c \in Calls, AnswerReport(c) PROVE CallsMove
  <2>1. CASE Fails(c)
    BY <1>1, <1>11, <1>12, <2>1
    DEF AnswerReport, ReportAdmitted, CallsMove, PermissionShape, CallStep, ToolStep, Granted
  <2>2. CASE ~Fails(c)
    BY <1>1, <1>12, <2>2
    DEF AnswerReport, ReportAdmitted, CallsMove, PermissionShape, CallStep, ToolStep, ToolState, Granted
  <2> QED BY <2>1, <2>2
<1>13. ASSUME NEW c \in Calls, LoseReport(c) PROVE CallsMove
  <2>1. \A d \in Calls : <<"report", d>> \in unsent' => <<"report", d>> \in unsent \/ d = c
    BY <1>13, GivenUp DEF LoseReport
  <2> QED BY <1>1, <1>11, <1>13, <2>1
          DEF LoseReport, CallsMove, PermissionShape, CallStep, ToolStep, Granted
<1>14. ASSUME NEW c \in Calls, RefuseReport(c) PROVE CallsMove
  BY <1>1, <1>11, <1>14 DEF RefuseReport, CallsMove, PermissionShape, CallStep, ToolStep, Granted
<1>15. ASSUME NEW c \in Calls, ReportArrives(c) PROVE CallsMove
  BY <1>1, <1>15 DEF ReportArrives, ReportAdmitted, CallsMove, PermissionShape, CallStep, ToolStep
<1>16. ASSUME NEW n \in AttemptNumbers, CloseSession(n) PROVE CallsMove
  <2>1. \A c \in Calls : tool'[c] = IF c[1] = n /\ tool[c] \in {"asking", "waiting"} THEN "denied" ELSE tool[c]
    BY <1>16, CallsShape DEF CloseSession
  <2>2. tool' \in [Calls -> ToolState]
    BY <1>1, <1>16 DEF CloseSession, ToolState
  <2>3. /\ session' \in [AttemptNumbers -> SessionState] /\ session[n] = "open"
        /\ \A m \in AttemptNumbers : session'[m] = "ended" => session[m] = "ended"
    BY <1>1, <1>16 DEF CloseSession, SessionState
  <2> QED BY <1>1, <1>16, <2>1, <2>2, <2>3
          DEF CloseSession, CallsMove, PermissionShape, CallStep, ToolStep, Granted
<1>17. ASSUME NEW n \in AttemptNumbers, EndSession(n) PROVE CallsMove
  <2>1. \A c \in Calls : c[1] = n => tool[c] \in {"idle", "denied", "reported"}
    BY <1>17, CallsShape DEF EndSession
  <2> QED BY <1>1, <1>17, <2>1 DEF EndSession, CallsMove, PermissionShape, CallStep, ToolStep, SessionState
<1>18. ASSUME NEW n \in AttemptNumbers, StopSession(n) PROVE CallsMove
  <2>1. \A d \in Calls : <<"report", d>> \in unsent' => <<"report", d>> \in unsent \/ tool[d] = "reporting"
    BY <1>18, GivenUp DEF StopSession
  <2> QED BY <1>1, <1>18, <2>1
          DEF StopSession, CallsMove, PermissionShape, CallStep, ToolStep, SessionState, Granted
<1>19. ASSUME NEW n \in AttemptNumbers, LoseTrust(n) PROVE CallsMove
  BY <1>1, <1>19 DEF LoseTrust, CallsMove, PermissionShape, CallStep, ToolStep
<1>20. CASE AttemptEnds
  BY <1>1, <1>20 DEF AttemptEnds, CallsMove, PermissionShape, CallStep, ToolStep
<1>21. CASE NextAttempt
  BY <1>1, <1>21 DEF NextAttempt, CallsMove, PermissionShape, CallStep, ToolStep, SessionState
<1> QED BY <1>2, <1>3, <1>4, <1>5, <1>6, <1>7, <1>8, <1>9, <1>10, <1>12, <1>13, <1>14, <1>15, <1>16,
           <1>17, <1>18, <1>19, <1>20, <1>21 DEF PermissionNext

LEMMA PermissionInvStep == PermissionInv /\ [PermissionNext]_permissionVars => PermissionInv'
<1> SUFFICES ASSUME PermissionInv, [PermissionNext]_permissionVars PROVE PermissionInv'
  OBVIOUS
<1>1. PermissionShape' /\ \A c \in Calls : CallStep(c)
  BY CallsStep DEF CallsMove
<1>2. ASSUME NEW c \in Calls
      PROVE  /\ tool'[c] \in Granted \/ <<"report", c>> \in unsent' \/ c \in receipts' =>
                  permission'[c] = "authorized"
             /\ c \in performed' => tool'[c] \in Granted
             /\ tool'[c] = "reported" => c \in receipts'
             /\ session'[c[1]] = "ended" => tool'[c] \in {"idle", "denied", "reported"}
  BY <1>1 DEF PermissionInv, CallStep, ToolStep, Granted
<1> QED BY <1>1, <1>2 DEF PermissionInv

LEMMA PermissionInitInv == PermissionInit => PermissionInv
BY PermissionAssumption
DEF PermissionInit, PermissionInv, PermissionShape, SessionState, ToolState, Granted

\* Whatever is performed or receipted was allowed, for any number of calls and
\* attempts, however requests are lost, answered late or arrive late.
THEOREM PerformedOnPermission == PermissionSpec => []PerformedWasAllowed
<1>1. PermissionInv => PerformedWasAllowed
  BY DEF PermissionInv, PermissionShape, PerformedWasAllowed
<1> QED BY <1>1, PermissionInitInv, PermissionInvStep, PTL DEF PermissionSpec

\* A session that ended well is accounted for by receipts.
THEOREM EndedAccounted == PermissionSpec => []EndedIsAccounted
<1>1. PermissionInv => EndedIsAccounted
  BY DEF PermissionInv, PermissionShape, EndedIsAccounted, Granted
<1> QED BY <1>1, PermissionInitInv, PermissionInvStep, PTL DEF PermissionSpec

\* The sessions of the attempts to come have not begun.
SessionsAhead ==
    /\ attempt.number \in Nat
    /\ \A n \in AttemptNumbers : n > attempt.number => session[n] = "none"

\* A decision of a person is never exchanged, nor is a request forgotten
\* (hosted material actions); and a session that has ended, well or not, does not
\* come back, however late its reports arrive and whichever attempt comes next.
DecisionsKept ==
    /\ \A c \in Calls :
         /\ permission[c] \in {"authorized", "denied"} => permission'[c] = permission[c]
         /\ permission[c] # "none" => permission'[c] # "none"
         /\ c \in receipts => c \in receipts'
    /\ \A n \in AttemptNumbers : session[n] \in {"ended", "failed"} => session'[n] = session[n]

SessionsMove ==
    /\ SessionsAhead'
    /\ \A n \in AttemptNumbers : session[n] \in {"ended", "failed"} => session'[n] = session[n]

LEMMA SessionsStep ==
    ASSUME PermissionInv, SessionsAhead, [PermissionNext]_permissionVars
    PROVE  SessionsMove
<1>1. session \in [AttemptNumbers -> SessionState] /\ \A c \in Calls : c[1] \in AttemptNumbers
  BY CallsShape DEF PermissionInv, PermissionShape
<1>2. ASSUME UNCHANGED attempt,
             \A n \in AttemptNumbers : session'[n] = session[n] \/ session[n] \in {"open", "closing"}
      PROVE  SessionsMove
  BY <1>2 DEF SessionsMove, SessionsAhead
<1>3. ASSUME NEW n \in AttemptNumbers, session[n] \in {"open", "closing"}, NEW s,
             session' = [session EXCEPT ![n] = s], UNCHANGED attempt
      PROVE  SessionsMove
  BY <1>1, <1>2, <1>3
<1>4. ASSUME UNCHANGED <<attempt, session>> PROVE SessionsMove
  BY <1>2, <1>4
<1>5. ASSUME NEW c \in Calls, session[c[1]] \in {"open", "closing"}, Fails(c), UNCHANGED attempt
      PROVE  SessionsMove
  BY <1>1, <1>3, <1>4, <1>5 DEF Fails
<1>6. ASSUME NEW c \in Calls,
             AnswerReport(c) \/ LoseReport(c) \/ RefuseReport(c)
      PROVE  SessionsMove
  BY <1>4, <1>5, <1>6 DEF AnswerReport, LoseReport, RefuseReport
<1>7. ASSUME NEW n \in AttemptNumbers, CloseSession(n) \/ EndSession(n) \/ StopSession(n)
      PROVE  SessionsMove
  BY <1>3, <1>7 DEF CloseSession, EndSession, StopSession
<1>8. CASE NextAttempt
  <2>1. attempt'.number = attempt.number + 1 /\ session' = [session EXCEPT ![attempt.number + 1] = "open"]
    BY <1>8 DEF NextAttempt
  <2>2. attempt.number \in Nat /\ \A n \in AttemptNumbers : n > attempt.number => session[n] = "none"
    BY DEF SessionsAhead
  <2>3. \A n \in AttemptNumbers : n \in Nat
    BY PermissionAssumption DEF AttemptNumbers
  <2>4. \A n \in AttemptNumbers : n # attempt.number + 1 => session'[n] = session[n]
    BY <1>1, <2>1
  <2> QED BY <2>1, <2>2, <2>3, <2>4 DEF SessionsMove, SessionsAhead
<1>9. CASE AttemptEnds
  <2>1. attempt' = [attempt EXCEPT !.live = FALSE] /\ UNCHANGED session
    BY <1>9 DEF AttemptEnds
  <2>2. attempt'.number = attempt.number
    BY <2>1
  <2> QED BY <2>1, <2>2 DEF SessionsMove, SessionsAhead
<1>10. CASE \/ UNCHANGED permissionVars
            \/ \E c \in Calls : \/ Ask(c) \/ AnswerAsk(c) \/ LoseAsk(c) \/ AskArrives(c)
                                \/ Decide(c) \/ Poll(c) \/ Perform(c) \/ Report(c) \/ ReportArrives(c)
            \/ \E n \in AttemptNumbers : LoseTrust(n)
  <2>1. UNCHANGED <<attempt, session>>
    BY <1>10 DEF permissionVars, Ask, AnswerAsk, LoseAsk, AskArrives, Decide, Poll, Perform,
                 Report, ReportArrives, LoseTrust
  <2> QED BY <1>4, <2>1
<1> QED BY <1>6, <1>7, <1>8, <1>9, <1>10 DEF PermissionNext

LEMMA DecisionsStep ==
    ASSUME PermissionInv, SessionsAhead, [PermissionNext]_permissionVars PROVE DecisionsKept
<1>1. permission \in [Calls -> {"none", "waiting", "authorized", "denied"}]
  BY DEF PermissionInv, PermissionShape
<1>2. ASSUME NEW d \in Calls
      PROVE  /\ permission[d] \in {"authorized", "denied"} => permission'[d] = permission[d]
             /\ permission[d] # "none" => permission'[d] # "none"
  <2>1. CASE UNCHANGED permission
    BY <2>1
  <2>2. ASSUME NEW c \in Calls, AskAdmitted(c) PROVE <1>2!2
    BY <1>1, <2>2 DEF AskAdmitted, AdmitsAsk
  <2>3. ASSUME NEW c \in Calls, AnswerAsk(c) \/ AskArrives(c) PROVE <1>2!2
    BY <2>2, <2>3 DEF AnswerAsk, AskArrives
  <2>4. ASSUME NEW c \in Calls, Decide(c) PROVE <1>2!2
    BY <1>1, <2>4 DEF Decide, MayDecide
  <2>5. CASE \/ UNCHANGED permissionVars \/ AttemptEnds \/ NextAttempt
             \/ \E c \in Calls : \/ Ask(c) \/ LoseAsk(c) \/ Poll(c) \/ Perform(c) \/ Report(c)
                                 \/ AnswerReport(c) \/ LoseReport(c) \/ RefuseReport(c) \/ ReportArrives(c)
             \/ \E n \in AttemptNumbers : CloseSession(n) \/ EndSession(n) \/ StopSession(n) \/ LoseTrust(n)
    BY <2>1, <2>5 DEF permissionVars, AttemptEnds, NextAttempt, Ask, LoseAsk, Poll, Perform, Report,
       AnswerReport, LoseReport, RefuseReport, ReportArrives, CloseSession, EndSession, StopSession, LoseTrust
  <2> QED BY <2>3, <2>4, <2>5 DEF PermissionNext
<1>3. \A c \in Calls : c \in receipts => c \in receipts'
  BY CallsStep DEF CallsMove, CallStep
<1> QED BY <1>2, <1>3, SessionsStep DEF SessionsMove, DecisionsKept

DecisionsStand == [][DecisionsKept]_permissionVars

\* Decisions stand, receipts stay, and no session comes back.
THEOREM DecisionsAreFinal == PermissionSpec => DecisionsStand
<1>1. PermissionInit => SessionsAhead
  BY PermissionAssumption DEF PermissionInit, SessionsAhead, AttemptNumbers
<1>2. PermissionInv /\ SessionsAhead /\ [PermissionNext]_permissionVars
        => (PermissionInv /\ SessionsAhead)' /\ [DecisionsKept]_permissionVars
  BY PermissionInvStep, SessionsStep, DecisionsStep DEF SessionsMove
<1> QED BY <1>1, <1>2, PermissionInitInv, PTL DEF PermissionSpec, DecisionsStand

-----------------------------------------------------------------------------
(* GitHub deliveries *)

ReceiverRecord ==
    [stage : {"idle", "reserved", "prepared", "decided"}, delivery : Deliveries \union {"none"},
     token : Int, stamp : Int, result : Final \union {"none"}]

GithubShape ==
    /\ source \in [Deliveries -> Events \union {"none"}]
    /\ outcome \in [Deliveries -> {"none", "processing"} \union Final]
    /\ reservation \in [Deliveries -> [token : Int, expires : Int]]
    /\ receiver \in [Receivers -> ReceiverRecord]
    /\ DOMAIN admittedBy = Comments
    /\ told \in [Deliveries -> SUBSET Final]
    /\ instant \in Int

\* What a result says of the source event of its delivery.
Justified(d, result) ==
    /\ result = "accepted" => source[d] \in Comments /\ admittedBy[source[d]].delivery = d
    /\ result = "admission_conflict" =>
         source[d] \in Comments /\ admittedBy[source[d]] # NoEnvelope
    /\ result = "evidence_recorded" => source[d] \in evidence

\* A delivery at work has been reserved, and what is decided or recorded of it is
\* justified; it is told only what is final.
GithubInv ==
    /\ GithubShape
    /\ \A h \in Receivers : receiver[h].stage # "idle" =>
         /\ receiver[h].delivery \in Deliveries /\ outcome[receiver[h].delivery] # "none"
         /\ receiver[h].stage = "decided" =>
              receiver[h].result \in Final /\ Justified(receiver[h].delivery, receiver[h].result)
    /\ \A d \in Deliveries :
         /\ Justified(d, outcome[d])
         /\ told[d] \subseteq {outcome[d]}
         /\ outcome[d] \in {"none", "processing"} => told[d] = {}

\* The event of a reserved delivery is not exchanged, nor an envelope admitted,
\* nor a final outcome.
GithubMoves ==
    /\ evidence \subseteq evidence'
    /\ DOMAIN admittedBy' = Comments
    /\ \A m \in Comments : admittedBy[m] # NoEnvelope => admittedBy'[m] = admittedBy[m]
    /\ \A d \in Deliveries :
         /\ outcome[d] # "none" => source'[d] = source[d] /\ outcome'[d] # "none"
         /\ source'[d] \in Events \union {"none"}
         /\ outcome'[d] \in {"none", "processing"} \union Final

LEMMA JustifiedStays ==
    ASSUME GithubMoves, NEW d \in Deliveries, NEW result, Justified(d, result), outcome[d] # "none"
    PROVE  Justified(d, result)'
<1>1. source'[d] = source[d] /\ evidence \subseteq evidence'
  BY DEF GithubMoves
<1>2. ASSUME source[d] \in Comments, admittedBy[source[d]] # NoEnvelope
      PROVE  admittedBy'[source[d]] = admittedBy[source[d]]
  BY <1>2 DEF GithubMoves
<1>3. result = "accepted" => admittedBy[source[d]] # NoEnvelope
  BY DeliveriesAreNamed DEF Justified, NoEnvelope
<1> QED BY <1>1, <1>2, <1>3 DEF Justified

LEMMA ReceiverRows ==
    ASSUME GithubInv, NEW h \in Receivers, NEW new \in ReceiverRecord, ReceiverTo(h, new)
    PROVE  /\ receiver' \in [Receivers -> ReceiverRecord]
           /\ \A g \in Receivers : receiver'[g] = IF g = h THEN new ELSE receiver[g]
BY DEF ReceiverTo, GithubInv, GithubShape

\* One receiver goes on, and what it has decided is justified; the outcome of one
\* delivery may be recorded or told.
GoesOn(h, new) ==
    /\ new \in ReceiverRecord /\ ReceiverTo(h, new)
    /\ new.stage # "idle" =>
         /\ new.delivery \in Deliveries /\ outcome'[new.delivery] # "none"
         /\ new.stage = "decided" => new.result \in Final /\ Justified(new.delivery, new.result)'

LEMMA ReceiversStep ==
    ASSUME GithubInv, GithubMoves, \/ UNCHANGED receiver
                                   \/ \E h \in Receivers, new \in ReceiverRecord : GoesOn(h, new)
    PROVE  /\ receiver' \in [Receivers -> ReceiverRecord]
           /\ \A h \in Receivers : receiver'[h].stage # "idle" =>
                /\ receiver'[h].delivery \in Deliveries /\ outcome'[receiver'[h].delivery] # "none"
                /\ receiver'[h].stage = "decided" =>
                     /\ receiver'[h].result \in Final
                     /\ Justified(receiver[h].delivery, receiver[h].result)'
<1>1. ASSUME NEW h \in Receivers, receiver'[h] = receiver[h], receiver[h].stage # "idle"
      PROVE  /\ receiver'[h].delivery \in Deliveries /\ outcome'[receiver'[h].delivery] # "none"
             /\ receiver'[h].stage = "decided" =>
                  /\ receiver'[h].result \in Final
                  /\ Justified(receiver[h].delivery, receiver[h].result)'
  <2>1. PICK k : k = receiver[h]
    OBVIOUS
  <2>2. /\ k.delivery \in Deliveries /\ outcome[k.delivery] # "none"
        /\ k.stage = "decided" => k.result \in Final /\ Justified(k.delivery, k.result)
    BY <1>1, <2>1 DEF GithubInv
  <2>3. outcome'[k.delivery] # "none"
    BY <2>2 DEF GithubMoves
  <2>4. k.stage = "decided" => Justified(k.delivery, k.result)'
    BY <2>2, JustifiedStays
  <2> QED BY <1>1, <2>1, <2>2, <2>3, <2>4 DEF Justified
<1>2. CASE UNCHANGED receiver
  BY <1>1, <1>2 DEF GithubInv, GithubShape
<1>3. ASSUME NEW h \in Receivers, NEW new \in ReceiverRecord, GoesOn(h, new) PROVE ReceiversStep!4
  <2>1. /\ receiver' \in [Receivers -> ReceiverRecord]
        /\ \A g \in Receivers : receiver'[g] = IF g = h THEN new ELSE receiver[g]
    BY <1>3, ReceiverRows DEF GoesOn
  <2>2. ASSUME NEW g \in Receivers, receiver'[g].stage # "idle"
        PROVE  /\ receiver'[g].delivery \in Deliveries /\ outcome'[receiver'[g].delivery] # "none"
               /\ receiver'[g].stage = "decided" =>
                    /\ receiver'[g].result \in Final
                    /\ Justified(receiver[g].delivery, receiver[g].result)'
    <3>1. CASE g = h
      BY <1>3, <2>1, <2>2, <3>1 DEF GoesOn, Justified
    <3>2. CASE g # h
      BY <1>1, <2>1, <2>2, <3>2
    <3> QED BY <3>1, <3>2
  <2> QED BY <2>1, <2>2
<1> QED BY <1>2, <1>3

\* What one step does to the deliveries.
DeliveriesStep ==
    /\ GithubMoves
    /\ source' \in [Deliveries -> Events \union {"none"}]
    /\ outcome' \in [Deliveries -> {"none", "processing"} \union Final]
    /\ reservation' \in [Deliveries -> [token : Int, expires : Int]]
    /\ told' \in [Deliveries -> SUBSET Final]
    /\ instant' \in Int
    /\ \/ UNCHANGED receiver
       \/ \E h \in Receivers, new \in ReceiverRecord : GoesOn(h, new)
    /\ \A d \in Deliveries :
         /\ outcome'[d] # outcome[d] => outcome[d] \in {"none", "processing"}
         /\ told'[d] # told[d] => told'[d] = told[d] \union {outcome'[d]} /\ outcome'[d] \in Final
         /\ outcome'[d] # outcome[d] /\ outcome'[d] # "processing" =>
              \E h \in Receivers : /\ receiver[h].stage = "decided" /\ receiver[h].delivery = d
                                   /\ outcome'[d] = receiver[h].result

LEMMA DeliveriesMove == ASSUME GithubInv, [GithubNext]_githubVars PROVE DeliveriesStep
<1>1. /\ GithubShape
      /\ source \in [Deliveries -> Events \union {"none"}]
      /\ outcome \in [Deliveries -> {"none", "processing"} \union Final]
      /\ reservation \in [Deliveries -> [token : Int, expires : Int]]
      /\ receiver \in [Receivers -> ReceiverRecord]
      /\ DOMAIN admittedBy = Comments
      /\ told \in [Deliveries -> SUBSET Final] /\ instant \in Int
      /\ \A h \in Receivers : receiver[h] \in ReceiverRecord
  BY DEF GithubInv, GithubShape
<1>2. UNCHANGED <<source, outcome, admittedBy, evidence>> => GithubMoves
  BY <1>1 DEF GithubMoves
<1>3. Waiting \in ReceiverRecord /\ Waiting.stage = "idle"
  BY DEF Waiting, ReceiverRecord
<1>4. ASSUME NEW h \in Receivers, NEW new \in ReceiverRecord, GoesOn(h, new), GithubMoves,
             UNCHANGED <<source, outcome, reservation, instant, told>>
      PROVE  DeliveriesStep
  BY <1>1, <1>4 DEF DeliveriesStep
<1>5. CASE InstantPasses /\ UNCHANGED source
  BY <1>1, <1>2, <1>5 DEF InstantPasses, DeliveriesStep
<1>6. ASSUME NEW d \in Deliveries, ReplayOutcome(d), UNCHANGED source PROVE DeliveriesStep
  <2>1. UNCHANGED receiver /\ GithubMoves
    BY <1>2, <1>6 DEF ReplayOutcome
  <2>2. told' = [told EXCEPT ![d] = told[d] \union {outcome[d]}] /\ outcome[d] \in Final
    BY <1>1, <1>6 DEF ReplayOutcome, Tell
  <2> QED BY <1>1, <1>6, <2>1, <2>2 DEF DeliveriesStep, ReplayOutcome
<1>7. ASSUME NEW h \in Receivers, LoseReservation(h) \/ StopReceiving(h), UNCHANGED source
      PROVE  DeliveriesStep
  BY <1>2, <1>3, <1>4, <1>7 DEF LoseReservation, StopReceiving, GoesOn
<1>8. ASSUME NEW h \in Receivers, receiver[h].stage # "idle", NEW result \in Final, Decides(h, result),
             UNCHANGED source, GithubMoves, NEW d, d = receiver[h].delivery, Justified(d, result)'
      PROVE  DeliveriesStep
  <2>1. PICK new : new = [receiver[h] EXCEPT !.stage = "decided", !.result = result]
    OBVIOUS
  <2>2. /\ new \in ReceiverRecord /\ new.stage = "decided" /\ new.result = result
        /\ new.delivery = receiver[h].delivery
    BY <1>1, <2>1 DEF ReceiverRecord
  <2>3. ReceiverTo(h, new) /\ UNCHANGED <<outcome, reservation, instant, told>>
    BY <1>8, <2>1 DEF Decides
  <2>4. receiver[h].delivery \in Deliveries /\ outcome[receiver[h].delivery] # "none"
    BY <1>8 DEF GithubInv
  <2>5. Justified(new.delivery, new.result)'
    BY <1>8, <2>2 DEF Justified
  <2>6. GoesOn(h, new)
    BY <2>2, <2>3, <2>4, <2>5 DEF GoesOn
  <2> QED BY <1>4, <1>8, <2>2, <2>3, <2>6
<1>9. ASSUME NEW h \in Receivers, RefuseEvent(h) \/ FindNotReady(h), UNCHANGED source
      PROVE  DeliveriesStep
  <2>1. \E result \in {"refused", "runner_not_ready"} : Decides(h, result)
    BY <1>9 DEF RefuseEvent, FindNotReady
  <2>2. /\ receiver[h].stage # "idle"
        /\ GithubMoves
        /\ \A d : \A result \in {"refused", "runner_not_ready"} : Justified(d, result)'
    BY <1>2, <1>9 DEF RefuseEvent, FindNotReady, At, Decides, Justified
  <2> QED BY <1>8, <1>9, <2>1, <2>2 DEF Final
<1>10. ASSUME NEW h \in Receivers, RecordEvidence(h), UNCHANGED source PROVE DeliveriesStep
  <2> DEFINE d == receiver[h].delivery
  <2>1. /\ receiver[h].stage # "idle" /\ evidence' = evidence \union {source[d]}
        /\ UNCHANGED <<outcome, admittedBy>> /\ Decides(h, "evidence_recorded")
    BY <1>10 DEF RecordEvidence, At, Decides
  <2>2. GithubMoves
    BY <1>1, <1>10, <2>1 DEF GithubMoves
  <2>3. \A e : e = d => Justified(e, "evidence_recorded")'
    BY <1>10, <2>1 DEF Justified
  <2> QED BY <1>8, <1>10, <2>1, <2>2, <2>3 DEF Final
<1>11. ASSUME NEW h \in Receivers, PrepareEnvelope(h), UNCHANGED source PROVE DeliveriesStep
  <2> DEFINE new == [receiver[h] EXCEPT !.stage = "prepared", !.stamp = instant]
  <2>1. new \in ReceiverRecord /\ new.stage = "prepared" /\ new.delivery = receiver[h].delivery
    BY <1>1 DEF ReceiverRecord
  <2>2. /\ ReceiverTo(h, new) /\ receiver[h].stage = "reserved"
        /\ UNCHANGED <<outcome, reservation, admittedBy, evidence, instant, told>>
    BY <1>11 DEF PrepareEnvelope, At
  <2>3. receiver[h].delivery \in Deliveries /\ outcome[receiver[h].delivery] # "none"
    BY <2>2 DEF GithubInv
  <2> HIDE DEF new
  <2>4. GoesOn(h, new)
    BY <2>1, <2>2, <2>3 DEF GoesOn
  <2> QED BY <1>2, <1>4, <1>11, <2>1, <2>2, <2>4
<1>12. ASSUME NEW h \in Receivers, AdmitDelivery(h), UNCHANGED source PROVE DeliveriesStep
  <2> DEFINE d == receiver[h].delivery
             m == source[d]
  <2>1. /\ receiver[h].stage # "idle" /\ m \in Comments /\ UNCHANGED evidence
        /\ d \in Deliveries
    BY <1>12 DEF AdmitDelivery, At, GithubInv
  <2>2. Envelope(h).delivery = d /\ Envelope(h) # NoEnvelope
    BY <2>1, DeliveriesAreNamed DEF Envelope, NoEnvelope
  <2>3. CASE /\ admittedBy[m] = NoEnvelope
             /\ admittedBy' = [admittedBy EXCEPT ![m] = Envelope(h)]
             /\ Decides(h, "accepted")
    <3>1. UNCHANGED outcome /\ GithubMoves
      BY <1>1, <1>12, <2>1, <2>3 DEF GithubMoves, Decides
    <3>2. admittedBy'[m].delivery = d
      BY <1>1, <2>1, <2>2, <2>3
    <3>3. \A e : e = d => Justified(e, "accepted")'
      BY <1>12, <2>1, <3>2 DEF Justified
    <3> QED BY <1>8, <1>12, <2>1, <2>3, <3>1, <3>3 DEF Final
  <2>4. CASE SameEnvelope(m, Envelope(h)) /\ Decides(h, "accepted") /\ UNCHANGED admittedBy
    <3>1. \A e : e = d => Justified(e, "accepted")'
      BY <1>12, <2>1, <2>2, <2>4 DEF Justified, SameEnvelope
    <3> QED BY <1>2, <1>8, <1>12, <2>1, <2>4, <3>1 DEF Final, Decides
  <2>5. CASE admittedBy[m] # NoEnvelope /\ Decides(h, "admission_conflict") /\ UNCHANGED admittedBy
    <3>1. \A e : e = d => Justified(e, "admission_conflict")'
      BY <1>12, <2>1, <2>5 DEF Justified
    <3> QED BY <1>2, <1>8, <1>12, <2>1, <2>5, <3>1 DEF Final, Decides
  <2> QED BY <1>12, <2>3, <2>4, <2>5 DEF AdmitDelivery
<1>13. ASSUME NEW h \in Receivers, CompleteDelivery(h), UNCHANGED source PROVE DeliveriesStep
  <2> DEFINE d == receiver[h].delivery
             result == receiver[h].result
  <2>1. /\ receiver[h].stage = "decided" /\ outcome[d] = "processing"
        /\ d \in Deliveries /\ result \in Final
    BY <1>13 DEF CompleteDelivery, Completes, GithubInv
  <2>2. /\ outcome' = [outcome EXCEPT ![d] = result] /\ told' = [told EXCEPT ![d] = told[d] \union {result}]
        /\ ReceiverTo(h, Waiting) /\ UNCHANGED <<reservation, admittedBy, evidence, instant>>
    BY <1>1, <1>13 DEF CompleteDelivery, Tell
  <2>3. GithubMoves
    BY <1>1, <1>13, <2>1, <2>2 DEF GithubMoves, Final
  <2>4. GoesOn(h, Waiting)
    BY <1>3, <2>2 DEF GoesOn
  <2> QED BY <1>1, <1>3, <1>13, <2>1, <2>2, <2>3, <2>4 DEF DeliveriesStep
<1>14. ASSUME NEW h \in Receivers, NEW d \in Deliveries, ReserveDelivery(h, d) PROVE DeliveriesStep
  <2> DEFINE token == reservation[d].token + 1
             new == [Waiting EXCEPT !.stage = "reserved", !.delivery = d, !.token = token]
             row == [token |-> token, expires |-> instant + ProcessingLease]
  <2>1. /\ outcome[d] \in {"none", "processing"}
        /\ outcome' = [outcome EXCEPT ![d] = "processing"]
        /\ reservation' = [reservation EXCEPT ![d] = row] /\ ReceiverTo(h, new)
        /\ UNCHANGED <<admittedBy, evidence, instant, told>>
    BY <1>14 DEF ReserveDelivery, MayReserveDelivery
  <2>2. /\ source' \in [Deliveries -> Events \union {"none"}]
        /\ \A e \in Deliveries : outcome[e] # "none" => source'[e] = source[e]
    BY <1>1, <1>14 DEF ReserveDelivery
  <2>3. token \in Int /\ row \in [token : Int, expires : Int]
    BY <1>1, ReservationsExpire
  <2>4. new \in ReceiverRecord /\ new.stage = "reserved" /\ new.delivery = d
    <3> HIDE DEF token
    <3>1. Waiting \in ReceiverRecord /\ d \in Deliveries
      BY <1>3
    <3>2. new \in ReceiverRecord
      BY <2>3, <3>1 DEF ReceiverRecord
    <3>3. new.stage = "reserved" /\ new.delivery = d
      BY <3>1 DEF ReceiverRecord
    <3> QED BY <3>2, <3>3
  <2> HIDE DEF token, new, row
  <2>5. GithubMoves
    BY <1>1, <2>1, <2>2 DEF GithubMoves
  <2>6. GoesOn(h, new)
    BY <1>1, <2>1, <2>4 DEF GoesOn
  <2> QED BY <1>1, <2>1, <2>2, <2>3, <2>4, <2>5, <2>6 DEF DeliveriesStep
<1>15. CASE \E h \in Receivers, d \in Deliveries : ReserveDelivery(h, d)
  BY <1>14, <1>15
<1>16. CASE UNCHANGED source /\ \E h \in Receivers :
               \/ RefuseEvent(h) \/ RecordEvidence(h) \/ FindNotReady(h)
               \/ PrepareEnvelope(h) \/ AdmitDelivery(h)
               \/ CompleteDelivery(h) \/ LoseReservation(h) \/ StopReceiving(h)
  BY <1>7, <1>9, <1>10, <1>11, <1>12, <1>13, <1>16
<1>17. CASE UNCHANGED source /\ \E d \in Deliveries : ReplayOutcome(d)
  BY <1>6, <1>17
<1>18. CASE UNCHANGED githubVars
  BY <1>1, <1>2, <1>18 DEF githubVars, DeliveriesStep
<1>19. CASE GithubNext
  BY <1>5, <1>15, <1>16, <1>17, <1>19 DEF GithubNext
<1> QED BY <1>18, <1>19

LEMMA GithubInvStep == GithubInv /\ [GithubNext]_githubVars => GithubInv'
<1> SUFFICES ASSUME GithubInv, [GithubNext]_githubVars PROVE GithubInv'
  OBVIOUS
<1>1. GithubShape
  BY DEF GithubInv
<1>2. DeliveriesStep
  BY DeliveriesMove
<1>3. ASSUME NEW d \in Deliveries
      PROVE  /\ Justified(d, outcome[d])' /\ told'[d] \subseteq {outcome'[d]}
             /\ outcome'[d] \in {"none", "processing"} => told'[d] = {}
  <2>1. /\ told[d] \subseteq {outcome[d]} /\ (outcome[d] \in {"none", "processing"} => told[d] = {})
        /\ Justified(d, outcome[d])
    BY DEF GithubInv
  <2>2. /\ outcome'[d] # outcome[d] => outcome[d] \in {"none", "processing"}
        /\ told'[d] # told[d] => told'[d] = told[d] \union {outcome'[d]} /\ outcome'[d] \in Final
        /\ outcome'[d] # outcome[d] /\ outcome'[d] # "processing" =>
              \E h \in Receivers : /\ receiver[h].stage = "decided" /\ receiver[h].delivery = d
                                   /\ outcome'[d] = receiver[h].result
    BY <1>2 DEF DeliveriesStep
  <2>3. GithubMoves
    BY <1>2 DEF DeliveriesStep
  <2>4. Justified(d, outcome[d])'
    <3>1. PICK result : result = outcome'[d]
      OBVIOUS
    <3>2. CASE result \in {"none", "processing"}
      BY <3>1, <3>2 DEF Justified
    <3>3. CASE result \notin {"none", "processing"} /\ result = outcome[d]
      <4>1. Justified(d, result)'
        BY <2>1, <2>3, <3>3, JustifiedStays
      <4> QED BY <3>1, <4>1 DEF Justified
    <3>4. CASE result \notin {"none", "processing"} /\ result # outcome[d]
      <4>1. Justified(d, result) /\ outcome[d] # "none"
        BY <2>2, <3>1, <3>4 DEF GithubInv
      <4>2. Justified(d, result)'
        BY <2>3, <4>1, JustifiedStays
      <4> QED BY <3>1, <4>2 DEF Justified
    <3> QED BY <3>2, <3>3, <3>4
  <2>5. told'[d] \subseteq {outcome'[d]} /\ (outcome'[d] \in {"none", "processing"} => told'[d] = {})
    BY <2>1, <2>2 DEF Final
  <2> QED BY <2>4, <2>5
<1>4. GithubShape'
  BY <1>1, <1>2, ReceiversStep DEF GithubShape, DeliveriesStep, GithubMoves
<1>5. \A h \in Receivers : receiver'[h].stage # "idle" =>
        /\ receiver'[h].delivery \in Deliveries /\ outcome'[receiver'[h].delivery] # "none"
        /\ receiver'[h].stage = "decided" =>
             receiver'[h].result \in Final /\ Justified(receiver[h].delivery, receiver[h].result)'
  BY <1>2, ReceiversStep DEF DeliveriesStep
<1> QED BY <1>3, <1>4, <1>5 DEF GithubInv

LEMMA GithubInitInv == GithubInit => GithubInv
BY ReservationsExpire
DEF GithubInit, GithubInv, GithubShape, Justified, Waiting, Unreserved, ReceiverRecord, Events

\* What GitHub was answered stays what is recorded, for any number of deliveries
\* and handlers, whoever outlives a lease and whoever takes over.
THEOREM AnswersStand == GithubSpec => []AnsweredOnce
<1>1. GithubInv => AnsweredOnce
  BY DEF GithubInv, AnsweredOnce
<1> QED BY <1>1, GithubInitInv, GithubInvStep, PTL DEF GithubSpec

\* An accepted delivery is the one its comment's run was admitted from; conflicts
\* and evidence are accounted for.
THEOREM AdmissionsAccounted == GithubSpec => []AdmissionAccounted
<1>1. GithubInv => AdmissionAccounted
  BY DEF GithubInv, Justified, AdmissionAccounted
<1> QED BY <1>1, GithubInitInv, GithubInvStep, PTL DEF GithubSpec

\* Of the deliveries of one comment at most one was ever accepted
\* (modules/github): the one its run was admitted from, whichever handlers
\* decided on them at the same time.
OneAccepted ==
    \A d, e \in Deliveries :
        outcome[d] = "accepted" /\ outcome[e] = "accepted" /\ source[d] = source[e] => d = e

\* A comment makes one run, although GitHub delivers it again under other ids.
THEOREM OneDeliveryAccepted == GithubSpec => []OneAccepted
<1>1. GithubInv => OneAccepted
  BY DEF GithubInv, Justified, OneAccepted
<1> QED BY <1>1, GithubInitInv, GithubInvStep, PTL DEF GithubSpec

\* A final outcome, the event of a reserved delivery, the envelope a comment was
\* admitted from and the evidence recorded are never exchanged, nor is GitHub
\* told anything back.
OutcomesStay ==
    [][/\ \A d \in Deliveries :
            /\ outcome[d] \in Final => outcome'[d] = outcome[d]
            /\ outcome[d] # "none" => source'[d] = source[d]
            /\ told[d] \subseteq told'[d]
       /\ \A m \in Comments : admittedBy[m] # NoEnvelope => admittedBy'[m] = admittedBy[m]
       /\ evidence \subseteq evidence']_githubVars

\* What was once settled of a delivery, or told of it, stands from then on.
THEOREM OutcomesStand == GithubSpec => OutcomesStay
<1>1. ASSUME GithubInv, [GithubNext]_githubVars
      PROVE  /\ \A d \in Deliveries :
                  /\ outcome[d] \in Final => outcome'[d] = outcome[d]
                  /\ outcome[d] # "none" => source'[d] = source[d]
                  /\ told[d] \subseteq told'[d]
             /\ \A m \in Comments : admittedBy[m] # NoEnvelope => admittedBy'[m] = admittedBy[m]
             /\ evidence \subseteq evidence'
  BY <1>1, DeliveriesMove DEF DeliveriesStep, GithubMoves, Final
<1>2. GithubInv /\ [GithubNext]_githubVars =>
        [/\ \A d \in Deliveries :
              /\ outcome[d] \in Final => outcome'[d] = outcome[d]
              /\ outcome[d] # "none" => source'[d] = source[d]
              /\ told[d] \subseteq told'[d]
         /\ \A m \in Comments : admittedBy[m] # NoEnvelope => admittedBy'[m] = admittedBy[m]
         /\ evidence \subseteq evidence']_githubVars
  BY <1>1
<1> QED BY <1>2, GithubInitInv, GithubInvStep, PTL DEF GithubSpec, OutcomesStay

-----------------------------------------------------------------------------
(* Admission batches *)

ResultList == [Items -> Outcomes \union {"none"}]
BatchRecord ==
    [status : {"none", "processing", "completed"}, owner : Admitters \union {NoOwner},
     left : 0..BatchLease, result : ResultList]
ItemRecord ==
    [status : {"pending", "processing", "completed"}, owner : Admitters \union {NoOwner},
     left : 0..BatchLease, result : Outcomes \union {"none"}]
AdmitterRecord ==
    [at : {"new", "next", "admit", "admitted", "record", "finalize", "done"},
     on : Items \union {0}, results : ResultList]

Gathers == {"next", "admit", "admitted", "record", "finalize"}
OnItem == {"admit", "admitted", "record"}
ByRun == {"created", "idempotent_replay"}

BatchShape ==
    /\ batch \in BatchRecord
    /\ item \in [Items -> ItemRecord]
    /\ admitter \in [Admitters -> AdmitterRecord]
    /\ runMade \subseteq Items
    /\ \A h \in Admitters : admitter[h].at \in OnItem => admitter[h].on \in Items

\* The request k has gathered what the items recorded, but for the result of
\* the item it is about to record.
Agrees(k, i) ==
    k.results[i] = item[i].result \/ (k.at \in {"admitted", "record"} /\ k.on = i)

\* Only the request that owns the batch answers for its items; a result that
\* tells of a run has it.
BatchInv ==
    /\ BatchShape
    /\ \A i \in Items :
         /\ item[i].result \in ByRun => i \in runMade
         /\ \A h \in Admitters : admitter[h].results[i] \in ByRun => i \in runMade
    /\ batch.status = "processing" =>
         /\ batch.owner \in Admitters
         /\ admitter[batch.owner].at # "new"
         /\ admitter[batch.owner].at \in Gathers => \A i \in Items : Agrees(admitter[batch.owner], i)
    /\ BatchTellsItsItems

\* One request goes on, and no run is unmade.
LEMMA OneAdmitter ==
    ASSUME BatchInv, NEW h \in Admitters, NEW new \in AdmitterRecord,
           admitter' = [admitter EXCEPT ![h] = new], runMade \subseteq runMade',
           new.at \in OnItem => new.on \in Items,
           \A i \in Items : new.results[i] \in ByRun => i \in runMade'
    PROVE  /\ admitter' \in [Admitters -> AdmitterRecord]
           /\ \A g \in Admitters : admitter'[g] = IF g = h THEN new ELSE admitter[g]
           /\ \A g \in Admitters : admitter'[g].at \in OnItem => admitter'[g].on \in Items
           /\ \A g \in Admitters, i \in Items : admitter'[g].results[i] \in ByRun => i \in runMade'
<1>1. /\ admitter' \in [Admitters -> AdmitterRecord]
      /\ \A g \in Admitters : admitter'[g] = IF g = h THEN new ELSE admitter[g]
  BY DEF BatchInv, BatchShape
<1>2. \A g \in Admitters : admitter[g].at \in OnItem => admitter[g].on \in Items
  BY DEF BatchInv, BatchShape
<1>3. \A g \in Admitters, i \in Items : admitter[g].results[i] \in ByRun => i \in runMade'
  BY DEF BatchInv
<1> QED BY <1>1, <1>2, <1>3

\* A step that changes neither what the batch and its items record nor who owns
\* the batch.
LEMMA RecordsKept ==
    ASSUME BatchInv, NEW h \in Admitters, NEW new \in AdmitterRecord,
           admitter' = [admitter EXCEPT ![h] = new], runMade \subseteq runMade', runMade' \subseteq Items,
           new.at \in OnItem => new.on \in Items,
           \A i \in Items : new.results[i] \in ByRun => i \in runMade',
           new.at # "new",
           batch.status = "processing" /\ batch.owner = h /\ new.at \in Gathers =>
             \A i \in Items : Agrees(new, i),
           batch' \in BatchRecord, item' \in [Items -> ItemRecord],
           batch'.status = batch.status, batch'.owner = batch.owner, batch'.result = batch.result,
           \A i \in Items : item'[i].status = item[i].status /\ item'[i].result = item[i].result
    PROVE  BatchInv'
<1>1. /\ admitter' \in [Admitters -> AdmitterRecord]
      /\ \A g \in Admitters : admitter'[g] = IF g = h THEN new ELSE admitter[g]
      /\ \A g \in Admitters : admitter'[g].at \in OnItem => admitter'[g].on \in Items
      /\ \A g \in Admitters, i \in Items : admitter'[g].results[i] \in ByRun => i \in runMade'
  BY OneAdmitter
<1>2. BatchShape'
  BY <1>1 DEF BatchShape
<1>3. \A i \in Items : item'[i].result \in ByRun => i \in runMade'
  BY DEF BatchInv
<1>4. ASSUME batch'.status = "processing"
      PROVE  /\ batch'.owner \in Admitters /\ admitter'[batch'.owner].at # "new"
             /\ admitter'[batch'.owner].at \in Gathers =>
                  \A i \in Items : Agrees(admitter[batch.owner], i)'
  <2>1. /\ batch.owner \in Admitters /\ admitter[batch.owner].at # "new"
        /\ admitter[batch.owner].at \in Gathers => \A i \in Items : Agrees(admitter[batch.owner], i)
    BY <1>4 DEF BatchInv
  <2>2. CASE batch.owner = h
    BY <1>1, <1>4, <2>1, <2>2 DEF Agrees
  <2>3. CASE batch.owner # h
    BY <1>1, <1>4, <2>1, <2>3 DEF Agrees
  <2> QED BY <2>2, <2>3
<1>5. BatchTellsItsItems'
  BY DEF BatchInv, BatchTellsItsItems
<1> QED BY <1>1, <1>2, <1>3, <1>4, <1>5 DEF BatchInv

\* A step of the request that owns the batch, or comes to.
LEMMA OwnerGoesOn ==
    ASSUME BatchInv, NEW h \in Admitters, NEW new \in AdmitterRecord,
           admitter' = [admitter EXCEPT ![h] = new], UNCHANGED runMade,
           new.at \in OnItem => new.on \in Items,
           \A i \in Items : new.results[i] \in ByRun => i \in runMade,
           new.at # "new",
           batch' \in BatchRecord, item' \in [Items -> ItemRecord],
           batch'.status = "processing", batch'.owner = h,
           \A i \in Items : item'[i].result = new.results[i]
    PROVE  BatchInv'
<1>1. /\ admitter' \in [Admitters -> AdmitterRecord]
      /\ \A g \in Admitters : admitter'[g] = IF g = h THEN new ELSE admitter[g]
      /\ \A g \in Admitters : admitter'[g].at \in OnItem => admitter'[g].on \in Items
      /\ \A g \in Admitters, i \in Items : admitter'[g].results[i] \in ByRun => i \in runMade'
  BY OneAdmitter
<1>2. BatchShape' /\ BatchTellsItsItems'
  BY <1>1 DEF BatchInv, BatchShape, BatchTellsItsItems
<1>3. \A i \in Items : Agrees(admitter[batch.owner], i)'
  BY <1>1 DEF Agrees
<1> QED BY <1>1, <1>2, <1>3 DEF BatchInv

LEMMA LeastItem ==
    ASSUME NEW S \in SUBSET Items, S # {}
    PROVE  Min(S) \in S
<1>1. S \subseteq Nat
  BY BatchAssumption DEF Items
<1>2. PICK x \in S : \A y \in S : ~ (<<y, x>> \in OpToRel(<, Nat))
  BY <1>1, NatLessThanWellFounded, WFMin
<1>3. \A y \in S : ~(y < x)
  BY <1>1, <1>2 DEF OpToRel
<1>4. \A y \in S : x =< y
  BY <1>1, <1>3
<1> QED BY <1>4 DEF Min

LEMMA BatchInvStep == BatchInv /\ [BatchNext]_batchVars => BatchInv'
<1> SUFFICES ASSUME BatchInv, [BatchNext]_batchVars PROVE BatchInv'
  OBVIOUS
<1>1. /\ BatchShape /\ batch \in BatchRecord /\ item \in [Items -> ItemRecord]
      /\ admitter \in [Admitters -> AdmitterRecord]
      /\ \A i \in Items : item[i] \in ItemRecord
      /\ \A h \in Admitters : /\ admitter[h] \in AdmitterRecord
                              /\ admitter[h].at \in OnItem => admitter[h].on \in Items
      /\ runMade \subseteq Items /\ BatchLease \in Nat /\ BatchLease \in 0..BatchLease /\ 0 \in 0..BatchLease
  BY BatchAssumption DEF BatchInv, BatchShape
<1>2. \A i \in Items : /\ item[i].result \in ByRun => i \in runMade
                       /\ \A h \in Admitters : admitter[h].results[i] \in ByRun => i \in runMade
  BY DEF BatchInv
<1>3. ASSUME NEW h \in Admitters, HoldsBatch(h)
      PROVE  /\ batch.status = "processing" /\ batch.owner = h
             /\ admitter[h].at \in Gathers => \A i \in Items : Agrees(admitter[h], i)
  BY <1>3 DEF HoldsBatch, BatchInv
<1>4. ASSUME UNCHANGED <<admitter, runMade>>, batch' \in BatchRecord, item' \in [Items -> ItemRecord],
             batch'.status = batch.status, batch'.owner = batch.owner, batch'.result = batch.result,
             \A i \in Items : item'[i].status = item[i].status /\ item'[i].result = item[i].result
      PROVE  BatchInv'
  BY <1>1, <1>2, <1>4 DEF BatchInv, BatchShape, Agrees, BatchTellsItsItems
<1>5. LET renewed == [batch EXCEPT !.left = BatchLease] IN
      /\ renewed \in BatchRecord /\ renewed.status = batch.status /\ renewed.owner = batch.owner
      /\ renewed.result = batch.result
  BY <1>1 DEF BatchRecord
\* Only the stage of a request changes.
<1>6. ASSUME NEW h \in Admitters, NEW stage \in {"done", "record", "finalize"}, AdmitterTo(h, stage),
             stage = "record" => admitter[h].at = "admitted",
             stage = "finalize" => admitter[h].at = "next",
             UNCHANGED runMade, batch' \in BatchRecord, item' \in [Items -> ItemRecord],
             batch'.status = batch.status, batch'.owner = batch.owner, batch'.result = batch.result,
             \A i \in Items : item'[i].status = item[i].status /\ item'[i].result = item[i].result
      PROVE  BatchInv'
  <2>1. PICK new : new = [admitter[h] EXCEPT !.at = stage]
    OBVIOUS
  <2>2. /\ new \in AdmitterRecord /\ new.at = stage /\ new.on = admitter[h].on
        /\ new.results = admitter[h].results /\ admitter' = [admitter EXCEPT ![h] = new]
    BY <1>1, <1>6, <2>1 DEF AdmitterRecord, AdmitterTo
  <2>3. batch.status = "processing" /\ batch.owner = h /\ admitter[h].at \in Gathers =>
          \A i \in Items : Agrees(admitter[h], i)
    BY DEF BatchInv
  <2>4. batch.status = "processing" /\ batch.owner = h /\ new.at \in Gathers =>
          \A i \in Items : Agrees(new, i)
    BY <1>6, <2>2, <2>3 DEF Agrees, Gathers
  <2>5. new.at \in OnItem => new.on \in Items
    BY <1>1, <1>6, <2>2 DEF OnItem
  <2> QED BY <1>1, <1>2, <1>6, <2>2, <2>4, <2>5, RecordsKept
<1>7. ASSUME NEW h \in Admitters, Ends(h) PROVE BatchInv'
  BY <1>1, <1>6, <1>7 DEF Ends
<1>8. ASSUME NEW h \in Admitters, RenewLeases(h), admitter[h].on \in Items
      PROVE  /\ batch' \in BatchRecord /\ item' \in [Items -> ItemRecord]
             /\ batch'.status = batch.status /\ batch'.owner = batch.owner /\ batch'.result = batch.result
             /\ \A i \in Items : item'[i].status = item[i].status /\ item'[i].result = item[i].result
  <2>1. PICK row : row = [item[admitter[h].on] EXCEPT !.left = BatchLease]
    OBVIOUS
  <2>2. /\ row \in ItemRecord /\ row.status = item[admitter[h].on].status
        /\ row.result = item[admitter[h].on].result
    BY <1>1, <1>8, <2>1 DEF ItemRecord
  <2>3. item' = [item EXCEPT ![admitter[h].on] = row]
    BY <1>1, <1>8, <2>1 DEF RenewLeases
  <2> QED BY <1>1, <1>5, <1>8, <2>2, <2>3 DEF RenewLeases
<1>9. ASSUME NEW h \in Admitters, BeginBatch(h) PROVE BatchInv'
  <2>1. PICK new : new = [at |-> "next", on |-> 0, results |-> [i \in Items |-> item[i].result]]
    OBVIOUS
  <2>2. \A i \in Items : item[i].result \in Outcomes \union {"none"}
    BY <1>1 DEF ItemRecord
  <2>3. /\ new \in AdmitterRecord /\ new.at = "next"
        /\ \A i \in Items : new.results[i] = item[i].result
    BY <2>1, <2>2 DEF AdmitterRecord, ResultList
  <2>4. /\ batch' = [batch EXCEPT !.status = "processing", !.owner = h, !.left = BatchLease]
        /\ admitter' = [admitter EXCEPT ![h] = new] /\ UNCHANGED <<item, runMade>>
    BY <1>9, <2>1 DEF BeginBatch
  <2>5. batch' \in BatchRecord /\ batch'.status = "processing" /\ batch'.owner = h
    BY <1>1, <2>4 DEF BatchRecord
  <2> QED BY <1>1, <1>2, <2>3, <2>4, <2>5, OwnerGoesOn DEF OnItem
<1>10. ASSUME NEW h \in Admitters, ClaimItem(h) PROVE BatchInv'
  <2> DEFINE i == Min(Remaining(h))
  <2>1. i \in Items /\ admitter[h].results[i] = "none" /\ admitter[h].at = "next"
    <3>1. Remaining(h) \in SUBSET Items /\ Remaining(h) # {}
      BY <1>10 DEF ClaimItem, Remaining
    <3> QED BY <1>10, <3>1, LeastItem DEF ClaimItem, Remaining
  <2>2. PICK row : row = [status |-> "processing", owner |-> h, left |-> BatchLease, result |-> "none"]
    OBVIOUS
  <2>3. row \in ItemRecord /\ row.result = "none"
    BY <1>1, <2>2 DEF ItemRecord
  <2>4. CASE Ends(h)
    BY <1>7, <2>4
  <2>5. CASE /\ HoldsBatch(h) /\ batch' = [batch EXCEPT !.left = BatchLease]
             /\ item' = [item EXCEPT ![i] = row] /\ UNCHANGED runMade
             /\ admitter' = [admitter EXCEPT ![h].at = "admit", ![h].on = i]
    <3>1. PICK new : new = [admitter[h] EXCEPT !.at = "admit", !.on = i]
      OBVIOUS
    <3>2. /\ new \in AdmitterRecord /\ new.at = "admit" /\ new.on = i
          /\ new.results = admitter[h].results /\ admitter' = [admitter EXCEPT ![h] = new]
      BY <1>1, <2>1, <2>5, <3>1 DEF AdmitterRecord
    <3>3. \A k \in Items : admitter[h].results[k] = item[k].result
      BY <1>3, <2>1, <2>5 DEF Agrees, Gathers
    <3>4. /\ item' \in [Items -> ItemRecord]
          /\ \A k \in Items : item'[k] = IF k = i THEN row ELSE item[k]
      BY <1>1, <2>1, <2>3, <2>5
    <3>5. \A k \in Items : item'[k].result = new.results[k]
      BY <2>1, <2>3, <3>2, <3>3, <3>4
    <3>6. batch' \in BatchRecord /\ batch'.status = "processing" /\ batch'.owner = h
      BY <1>3, <1>5, <2>5
    <3>7. \A k \in Items : new.results[k] \in ByRun => k \in runMade
      BY <1>2, <3>2
    <3>8. UNCHANGED runMade /\ (new.at \in OnItem => new.on \in Items) /\ new.at # "new"
      BY <2>1, <2>5, <3>2
    <3> HIDE DEF i
    <3> QED BY <3>2, <3>4, <3>5, <3>6, <3>7, <3>8, OwnerGoesOn
  <2> QED BY <1>10, <2>2, <2>4, <2>5 DEF ClaimItem
<1>11. ASSUME NEW h \in Admitters, AdmitItem(h) PROVE BatchInv'
  <2> DEFINE i == admitter[h].on
  <2>1. i \in Items /\ admitter[h].at = "admit" /\ UNCHANGED <<batch, item>>
    BY <1>1, <1>11 DEF AdmitItem, OnItem
  <2>2. PICK result \in Outcomes :
          /\ admitter' = [admitter EXCEPT ![h].at = "admitted", ![h].results = [@ EXCEPT ![i] = result]]
          /\ runMade \subseteq runMade' /\ runMade' \subseteq runMade \union {i} /\ (result \in ByRun => i \in runMade')
    BY <1>11 DEF AdmitItem, Outcomes, ByRun
  <2>3. PICK results : results = [admitter[h].results EXCEPT ![i] = result]
    OBVIOUS
  <2>4. /\ results \in ResultList
        /\ \A k \in Items : results[k] = IF k = i THEN result ELSE admitter[h].results[k]
    BY <1>1, <2>1, <2>3 DEF AdmitterRecord, ResultList
  <2>5. PICK new : new = [admitter[h] EXCEPT !.at = "admitted", !.results = results]
    OBVIOUS
  <2>6. /\ new \in AdmitterRecord /\ new.at = "admitted" /\ new.on = i /\ new.results = results
    BY <1>1, <2>4, <2>5 DEF AdmitterRecord
  <2>7. admitter' = [admitter EXCEPT ![h] = new]
    BY <1>1, <2>2, <2>3, <2>5
  <2>8. batch.status = "processing" /\ batch.owner = h =>
          \A k \in Items : k # i => admitter[h].results[k] = item[k].result
    BY <2>1 DEF BatchInv, Agrees, Gathers
  <2>9. \A k \in Items : new.results[k] \in ByRun => k \in runMade'
    BY <1>2, <2>2, <2>4, <2>6
  <2>10. batch.status = "processing" /\ batch.owner = h => \A k \in Items : Agrees(new, k)
    BY <2>4, <2>6, <2>8 DEF Agrees
  <2>11. /\ batch' \in BatchRecord /\ item' \in [Items -> ItemRecord]
         /\ batch'.status = batch.status /\ batch'.owner = batch.owner /\ batch'.result = batch.result
         /\ \A k \in Items : item'[k].status = item[k].status /\ item'[k].result = item[k].result
    BY <1>1, <2>1
  <2>12. /\ runMade \subseteq runMade' /\ runMade' \subseteq Items
         /\ (new.at \in OnItem => new.on \in Items) /\ new.at # "new"
    BY <1>1, <2>1, <2>2, <2>6
  <2> HIDE DEF i
  <2> QED BY <2>6, <2>7, <2>9, <2>10, <2>11, <2>12, RecordsKept
<1>12. ASSUME NEW h \in Admitters, HeartbeatItem(h) PROVE BatchInv'
  BY <1>1, <1>4, <1>8, <1>12 DEF HeartbeatItem, OnItem
<1>13. ASSUME NEW h \in Admitters, LastHeartbeat(h) PROVE BatchInv'
  <2>1. admitter[h].at = "admitted" /\ admitter[h].on \in Items
    BY <1>1, <1>13 DEF LastHeartbeat, OnItem
  <2>2. CASE RenewLeases(h) /\ AdmitterTo(h, "record") /\ UNCHANGED runMade
    BY <1>6, <1>8, <2>1, <2>2
  <2> QED BY <1>7, <1>13, <2>2 DEF LastHeartbeat
<1>14. ASSUME NEW h \in Admitters, RecordItem(h) PROVE BatchInv'
  <2> DEFINE i == admitter[h].on
  <2>1. i \in Items /\ admitter[h].at = "record"
    BY <1>1, <1>14 DEF RecordItem, OnItem
  <2>2. PICK row : row = [status |-> "completed", owner |-> NoOwner, left |-> 0,
                         result |-> admitter[h].results[i]]
    OBVIOUS
  <2>3. row \in ItemRecord /\ row.result = admitter[h].results[i]
    BY <1>1, <2>1, <2>2 DEF ItemRecord, AdmitterRecord, ResultList
  <2>4. CASE Ends(h)
    BY <1>7, <2>4
  <2>5. CASE /\ MayRecord(h) /\ item' = [item EXCEPT ![i] = row] /\ AdmitterTo(h, "next")
             /\ UNCHANGED <<batch, runMade>>
    <3>1. PICK new : new = [admitter[h] EXCEPT !.at = "next"]
      OBVIOUS
    <3>2. /\ new \in AdmitterRecord /\ new.at = "next" /\ new.results = admitter[h].results
          /\ admitter' = [admitter EXCEPT ![h] = new]
      BY <1>1, <2>5, <3>1 DEF AdmitterRecord, AdmitterTo
    <3>3. /\ batch.status = "processing" /\ batch.owner = h
          /\ \A k \in Items : k # i => admitter[h].results[k] = item[k].result
      BY <1>3, <2>1, <2>5 DEF MayRecord, Agrees, Gathers
    <3>4. /\ item' \in [Items -> ItemRecord]
          /\ \A k \in Items : item'[k] = IF k = i THEN row ELSE item[k]
      BY <1>1, <2>1, <2>3, <2>5
    <3>5. \A k \in Items : item'[k].result = new.results[k]
      BY <2>1, <2>3, <3>2, <3>3, <3>4
    <3>6. /\ \A k \in Items : new.results[k] \in ByRun => k \in runMade
          /\ new.at \notin OnItem
      BY <1>2, <3>2 DEF OnItem
    <3>7. batch' \in BatchRecord /\ batch'.status = "processing" /\ batch'.owner = h
      BY <1>1, <2>5, <3>3
    <3> HIDE DEF i
    <3> QED BY <2>5, <3>2, <3>4, <3>5, <3>6, <3>7, OwnerGoesOn
  <2> QED BY <1>14, <2>2, <2>4, <2>5 DEF RecordItem
<1>15. ASSUME NEW h \in Admitters, FinalRenewal(h) PROVE BatchInv'
  <2>1. CASE /\ admitter[h].at = "next" /\ batch' = [batch EXCEPT !.left = BatchLease]
             /\ AdmitterTo(h, "finalize") /\ UNCHANGED <<item, runMade>>
    BY <1>1, <1>5, <1>6, <2>1
  <2> QED BY <1>7, <1>15, <2>1 DEF FinalRenewal
<1>16. ASSUME NEW h \in Admitters, FinalizeBatch(h) PROVE BatchInv'
  <2>1. CASE /\ HoldsBatch(h) /\ \A i \in Items : item[i].status = "completed"
             /\ batch' = [status |-> "completed", owner |-> NoOwner, left |-> 0, result |-> admitter[h].results]
             /\ AdmitterTo(h, "done") /\ UNCHANGED <<item, runMade>>
    <3>1. admitter[h].at = "finalize"
      BY <1>16 DEF FinalizeBatch
    <3>2. \A i \in Items : admitter[h].results[i] = item[i].result
      BY <1>3, <2>1, <3>1 DEF Agrees, Gathers
    <3>3. PICK new : new = [admitter[h] EXCEPT !.at = "done"]
      OBVIOUS
    <3>4. /\ new \in AdmitterRecord /\ new.at = "done" /\ new.results = admitter[h].results
          /\ admitter' = [admitter EXCEPT ![h] = new]
      BY <1>1, <2>1, <3>3 DEF AdmitterRecord, AdmitterTo
    <3>5. /\ admitter' \in [Admitters -> AdmitterRecord]
          /\ \A g \in Admitters : admitter'[g].at \in OnItem => admitter'[g].on \in Items
          /\ \A g \in Admitters, i \in Items : admitter'[g].results[i] \in ByRun => i \in runMade'
      BY <1>2, <2>1, <3>4, OneAdmitter DEF OnItem
    <3>6. batch' \in BatchRecord /\ batch'.status = "completed" /\ batch'.result = admitter[h].results
      BY <1>1, <2>1 DEF BatchRecord, AdmitterRecord
    <3>7. BatchTellsItsItems'
      BY <1>2, <2>1, <3>2, <3>6 DEF BatchTellsItsItems, ByRun
    <3> QED BY <1>1, <1>2, <2>1, <3>5, <3>6, <3>7 DEF BatchInv, BatchShape
  <2> QED BY <1>7, <1>16, <2>1 DEF FinalizeBatch
<1>17. CASE BatchTick
  <2> DEFINE Sooner(left) == IF left > 0 THEN left - 1 ELSE 0
  <2>1. /\ batch' = [batch EXCEPT !.left = Sooner(batch.left)]
        /\ item' = [i \in Items |-> [item[i] EXCEPT !.left = Sooner(item[i].left)]]
        /\ UNCHANGED <<admitter, runMade>>
    BY <1>17 DEF BatchTick
  <2>2. batch.left \in 0..BatchLease /\ \A i \in Items : item[i].left \in 0..BatchLease
    BY <1>1 DEF BatchRecord, ItemRecord
  <2>3. Sooner(batch.left) \in 0..BatchLease /\ \A i \in Items : Sooner(item[i].left) \in 0..BatchLease
    BY <1>1, <2>2
  <2> HIDE DEF Sooner
  <2>4. /\ batch' \in BatchRecord /\ batch'.status = batch.status /\ batch'.owner = batch.owner
        /\ batch'.result = batch.result
    BY <1>1, <2>1, <2>3 DEF BatchRecord
  <2>5. \A i \in Items : /\ item'[i] \in ItemRecord
                         /\ item'[i].status = item[i].status /\ item'[i].result = item[i].result
    BY <1>1, <2>1, <2>3 DEF ItemRecord
  <2>6. item' = [i \in Items |-> item'[i]]
    BY <2>1
  <2> QED BY <1>4, <2>1, <2>4, <2>5, <2>6
<1>18. CASE UNCHANGED batchVars
  BY <1>1, <1>4, <1>18 DEF batchVars
<1>19. ASSUME NEW h \in Admitters, AnswerPost(h) \/ StopAdmitting(h) PROVE BatchInv'
  BY <1>7, <1>19 DEF AnswerPost, StopAdmitting
<1> QED BY <1>9, <1>10, <1>11, <1>12, <1>13, <1>14, <1>15, <1>16, <1>17, <1>18, <1>19 DEF BatchNext

LEMMA BatchInitInv == BatchInit => BatchInv
<1> SUFFICES ASSUME BatchInit PROVE BatchInv
  OBVIOUS
<1>0. 0 \in 0..BatchLease
  BY BatchAssumption
<1>1. NoResults \in ResultList /\ \A i \in Items : NoResults[i] = "none"
  BY DEF NoResults, ResultList
<1>2. BatchShape
  BY <1>0, <1>1 DEF BatchInit, BatchShape, BatchRecord, ItemRecord, AdmitterRecord, NoOwner, OnItem
<1> QED BY <1>1, <1>2 DEF BatchInit, BatchInv, ByRun, BatchTellsItsItems

\* The result of a batch tells what its items recorded, for any number of items
\* and of requests, whichever of them lose their leases or come late.
THEOREM BatchTellsTrue == BatchSpec => []BatchTellsItsItems
<1>1. BatchInv => BatchTellsItsItems
  BY DEF BatchInv
<1> QED BY <1>1, BatchInitInv, BatchInvStep, PTL DEF BatchSpec

\* The lease of an item ends with the lease of its batch, and is of the same
\* request.
Nested(i) ==
    /\ item[i].left <= batch.left
    /\ item[i].left > 0 => /\ item[i].status = "processing" /\ batch.status = "processing"
                           /\ item[i].owner = batch.owner

Gathered(h) ==
    admitter[h].at \in {"admitted", "record"} => admitter[h].results[admitter[h].on] # "none"

LeaseInv ==
    /\ batch.status # "processing" => batch.left = 0
    /\ \A i \in Items : Nested(i) /\ (item[i].status = "completed" => item[i].result # "none")
    /\ \A h \in Admitters : Gathered(h)

\* Whoever holds the batch finds no item that another request still holds
\* (repository.ts, claimWorkstreamAdmissionBatchItem): the answer that an item
\* is in progress elsewhere is one no request ever gets.
NoItemTaken ==
    \A h \in Admitters, i \in Items : HoldsBatch(h) => ~ItemTaken(h, i)

\* What a step leaves alone: a completed batch, completed items, and runs.
BatchKeeps ==
    /\ batch.status = "completed" => batch' = batch
    /\ \A i \in Items : item[i].status = "completed" => item'[i] = item[i]
    /\ runMade \subseteq runMade'

LEMMA LeasesStep == BatchInv /\ LeaseInv /\ [BatchNext]_batchVars => LeaseInv' /\ BatchKeeps
<1> SUFFICES ASSUME BatchInv, LeaseInv, [BatchNext]_batchVars PROVE LeaseInv' /\ BatchKeeps
  OBVIOUS
<1>1. /\ batch \in BatchRecord /\ item \in [Items -> ItemRecord]
      /\ admitter \in [Admitters -> AdmitterRecord]
      /\ \A h \in Admitters : admitter[h] \in AdmitterRecord
      /\ \A h \in Admitters : admitter[h].at \in OnItem => admitter[h].on \in Items
      /\ BatchLease \in Nat \ {0}
  BY BatchAssumption DEF BatchInv, BatchShape
<1>2. batch.left \in 0..BatchLease /\ \A i \in Items : item[i].left \in 0..BatchLease
  BY <1>1 DEF BatchRecord, ItemRecord
<1>3. /\ batch.status # "processing" => batch.left = 0
      /\ \A i \in Items : Nested(i) /\ (item[i].status = "completed" => item[i].result # "none")
      /\ \A h \in Admitters : Gathered(h)
  BY DEF LeaseInv
\* One request goes on.
<1>4. ASSUME NEW h \in Admitters, NEW new, admitter' = [admitter EXCEPT ![h] = new],
             new.at \in {"admitted", "record"} => new.results[new.on] # "none"
      PROVE  \A g \in Admitters : Gathered(g)'
  <2>1. \A g \in Admitters : admitter'[g] = IF g = h THEN new ELSE admitter[g]
    BY <1>1, <1>4
  <2> QED BY <1>3, <1>4, <2>1 DEF Gathered
<1>5. ASSUME NEW h \in Admitters, NEW stage, AdmitterTo(h, stage),
             stage = "record" => admitter[h].at = "admitted", stage # "admitted"
      PROVE  \A g \in Admitters : Gathered(g)'
  <2> DEFINE new == [admitter[h] EXCEPT !.at = stage]
  <2>1. admitter' = [admitter EXCEPT ![h] = new]
    BY <1>1, <1>5 DEF AdmitterTo
  <2>2. new.at = stage /\ new.on = admitter[h].on /\ new.results = admitter[h].results
    BY <1>1 DEF AdmitterRecord
  <2>3. new.at \in {"admitted", "record"} => new.results[new.on] # "none"
    BY <1>3, <1>5, <2>2 DEF Gathered
  <2> HIDE DEF new
  <2> QED BY <1>4, <2>1, <2>3
\* The batch and its items stay as they are, ...
<1>6. ASSUME UNCHANGED <<batch, item>>, runMade \subseteq runMade', \A g \in Admitters : Gathered(g)'
      PROVE  LeaseInv' /\ BatchKeeps
  BY <1>3, <1>6 DEF LeaseInv, BatchKeeps, Nested
\* ... or the request that holds the batch renews it, and an item of its own.
<1>7. ASSUME NEW h \in Admitters, HoldsBatch(h), batch' = [batch EXCEPT !.left = BatchLease],
             UNCHANGED runMade, \A g \in Admitters : Gathered(g)',
             \A i \in Items : \/ item'[i] = item[i]
                              \/ /\ item[i].status # "completed" /\ item'[i].status = "processing"
                                 /\ item'[i].owner = h /\ item'[i].left = BatchLease
      PROVE  LeaseInv' /\ BatchKeeps
  <2>1. /\ batch.status = "processing" /\ batch'.status = "processing"
        /\ batch.owner = h /\ batch'.owner = h /\ batch'.left = BatchLease
    BY <1>1, <1>7 DEF HoldsBatch, BatchRecord
  <2>2. ASSUME NEW i \in Items
        PROVE  /\ item'[i].left <= BatchLease
               /\ item'[i].left > 0 => item'[i].status = "processing" /\ item'[i].owner = h
               /\ item'[i].status = "completed" => item'[i].result # "none"
               /\ item[i].status = "completed" => item'[i] = item[i]
    <3>1. CASE item'[i] = item[i]
      BY <1>2, <1>3, <2>1, <3>1 DEF Nested
    <3>2. CASE item'[i] # item[i]
      BY <1>1, <1>7, <3>2
    <3> QED BY <3>1, <3>2
  <2> QED BY <1>7, <2>1, <2>2 DEF LeaseInv, BatchKeeps, Nested
<1>8. ASSUME NEW h \in Admitters, Ends(h) PROVE LeaseInv' /\ BatchKeeps
  BY <1>5, <1>6, <1>8 DEF Ends
<1>9. ASSUME NEW h \in Admitters, HoldsBatch(h), HoldsItem(h), RenewLeases(h), UNCHANGED runMade,
             \A g \in Admitters : Gathered(g)', admitter[h].at \in OnItem
      PROVE  LeaseInv' /\ BatchKeeps
  <2>1. admitter[h].on \in Items
    BY <1>1, <1>9
  <2>2. \A i \in Items : item'[i] = IF i = admitter[h].on THEN [item[i] EXCEPT !.left = BatchLease] ELSE item[i]
    BY <1>1, <1>9, <2>1 DEF RenewLeases
  <2>3. item[admitter[h].on].status = "processing" /\ item[admitter[h].on].owner = h
    BY <1>9 DEF HoldsItem
  <2>4. \A i \in Items : LET row == [item[i] EXCEPT !.left = BatchLease] IN
          row.status = item[i].status /\ row.owner = item[i].owner /\ row.left = BatchLease
    BY <1>1 DEF ItemRecord
  <2>5. batch' = [batch EXCEPT !.left = BatchLease]
    BY <1>9 DEF RenewLeases
  <2>6. \A i \in Items : \/ item'[i] = item[i]
                         \/ /\ item[i].status # "completed" /\ item'[i].status = "processing"
                            /\ item'[i].owner = h /\ item'[i].left = BatchLease
    BY <2>2, <2>3, <2>4
  <2> QED BY <1>7, <1>9, <2>5, <2>6
<1>10. ASSUME NEW h \in Admitters, BeginBatch(h) PROVE LeaseInv' /\ BatchKeeps
  <2>1. /\ batch.status # "completed" /\ batch.left = 0
        /\ batch' = [batch EXCEPT !.status = "processing", !.owner = h, !.left = BatchLease]
        /\ UNCHANGED <<item, runMade>>
    BY <1>3, <1>10 DEF BeginBatch, Acquirable
  <2>2. batch'.status = "processing" /\ batch'.left = BatchLease
    BY <1>1, <2>1 DEF BatchRecord
  <2>3. \A i \in Items : item[i].left = 0
    BY <1>2, <1>3, <2>1 DEF Nested
  <2>4. \A i \in Items : Nested(i)'
    BY <1>1, <2>1, <2>2, <2>3 DEF Nested
  <2>5. \A g \in Admitters : Gathered(g)'
    BY <1>4, <1>10 DEF BeginBatch
  <2> QED BY <1>3, <2>1, <2>2, <2>4, <2>5 DEF LeaseInv, BatchKeeps
<1>11. ASSUME NEW h \in Admitters, ClaimItem(h) PROVE LeaseInv' /\ BatchKeeps
  <2> DEFINE i == Min(Remaining(h))
             row == [status |-> "processing", owner |-> h, left |-> BatchLease, result |-> "none"]
             new == [admitter[h] EXCEPT !.at = "admit", !.on = i]
  <2>1. i \in Items /\ admitter[h].results[i] = "none" /\ admitter[h].at = "next"
    <3>1. Remaining(h) \in SUBSET Items /\ Remaining(h) # {}
      BY <1>11 DEF ClaimItem, Remaining
    <3> QED BY <1>11, <3>1, LeastItem DEF ClaimItem, Remaining
  <2>2. CASE Ends(h)
    BY <1>8, <2>2
  <2>3. CASE /\ HoldsBatch(h) /\ batch' = [batch EXCEPT !.left = BatchLease]
             /\ item' = [item EXCEPT ![i] = row] /\ UNCHANGED runMade
             /\ admitter' = [admitter EXCEPT ![h].at = "admit", ![h].on = i]
    <3>1. item[i].status # "completed"
      <4>1. batch.status = "processing" /\ batch.owner = h /\ admitter[h].at \in Gathers
        BY <2>1, <2>3 DEF HoldsBatch, Gathers
      <4>2. admitter[h].results[i] = item[i].result
        BY <2>1, <4>1 DEF BatchInv, Agrees
      <4> QED BY <1>3, <2>1, <4>2
    <3>2. admitter' = [admitter EXCEPT ![h] = new] /\ new.at = "admit"
      BY <1>1, <2>3 DEF AdmitterRecord
    <3> HIDE DEF i, new
    <3>3. \A g \in Admitters : Gathered(g)'
      BY <1>4, <3>2
    <3>4. \A k \in Items : item'[k] = IF k = i THEN row ELSE item[k]
      BY <1>1, <2>1, <2>3
    <3>5. \A k \in Items : \/ item'[k] = item[k]
                           \/ /\ item[k].status # "completed" /\ item'[k].status = "processing"
                              /\ item'[k].owner = h /\ item'[k].left = BatchLease
      BY <3>1, <3>4
    <3> QED BY <1>7, <2>3, <3>3, <3>5
  <2> QED BY <1>11, <2>2, <2>3 DEF ClaimItem
<1>12. ASSUME NEW h \in Admitters, AdmitItem(h) PROVE LeaseInv' /\ BatchKeeps
  <2>1. admitter[h].on \in Items
    BY <1>1, <1>12 DEF AdmitItem, OnItem
  <2>2. PICK result \in Outcomes :
          admitter' = [admitter EXCEPT ![h].at = "admitted", ![h].results = [@ EXCEPT ![admitter[h].on] = result]]
    BY <1>12 DEF AdmitItem, Outcomes
  <2> DEFINE results == [admitter[h].results EXCEPT ![admitter[h].on] = result]
             new == [admitter[h] EXCEPT !.at = "admitted", !.results = results]
  <2>3. admitter' = [admitter EXCEPT ![h] = new]
    BY <1>1, <2>2
  <2>4. new.results = results /\ new.on = admitter[h].on
    BY <1>1 DEF AdmitterRecord
  <2>5. results[admitter[h].on] = result /\ result # "none"
    BY <1>1, <2>1 DEF AdmitterRecord, ResultList, Outcomes
  <2> HIDE DEF new, results
  <2>6. \A g \in Admitters : Gathered(g)'
    BY <1>4, <2>3, <2>4, <2>5
  <2>7. UNCHANGED <<batch, item>> /\ runMade \subseteq runMade'
    BY <1>12 DEF AdmitItem
  <2> QED BY <1>6, <2>6, <2>7
<1>13. ASSUME NEW h \in Admitters, HeartbeatItem(h) PROVE LeaseInv' /\ BatchKeeps
  <2>1. \A g \in Admitters : Gathered(g)'
    BY <1>3, <1>13 DEF HeartbeatItem, Gathered
  <2> QED BY <1>9, <1>13, <2>1 DEF HeartbeatItem, OnItem
<1>14. ASSUME NEW h \in Admitters, LastHeartbeat(h) PROVE LeaseInv' /\ BatchKeeps
  <2>1. CASE HoldsBatch(h) /\ HoldsItem(h) /\ RenewLeases(h) /\ AdmitterTo(h, "record") /\ UNCHANGED runMade
    <3>1. admitter[h].at = "admitted"
      BY <1>14 DEF LastHeartbeat
    <3>2. \A g \in Admitters : Gathered(g)'
      BY <1>5, <2>1, <3>1
    <3> QED BY <1>9, <2>1, <3>1, <3>2 DEF OnItem
  <2> QED BY <1>8, <1>14, <2>1 DEF LastHeartbeat
<1>15. ASSUME NEW h \in Admitters, RecordItem(h) PROVE LeaseInv' /\ BatchKeeps
  <2> DEFINE i == admitter[h].on
             row == [status |-> "completed", owner |-> NoOwner, left |-> 0, result |-> admitter[h].results[i]]
  <2>1. i \in Items /\ admitter[h].results[i] # "none"
    BY <1>1, <1>3, <1>15 DEF RecordItem, OnItem, Gathered
  <2>2. CASE MayRecord(h) /\ item' = [item EXCEPT ![i] = row] /\ AdmitterTo(h, "next") /\ UNCHANGED <<batch, runMade>>
    <3>1. \A k \in Items : item'[k] = IF k = i THEN row ELSE item[k]
      BY <1>1, <2>1, <2>2
    <3>2. item[i].status = "processing" /\ batch.status = "processing"
      BY <2>2 DEF MayRecord, HoldsItem, HoldsBatch
    <3>3. \A g \in Admitters : Gathered(g)'
      BY <1>5, <2>2
    <3> HIDE DEF i
    <3>4. ASSUME NEW k \in Items
          PROVE  /\ Nested(k)' /\ (item'[k].status = "completed" => item'[k].result # "none")
                 /\ item[k].status = "completed" => item'[k] = item[k]
      <4>1. CASE k = i
        BY <1>2, <2>1, <2>2, <3>1, <3>2, <4>1 DEF Nested, i
      <4>2. CASE k # i
        BY <1>3, <2>2, <3>1, <4>2 DEF Nested
      <4> QED BY <4>1, <4>2
    <3> QED BY <1>3, <2>2, <3>3, <3>4 DEF LeaseInv, BatchKeeps
  <2> QED BY <1>8, <1>15, <2>2 DEF RecordItem
<1>16. ASSUME NEW h \in Admitters, FinalRenewal(h) PROVE LeaseInv' /\ BatchKeeps
  <2>1. CASE /\ HoldsBatch(h) /\ batch' = [batch EXCEPT !.left = BatchLease]
             /\ AdmitterTo(h, "finalize") /\ UNCHANGED <<item, runMade>>
    <3>1. \A g \in Admitters : Gathered(g)'
      BY <1>5, <2>1
    <3> QED BY <1>7, <2>1, <3>1
  <2> QED BY <1>8, <1>16, <2>1 DEF FinalRenewal
<1>17. ASSUME NEW h \in Admitters, FinalizeBatch(h) PROVE LeaseInv' /\ BatchKeeps
  <2>1. CASE /\ HoldsBatch(h) /\ \A i \in Items : item[i].status = "completed"
             /\ batch' = [status |-> "completed", owner |-> NoOwner, left |-> 0, result |-> admitter[h].results]
             /\ AdmitterTo(h, "done") /\ UNCHANGED <<item, runMade>>
    <3>1. \A g \in Admitters : Gathered(g)'
      BY <1>5, <2>1
    <3>2. \A i \in Items : item[i].left = 0
      BY <1>2, <1>3, <2>1 DEF Nested
    <3>3. batch'.left = 0 /\ batch.status = "processing"
      BY <2>1 DEF HoldsBatch
    <3>4. \A i \in Items : Nested(i)'
      BY <2>1, <3>2, <3>3 DEF Nested
    <3> QED BY <1>3, <2>1, <3>1, <3>3, <3>4 DEF LeaseInv, BatchKeeps
  <2> QED BY <1>8, <1>17, <2>1 DEF FinalizeBatch
<1>18. CASE BatchTick
  <2> DEFINE Sooner(left) == IF left > 0 THEN left - 1 ELSE 0
  <2>1. /\ batch.left > 0 /\ batch' = [batch EXCEPT !.left = Sooner(batch.left)]
        /\ item' = [i \in Items |-> [item[i] EXCEPT !.left = Sooner(item[i].left)]]
        /\ UNCHANGED <<admitter, runMade>>
    BY <1>18 DEF BatchTick
  <2>2. batch'.status = batch.status /\ batch'.owner = batch.owner /\ batch'.left = Sooner(batch.left)
    BY <1>1, <2>1 DEF BatchRecord
  <2>3. \A i \in Items : /\ item'[i].status = item[i].status /\ item'[i].owner = item[i].owner
                         /\ item'[i].result = item[i].result /\ item'[i].left = Sooner(item[i].left)
    BY <1>1, <2>1 DEF ItemRecord
  <2>4. batch.status = "processing"
    BY <1>1, <1>2, <1>3, <2>1
  <2>5. ASSUME NEW i \in Items
        PROVE  /\ Nested(i)' /\ (item'[i].status = "completed" => item'[i].result # "none")
               /\ item[i].status = "completed" => item'[i] = item[i]
    <3>1. Nested(i) /\ item[i].left \in Nat /\ batch.left \in Nat
      BY <1>1, <1>2, <1>3
    <3>2. Nested(i)'
      BY <2>2, <2>3, <3>1 DEF Nested
    <3>3. item[i].left = 0 => item'[i] = item[i]
      BY <1>1, <2>1 DEF ItemRecord
    <3>4. item[i].status = "completed" => item[i].left = 0
      BY <3>1 DEF Nested
    <3> QED BY <1>3, <2>3, <3>2, <3>3, <3>4
  <2> HIDE DEF Sooner
  <2>6. \A g \in Admitters : Gathered(g)'
    BY <1>3, <2>1 DEF Gathered
  <2> QED BY <2>1, <2>2, <2>4, <2>5, <2>6 DEF LeaseInv, BatchKeeps
<1>19. ASSUME NEW h \in Admitters, AnswerPost(h) \/ StopAdmitting(h) PROVE LeaseInv' /\ BatchKeeps
  BY <1>8, <1>19 DEF AnswerPost, StopAdmitting
<1>20. CASE UNCHANGED batchVars
  <2>1. UNCHANGED <<batch, item, admitter, runMade>>
    BY <1>20 DEF batchVars
  <2>2. \A g \in Admitters : Gathered(g)'
    BY <1>3, <2>1 DEF Gathered
  <2> QED BY <1>6, <2>1, <2>2
<1> QED BY <1>10, <1>11, <1>12, <1>13, <1>14, <1>15, <1>16, <1>17, <1>18, <1>19, <1>20 DEF BatchNext

LEMMA LeasesInvariant == BatchSpec => [](BatchInv /\ LeaseInv)
<1>1. BatchInit => LeaseInv
  BY DEF BatchInit, LeaseInv, Nested, Gathered
<1> QED BY <1>1, BatchInitInv, BatchInvStep, LeasesStep, PTL DEF BatchSpec

\* The leases of the items nest in the lease of their batch.
THEOREM ItemsNotTaken == BatchSpec => []NoItemTaken
<1>1. BatchInv /\ LeaseInv => NoItemTaken
  BY BatchAssumption
  DEF BatchInv, BatchShape, ItemRecord, LeaseInv, Nested, NoItemTaken, HoldsBatch, ItemTaken
<1> QED BY <1>1, LeasesInvariant, PTL

\* What is completed stays: neither the result of a batch nor that of an item is
\* ever exchanged, whichever request comes late, and no run is unmade.
BatchStays == [][BatchKeeps]_batchVars

\* A lost batch lease does not undo what another request has completed.
THEOREM ResultsStay == BatchSpec => BatchStays
<1>1. BatchInv /\ LeaseInv /\ [BatchNext]_batchVars => [BatchKeeps]_batchVars
  BY LeasesStep
<1> QED BY <1>1, LeasesInvariant, PTL DEF BatchSpec, BatchStays

=============================================================================
