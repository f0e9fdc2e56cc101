-------------------------- MODULE SoarInvestigation --------------------------
(***************************************************************************)
(* The SOAR swarm orchestrator (src/soar/orchestrator.py) over the shared  *)
(* audit database (src/soar/audit_store.py).                               *)
(*                                                                         *)
(* Every API request runs in a web worker of its own and builds its own    *)
(* SwarmOrchestrator, so the only state two requests share is the database *)
(* and the bank.  One process per investigation runs handle_alert; one     *)
(* process per decision request runs process_escalation_decision.  A step  *)
(* is one database write or one awaited call; between two steps any other  *)
(* process may run, the worker may die, or the call may raise.             *)
(***************************************************************************)
EXTENDS Naturals, FiniteSets

CONSTANTS
    Invs,            \* investigations: one alert, one account and one handler each
    Requests         \* calls of POST /escalation/{id}/decide

ASSUME SoarAssumption == Invs \cap Requests = {} /\ IsFiniteSet(Requests)

VARIABLES
    doc,             \* investigations collection
    escalation,      \* escalations collection: status of the investigation's request
    handler,         \* the process running handle_alert
    request,         \* the process running process_escalation_decision
    frozen,          \* external: accounts the bank holds frozen
    remediationLog   \* remediation_log collection

vars == <<doc, escalation, handler, request, frozen, remediationLog>>

-----------------------------------------------------------------------------
(* Types *)

States == {"absent", "pending", "triaging", "investigating", "reporting",
           "awaiting_approval", "remediating", "closed", "failed"}
TriageVerdicts == {"immediate_action", "needs_investigation", "false_positive"}
FinalVerdicts == {"none", "false_positive", "confirmed_fraud",
                  "confirmed_fraud_hitl", "cleared_by_analyst", "error"}
Actions == {"account_freeze", "transaction_hold"}
EscalationStatus == {"none", "pending", "approved", "denied"}
Results == {"none", "success", "failure"}   \* RemediationResult.success, once known

\* The fields of an investigation document that control anything.  confidence
\* is kept only as its comparison with confidence_threshold.
Document == [state : States, triage : TriageVerdicts \cup {"none"},
             reports : SUBSET {"terminal", "compliance"},
             confidence : {"none", "low", "high"}, verdict : FinalVerdicts,
             action : Actions \cup {"none"}, result : Results]

\* Control points of handle_alert, named for what was last done; at those of
\* InTry a call (or the audit entry of the last write) may raise.
InTry == {"created", "triaging", "triaged", "fp_closed", "investigating",
          "investigated", "reporting", "reported", "consensus", "remediating",
          "remediated", "verdict_saved", "escalating", "escalated", "returning"}
HandlerPC == InTry \cup {"idle", "bridge_returned", "except", "failed", "done", "gone"}

RequestPC == {"idle", "found", "approved", "denied", "remediating",
              "bridge_returned", "remediated", "closing", "done", "gone", "dropped"}

\* The decision of a request at these is not in the database.
Unrecorded == {"idle", "found", "dropped"}

TypeOK ==
    /\ doc \in [Invs -> Document]
    /\ escalation \in [Invs -> EscalationStatus]
    /\ handler \in [Invs -> [pc : HandlerPC, result : Results]]
    /\ request \in [Requests -> [pc : RequestPC, inv : Invs, approved : BOOLEAN,
                                 result : Results]]
    /\ frozen \in [Invs -> BOOLEAN]
    /\ remediationLog \subseteq [inv : Invs, by : Invs \cup Requests,
                                 action : Actions, result : Results]

-----------------------------------------------------------------------------
NoDocument == [state |-> "absent", triage |-> "none", reports |-> {},
               confidence |-> "none", verdict |-> "none", action |-> "none",
               result |-> "none"]

Init ==
    /\ doc = [i \in Invs |-> NoDocument]
    /\ escalation = [i \in Invs |-> "none"]
    /\ handler = [i \in Invs |-> [pc |-> "idle", result |-> "none"]]
    /\ request \in [Requests -> [pc : {"idle"}, inv : Invs, approved : BOOLEAN,
                                 result : {"none"}]]
    /\ frozen = [i \in Invs |-> FALSE]
    /\ remediationLog = {}

-----------------------------------------------------------------------------
(* handle_alert *)

HandlerAt(i, pc) == handler[i].pc = pc
HandlerTo(i, pc) == handler' = [handler EXCEPT ![i].pc = pc]

\* _update_state.  Every update_investigation is one $set on one document.
UpdateState(i, state) == doc' = [doc EXCEPT ![i].state = state]

bankAndRequests == <<escalation, request, frozen, remediationLog>>

CreateInvestigation(i) ==
    /\ HandlerAt(i, "idle")
    /\ UpdateState(i, "pending")
    /\ HandlerTo(i, "created")
    /\ UNCHANGED bankAndRequests

StartTriage(i) ==
    /\ HandlerAt(i, "created")
    /\ UpdateState(i, "triaging")
    /\ HandlerTo(i, "triaging")
    /\ UNCHANGED bankAndRequests

\* The triage agent runs in an executor thread; its verdict is an input here.
SaveTriage(i) ==
    /\ HandlerAt(i, "triaging")
    /\ \E v \in TriageVerdicts : doc' = [doc EXCEPT ![i].triage = v]
    /\ HandlerTo(i, "triaged")
    /\ UNCHANGED bankAndRequests

\* Variant for mutation: the false positive is closed and the pipeline goes on.
CloseFalsePositiveNoReturn(i) ==
    /\ HandlerAt(i, "triaged")
    /\ doc[i].triage = "false_positive"
    /\ UpdateState(i, "closed")
    /\ HandlerTo(i, "created")
    /\ UNCHANGED bankAndRequests

CloseFalsePositive(i) ==
    /\ HandlerAt(i, "triaged")
    /\ doc[i].triage = "false_positive"
    /\ UpdateState(i, "closed")
    /\ HandlerTo(i, "fp_closed")
    /\ UNCHANGED bankAndRequests

SaveFalsePositive(i) ==
    /\ HandlerAt(i, "fp_closed")
    /\ doc' = [doc EXCEPT ![i].verdict = "false_positive"]
    /\ HandlerTo(i, "returning")
    /\ UNCHANGED bankAndRequests

StartTerminal(i) ==
    /\ HandlerAt(i, "triaged")
    /\ doc[i].triage # "false_positive"
    /\ UpdateState(i, "investigating")
    /\ HandlerTo(i, "investigating")
    /\ UNCHANGED bankAndRequests

SaveTerminal(i) ==
    /\ HandlerAt(i, "investigating")
    /\ doc' = [doc EXCEPT ![i].reports = @ \cup {"terminal"}]
    /\ HandlerTo(i, "investigated")
    /\ UNCHANGED bankAndRequests

StartCompliance(i) ==
    /\ HandlerAt(i, "investigated")
    /\ UpdateState(i, "reporting")
    /\ HandlerTo(i, "reporting")
    /\ UNCHANGED bankAndRequests

SaveCompliance(i) ==
    /\ HandlerAt(i, "reporting")
    /\ doc' = [doc EXCEPT ![i].reports = @ \cup {"compliance"}]
    /\ HandlerTo(i, "reported")
    /\ UNCHANGED bankAndRequests

SaveConsensus(i) ==
    /\ HandlerAt(i, "reported")
    /\ \E c \in {"low", "high"} : doc' = [doc EXCEPT ![i].confidence = c]
    /\ HandlerTo(i, "consensus")
    /\ UNCHANGED bankAndRequests

\* _escalate_to_hitl: three writes.
AwaitApproval(i) ==
    /\ HandlerAt(i, "consensus")
    /\ doc[i].confidence = "low"
    /\ UpdateState(i, "awaiting_approval")
    /\ HandlerTo(i, "escalating")
    /\ UNCHANGED bankAndRequests

CreateEscalation(i) ==
    /\ HandlerAt(i, "escalating")
    /\ escalation' = [escalation EXCEPT ![i] = "pending"]
    /\ HandlerTo(i, "escalated")
    /\ UNCHANGED <<doc, request, frozen, remediationLog>>

\* Variant for mutation: the return after escalating is missing.
LinkEscalationNoReturn(i) ==
    /\ HandlerAt(i, "escalated")
    /\ HandlerTo(i, "remediating")
    /\ UNCHANGED <<doc, bankAndRequests>>

\* Writing escalation_id back changes no field kept here.
LinkEscalation(i) ==
    /\ HandlerAt(i, "escalated")
    /\ HandlerTo(i, "returning")
    /\ UNCHANGED <<doc, bankAndRequests>>

\* Variant for mutation: the confidence threshold is not compared.
StartRemediationAnyConfidence(i) ==
    /\ HandlerAt(i, "consensus")
    /\ UpdateState(i, "remediating")
    /\ HandlerTo(i, "remediating")
    /\ UNCHANGED bankAndRequests

StartRemediation(i) ==
    /\ HandlerAt(i, "consensus")
    /\ doc[i].confidence = "high"
    /\ UpdateState(i, "remediating")
    /\ HandlerTo(i, "remediating")
    /\ UNCHANGED bankAndRequests

-----------------------------------------------------------------------------
(* _execute_remediation, shared by the handler and by a decision request *)

\* Variant for mutation: the verdict is stored where the action belongs.
RemediationActionUnmapped(i) == doc[i].triage

RemediationAction(i) ==
    IF doc[i].triage = "immediate_action" THEN "account_freeze" ELSE "transaction_hold"

\* What bridge.freeze_account may have done once it is over, by return or by an
\* exception the orchestrator swallows.  A confirm click may take effect on an
\* attempt that then raises; and success is reported after the click whatever the
\* portal answers, because the status message is fetched and not read, and by the
\* mock driver, which replaces a browser that cannot be started.
BridgeOutcomes == [result : {"success", "failure"}, freezes : BOOLEAN]

CallBridge(i, o) == frozen' = [frozen EXCEPT ![i] = @ \/ o.freezes]

LogRemediation(i, p, r) ==
    remediationLog' = remediationLog \cup
        {[inv |-> i, by |-> p, action |-> RemediationAction(i), result |-> r]}

\* One update: remediation_result and final_verdict.
SaveRemediation(i, r, verdict) ==
    doc' = [doc EXCEPT ![i].action = RemediationAction(i), ![i].result = r,
                       ![i].verdict = verdict]

HandlerBridge(i) ==
    /\ HandlerAt(i, "remediating")
    /\ \E o \in BridgeOutcomes :
          /\ CallBridge(i, o)
          /\ handler' = [handler EXCEPT ![i] = [pc |-> "bridge_returned", result |-> o.result]]
    /\ UNCHANGED <<doc, escalation, request, remediationLog>>

\* log_remediation; an exception here is caught, logged and forgotten.
HandlerLog(i) ==
    /\ HandlerAt(i, "bridge_returned")
    /\ \/ LogRemediation(i, i, handler[i].result)
       \/ UNCHANGED remediationLog
    /\ HandlerTo(i, "remediated")
    /\ UNCHANGED <<doc, escalation, request, frozen>>

HandlerSaveRemediation(i) ==
    /\ HandlerAt(i, "remediated")
    /\ SaveRemediation(i, handler[i].result, "confirmed_fraud")
    /\ HandlerTo(i, "verdict_saved")
    /\ UNCHANGED bankAndRequests

HandlerClose(i) ==
    /\ HandlerAt(i, "verdict_saved")
    /\ UpdateState(i, "closed")
    /\ HandlerTo(i, "returning")
    /\ UNCHANGED bankAndRequests

\* return get_investigation(inv_id): the last call inside the try block.
Return(i) ==
    /\ HandlerAt(i, "returning")
    /\ HandlerTo(i, "done")
    /\ UNCHANGED <<doc, bankAndRequests>>

\* A call inside the try block raises; what the bridge and its audit entry raise
\* is caught earlier, in _execute_remediation.
Raise(i) ==
    /\ handler[i].pc \in InTry
    /\ HandlerTo(i, "except")
    /\ UNCHANGED <<doc, bankAndRequests>>

Fail(i) ==
    /\ HandlerAt(i, "except")
    /\ UpdateState(i, "failed")
    /\ HandlerTo(i, "failed")
    /\ UNCHANGED bankAndRequests

SaveError(i) ==
    /\ HandlerAt(i, "failed")
    /\ doc' = [doc EXCEPT ![i].verdict = "error"]
    /\ HandlerTo(i, "done")
    /\ UNCHANGED bankAndRequests

\* The worker dies, or a call outside the try block raises: nothing resumes it.
HandlerDies(i) ==
    /\ handler[i].pc \notin {"idle", "done", "gone"}
    /\ HandlerTo(i, "gone")
    /\ UNCHANGED <<doc, bankAndRequests>>

-----------------------------------------------------------------------------
(* process_escalation_decision *)

RequestAt(a, pc) == request[a].pc = pc
RequestTo(a, pc) == request' = [request EXCEPT ![a].pc = pc]

docAndHandlers == <<doc, handler>>

\* get_escalation finds the record, whatever its status is.
FindEscalation(a) ==
    /\ RequestAt(a, "idle")
    /\ escalation[request[a].inv] # "none"
    /\ RequestTo(a, "found")
    /\ UNCHANGED <<docAndHandlers, escalation, frozen, remediationLog>>

\* Variant for mutation: the decision is acted on but not recorded.
DecideUnrecorded(a) ==
    /\ RequestAt(a, "found")
    /\ RequestTo(a, IF request[a].approved THEN "approved" ELSE "denied")
    /\ UNCHANGED <<docAndHandlers, escalation, frozen, remediationLog>>

Decide(a) ==
    LET status == IF request[a].approved THEN "approved" ELSE "denied" IN
    /\ RequestAt(a, "found")
    /\ escalation' = [escalation EXCEPT ![request[a].inv] = status]
    /\ RequestTo(a, status)
    /\ UNCHANGED <<docAndHandlers, frozen, remediationLog>>

\* Variant for mutation: the approved flag is ignored.
ResumeRemediationAnyway(a) ==
    /\ request[a].pc \in {"approved", "denied"}
    /\ UpdateState(request[a].inv, "remediating")
    /\ RequestTo(a, "remediating")
    /\ UNCHANGED <<escalation, handler, frozen, remediationLog>>

ResumeRemediation(a) ==
    /\ RequestAt(a, "approved")
    /\ UpdateState(request[a].inv, "remediating")
    /\ RequestTo(a, "remediating")
    /\ UNCHANGED <<escalation, handler, frozen, remediationLog>>

RequestBridge(a) ==
    /\ RequestAt(a, "remediating")
    /\ \E o \in BridgeOutcomes :
          /\ CallBridge(request[a].inv, o)
          /\ request' = [request EXCEPT ![a].pc = "bridge_returned", ![a].result = o.result]
    /\ UNCHANGED <<docAndHandlers, escalation, remediationLog>>

RequestLog(a) ==
    /\ RequestAt(a, "bridge_returned")
    /\ \/ LogRemediation(request[a].inv, a, request[a].result)
       \/ UNCHANGED remediationLog
    /\ RequestTo(a, "remediated")
    /\ UNCHANGED <<docAndHandlers, escalation, frozen>>

\* Variant for mutation: the investigation is not closed afterwards.
RequestSaveNoClose(a) ==
    /\ RequestAt(a, "remediated")
    /\ SaveRemediation(request[a].inv, request[a].result, "confirmed_fraud_hitl")
    /\ RequestTo(a, "done")
    /\ UNCHANGED <<escalation, handler, frozen, remediationLog>>

RequestSaveRemediation(a) ==
    /\ RequestAt(a, "remediated")
    /\ SaveRemediation(request[a].inv, request[a].result, "confirmed_fraud_hitl")
    /\ RequestTo(a, "closing")
    /\ UNCHANGED <<escalation, handler, frozen, remediationLog>>

ClearByAnalyst(a) ==
    /\ RequestAt(a, "denied")
    /\ doc' = [doc EXCEPT ![request[a].inv].verdict = "cleared_by_analyst"]
    /\ RequestTo(a, "closing")
    /\ UNCHANGED <<escalation, handler, frozen, remediationLog>>

RequestClose(a) ==
    /\ RequestAt(a, "closing")
    /\ UpdateState(request[a].inv, "closed")
    /\ RequestTo(a, "done")
    /\ UNCHANGED <<escalation, handler, frozen, remediationLog>>

\* There is no try block: an exception abandons the decision like a crash does.
RequestDies(a) ==
    /\ request[a].pc \notin {"idle", "done", "gone", "dropped"}
    /\ RequestTo(a, IF RequestAt(a, "found") THEN "dropped" ELSE "gone")
    /\ UNCHANGED <<docAndHandlers, escalation, frozen, remediationLog>>

-----------------------------------------------------------------------------
HandlerStep(i) ==
    \/ CreateInvestigation(i) \/ StartTriage(i) \/ SaveTriage(i)
    \/ CloseFalsePositive(i) \/ SaveFalsePositive(i)
    \/ StartTerminal(i) \/ SaveTerminal(i)
    \/ StartCompliance(i) \/ SaveCompliance(i) \/ SaveConsensus(i)
    \/ AwaitApproval(i) \/ CreateEscalation(i) \/ LinkEscalation(i)
    \/ StartRemediation(i) \/ HandlerBridge(i) \/ HandlerLog(i)
    \/ HandlerSaveRemediation(i) \/ HandlerClose(i) \/ Return(i)
    \/ Fail(i) \/ SaveError(i)

DecisionStep(a) ==
    \/ Decide(a) \/ ResumeRemediation(a) \/ RequestBridge(a) \/ RequestLog(a)
    \/ RequestSaveRemediation(a) \/ ClearByAnalyst(a) \/ RequestClose(a)

Next ==
    \/ \E i \in Invs : HandlerStep(i) \/ Raise(i) \/ HandlerDies(i)
    \/ \E a \in Requests : FindEscalation(a) \/ DecisionStep(a) \/ RequestDies(a)

Spec == Init /\ [][Next]_vars

\* The event loop and the executor keep running what they were given; nothing
\* obliges an analyst to decide, a call to raise or a worker to die.
Fairness ==
    /\ \A i \in Invs : WF_vars(HandlerStep(i))
    /\ \A a \in Requests : WF_vars(DecisionStep(a))

FairSpec == Spec /\ Fairness

-----------------------------------------------------------------------------
(* Properties *)

Approves(a, i) ==
    /\ request[a].inv = i
    /\ request[a].approved
    /\ request[a].pc \notin Unrecorded

\* Somebody entitled to it decided on remediation: the consensus reached the
\* threshold, or an analyst's approval was recorded.
Authorised(i) ==
    \/ doc[i].confidence = "high"
    \/ \E a \in Requests : Approves(a, i)

\* The pipeline implements the abstract FreezeAuthority: authorisation, then freeze.
Authority == INSTANCE FreezeAuthority WITH
    Cases <- Invs,
    authorised <- {i \in Invs : Authorised(i)},
    frozen <- {i \in Invs : frozen[i]}

\* Every step authorises a case, freezes an authorised one, or does neither.
ImplementsFreezeAuthority == Authority!Spec

\* No account is frozen before triage found it suspicious, the compliance report
\* is on file and the remediation is authorised, however handlers and decision
\* requests interleave, raise and die.
FreezeOnlyAuthorised ==
    \A i \in Invs : frozen[i] =>
        /\ doc[i].triage \in {"immediate_action", "needs_investigation"}
        /\ doc[i].reports = {"terminal", "compliance"}
        /\ Authorised(i)

\* A document never names a confirmed fraud nobody was entitled to confirm:
\* "confirmed_fraud" needs the consensus, "confirmed_fraud_hitl" an approval.
VerdictBacked ==
    \A i \in Invs :
        /\ doc[i].verdict = "confirmed_fraud" => doc[i].confidence = "high"
        /\ doc[i].verdict = "confirmed_fraud_hitl" => \E a \in Requests : Approves(a, i)

\* An escalation analysts still see as pending belongs to an investigation that
\* waits for them (or failed right after escalating), never to one being
\* remediated or closed.
PendingMeansWaiting ==
    \A i \in Invs : escalation[i] = "pending" =>
        /\ doc[i].state \in {"awaiting_approval", "failed"}
        /\ doc[i].confidence = "low"
        /\ ~frozen[i]

\* The requests whose decision on investigation i is in the database.
Deciders(i) == {a \in Requests : request[a].inv = i /\ request[a].pc \notin Unrecorded}

\* An account whose investigation the analyst cleared is not frozen, as long as only
\* one request decided the escalation, whatever the handler did before or after.
ClearedNeverFrozen ==
    \A i \in Invs : doc[i].verdict = "cleared_by_analyst" /\ Cardinality(Deciders(i)) <= 1
        => ~frozen[i]

\* A closed investigation (CLOSED ends the state machine of orchestrator.py) is
\* reopened in two ways only: its handler fails afterwards, or another request
\* approves an escalation that an earlier one has decided.
ReopenedOnlyByFailureOrApproval ==
    [][\A i \in Invs : doc[i].state = "closed" /\ doc'[i].state # "closed" =>
          \/ doc'[i].state = "failed" /\ HandlerAt(i, "except")
          \/ doc'[i].state = "remediating" /\ Cardinality(Deciders(i)) >= 2]_vars

\* A decision changes an escalation only while it is pending ("Approve or deny a
\* pending HITL escalation", soar.py): process_escalation_decision does not look.
DecideOnlyPending ==
    [][\A i \in Invs : escalation'[i] # escalation[i] /\ escalation'[i] # "pending"
          => escalation[i] = "pending"]_vars

\* Some process that was driving investigation i died or raised half-way.
Abandoned(i) ==
    \/ HandlerAt(i, "gone")
    \/ \E a \in Requests : request[a].inv = i /\ RequestAt(a, "gone")

\* An investigation in REMEDIATING gets out of it, whoever put it there, unless a
\* process driving it died: nothing else resumes an investigation.
RemediatingResolves ==
    \A i \in Invs : (doc[i].state = "remediating")
        ~> (doc[i].state \in {"closed", "failed"} \/ Abandoned(i))
=============================================================================
