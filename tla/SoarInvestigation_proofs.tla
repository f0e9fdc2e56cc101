----------------------- MODULE SoarInvestigation_proofs -----------------------
(***************************************************************************)
(* Proofs about SoarInvestigation for any sets of investigations and       *)
(* decision requests: types, that no account is frozen without authority,  *)
(* and that the pipeline implements FreezeAuthority.                       *)
(***************************************************************************)
EXTENDS SoarInvestigation, FiniteSetTheorems, TLAPS

-----------------------------------------------------------------------------
(* The inductive invariant *)

Suspicious == {"immediate_action", "needs_investigation"}

\* The handler's control points between a suspicious verdict and the compliance
\* report, after that report, on the automatic path, and those it can be at once
\* the case is open to the analysts or its account frozen.
PastTriage == {"investigating", "investigated", "reporting", "reported", "consensus",
               "remediating", "bridge_returned", "remediated", "verdict_saved",
               "escalating", "escalated"}
PastReports == {"reported", "consensus", "remediating", "bridge_returned", "remediated",
                "verdict_saved", "escalating", "escalated"}
Automatic == {"remediating", "bridge_returned", "remediated", "verdict_saved"}
Late == {"bridge_returned", "remediated", "verdict_saved", "escalated", "returning",
         "except", "failed", "done", "gone"}

CaseReady(i) ==
    /\ doc[i].triage \in Suspicious
    /\ doc[i].reports = {"terminal", "compliance"}

HandlerInv(i) ==
    /\ handler[i].pc = "triaged" => doc[i].triage # "none"
    /\ handler[i].pc \in PastTriage => doc[i].triage \in Suspicious
    /\ handler[i].pc \in {"investigated", "reporting"} => "terminal" \in doc[i].reports
    /\ handler[i].pc \in PastReports => doc[i].reports = {"terminal", "compliance"}
    /\ handler[i].pc \in Automatic => doc[i].confidence = "high"

RequestInv(a) ==
    /\ request[a].pc # "idle" => escalation[request[a].inv] # "none"
    /\ request[a].pc \in {"approved", "remediating", "bridge_returned", "remediated"}
          => request[a].approved

CaseInv(i) ==
    (frozen[i] \/ escalation[i] # "none") => CaseReady(i) /\ handler[i].pc \in Late

FreezeInv ==
    /\ TypeOK
    /\ \A i \in Invs : HandlerInv(i) /\ CaseInv(i)
    /\ \A a \in Requests : RequestInv(a)
    /\ \A i \in Invs : frozen[i] => Authorised(i)

-----------------------------------------------------------------------------
(* Types *)

LEMMA TypeInit == Init => TypeOK
BY DEF Init, TypeOK, NoDocument, Document, States, TriageVerdicts, FinalVerdicts,
       EscalationStatus, HandlerPC, InTry, RequestPC, Results, Actions

LEMMA OutcomeTyped == ASSUME NEW o \in BridgeOutcomes PROVE o.result \in Results
BY DEF BridgeOutcomes, Results

LEMMA ActionTyped == ASSUME NEW i \in Invs PROVE RemediationAction(i) \in Actions
BY DEF RemediationAction, Actions

\* The fields of a document the authority of a freeze depends on.
SameCase(j) ==
    /\ doc'[j].triage = doc[j].triage
    /\ doc'[j].reports = doc[j].reports
    /\ doc'[j].confidence = doc[j].confidence

\* What each kind of update does to the documents.
LEMMA UpdatedState ==
    ASSUME TypeOK, NEW i \in Invs, NEW st \in States, UpdateState(i, st)
    PROVE  doc' \in [Invs -> Document] /\ \A j \in Invs : SameCase(j)
<1>1. doc \in [Invs -> Document] BY DEF TypeOK
<1>2. [doc[i] EXCEPT !.state = st] \in Document BY <1>1 DEF Document
<1> QED BY <1>1, <1>2 DEF UpdateState, SameCase, Document

LEMMA UpdatedTriage ==
    ASSUME TypeOK, NEW i \in Invs, NEW v \in TriageVerdicts,
           doc' = [doc EXCEPT ![i].triage = v]
    PROVE  /\ doc' \in [Invs -> Document]
           /\ doc'[i].triage = v /\ doc'[i].reports = doc[i].reports
           /\ doc'[i].confidence = doc[i].confidence
           /\ \A j \in Invs : j # i => SameCase(j)
<1>1. doc \in [Invs -> Document] BY DEF TypeOK
<1>2. [doc[i] EXCEPT !.triage = v] \in Document BY <1>1 DEF Document
<1> QED BY <1>1, <1>2 DEF SameCase, Document

LEMMA UpdatedReports ==
    ASSUME TypeOK, NEW i \in Invs, NEW r \in SUBSET {"terminal", "compliance"},
           doc' = [doc EXCEPT ![i].reports = @ \cup r]
    PROVE  /\ doc' \in [Invs -> Document]
           /\ doc'[i].triage = doc[i].triage /\ doc'[i].reports = doc[i].reports \cup r
           /\ doc'[i].confidence = doc[i].confidence
           /\ \A j \in Invs : j # i => SameCase(j)
<1>1. doc \in [Invs -> Document] BY DEF TypeOK
<1>2. [doc[i] EXCEPT !.reports = doc[i].reports \cup r] \in Document BY <1>1 DEF Document
<1> QED BY <1>1, <1>2 DEF SameCase, Document

LEMMA UpdatedConfidence ==
    ASSUME TypeOK, NEW i \in Invs, NEW c \in {"low", "high"},
           doc' = [doc EXCEPT ![i].confidence = c]
    PROVE  /\ doc' \in [Invs -> Document]
           /\ doc'[i].triage = doc[i].triage /\ doc'[i].reports = doc[i].reports
           /\ doc'[i].confidence = c
           /\ \A j \in Invs : j # i => SameCase(j)
<1>1. doc \in [Invs -> Document] BY DEF TypeOK
<1>2. [doc[i] EXCEPT !.confidence = c] \in Document BY <1>1 DEF Document
<1> QED BY <1>1, <1>2 DEF SameCase, Document

LEMMA UpdatedVerdict ==
    ASSUME TypeOK, NEW i \in Invs, NEW v \in FinalVerdicts,
           doc' = [doc EXCEPT ![i].verdict = v]
    PROVE  doc' \in [Invs -> Document] /\ \A j \in Invs : SameCase(j)
<1>1. doc \in [Invs -> Document] BY DEF TypeOK
<1>2. [doc[i] EXCEPT !.verdict = v] \in Document BY <1>1 DEF Document
<1> QED BY <1>1, <1>2 DEF SameCase, Document

LEMMA UpdatedRemediation ==
    ASSUME TypeOK, NEW i \in Invs, NEW r \in Results, NEW v \in FinalVerdicts,
           SaveRemediation(i, r, v)
    PROVE  doc' \in [Invs -> Document] /\ \A j \in Invs : SameCase(j)
<1>1. doc \in [Invs -> Document] BY DEF TypeOK
<1>2. [doc[i] EXCEPT !.action = RemediationAction(i), !.result = r, !.verdict = v] \in Document
  BY <1>1, ActionTyped DEF Document
<1> QED BY <1>1, <1>2 DEF SaveRemediation, SameCase, Document

LEMMA Unchanged ==
    ASSUME TypeOK, doc' = doc
    PROVE  doc' \in [Invs -> Document] /\ \A j \in Invs : SameCase(j)
BY DEF TypeOK, SameCase

\* The handler of one investigation keeps the types.
LEMMA HandlerKeepsTypes ==
    ASSUME TypeOK, NEW i \in Invs, HandlerStep(i) \/ Raise(i) \/ HandlerDies(i)
    PROVE  TypeOK'
<1>0. ASSUME doc' \in [Invs -> Document],
             escalation' \in [Invs -> EscalationStatus],
             handler' \in [Invs -> [pc : HandlerPC, result : Results]],
             request' = request,
             frozen' \in [Invs -> BOOLEAN],
             remediationLog' \subseteq [inv : Invs, by : Invs \cup Requests,
                                       action : Actions, result : Results]
      PROVE  TypeOK'
  BY <1>0 DEF TypeOK
<1> USE DEF bankAndRequests, HandlerTo
<1>1. CASE CreateInvestigation(i)
  <2>1. doc' \in [Invs -> Document]
    BY <1>1, UpdatedState DEF CreateInvestigation, States
  <2> QED BY <1>0, <1>1, <2>1 DEF CreateInvestigation, TypeOK, HandlerPC, InTry
<1>2. CASE StartTriage(i)
  <2>1. doc' \in [Invs -> Document]
    BY <1>2, UpdatedState DEF StartTriage, States
  <2> QED BY <1>0, <1>2, <2>1 DEF StartTriage, TypeOK, HandlerPC, InTry
<1>3. CASE SaveTriage(i)
  <2>1. doc' \in [Invs -> Document]
    BY <1>3, UpdatedTriage DEF SaveTriage
  <2> QED BY <1>0, <1>3, <2>1 DEF SaveTriage, TypeOK, HandlerPC, InTry
<1>4. CASE CloseFalsePositive(i)
  <2>1. doc' \in [Invs -> Document]
    BY <1>4, UpdatedState DEF CloseFalsePositive, States
  <2> QED BY <1>0, <1>4, <2>1 DEF CloseFalsePositive, TypeOK, HandlerPC, InTry
<1>5. CASE SaveFalsePositive(i)
  <2>1. doc' \in [Invs -> Document]
    BY <1>5, UpdatedVerdict DEF SaveFalsePositive, FinalVerdicts
  <2> QED BY <1>0, <1>5, <2>1 DEF SaveFalsePositive, TypeOK, HandlerPC, InTry
<1>6. CASE StartTerminal(i)
  <2>1. doc' \in [Invs -> Document]
    BY <1>6, UpdatedState DEF StartTerminal, States
  <2> QED BY <1>0, <1>6, <2>1 DEF StartTerminal, TypeOK, HandlerPC, InTry
<1>7. CASE SaveTerminal(i)
  <2>1. doc' \in [Invs -> Document]
    BY <1>7, UpdatedReports DEF SaveTerminal
  <2> QED BY <1>0, <1>7, <2>1 DEF SaveTerminal, TypeOK, HandlerPC, InTry
<1>8. CASE StartCompliance(i)
  <2>1. doc' \in [Invs -> Document]
    BY <1>8, UpdatedState DEF StartCompliance, States
  <2> QED BY <1>0, <1>8, <2>1 DEF StartCompliance, TypeOK, HandlerPC, InTry
<1>9. CASE SaveCompliance(i)
  <2>1. doc' \in [Invs -> Document]
    BY <1>9, UpdatedReports DEF SaveCompliance
  <2> QED BY <1>0, <1>9, <2>1 DEF SaveCompliance, TypeOK, HandlerPC, InTry
<1>10. CASE SaveConsensus(i)
  <2>1. doc' \in [Invs -> Document]
    BY <1>10, UpdatedConfidence DEF SaveConsensus
  <2> QED BY <1>0, <1>10, <2>1 DEF SaveConsensus, TypeOK, HandlerPC, InTry
<1>11. CASE AwaitApproval(i)
  <2>1. doc' \in [Invs -> Document]
    BY <1>11, UpdatedState DEF AwaitApproval, States
  <2> QED BY <1>0, <1>11, <2>1 DEF AwaitApproval, TypeOK, HandlerPC, InTry
<1>12. CASE CreateEscalation(i)
  BY <1>0, <1>12 DEF CreateEscalation, TypeOK, HandlerPC, InTry, EscalationStatus
<1>13. CASE LinkEscalation(i)
  BY <1>0, <1>13 DEF LinkEscalation, TypeOK, HandlerPC, InTry
<1>14. CASE StartRemediation(i)
  <2>1. doc' \in [Invs -> Document]
    BY <1>14, UpdatedState DEF StartRemediation, States
  <2> QED BY <1>0, <1>14, <2>1 DEF StartRemediation, TypeOK, HandlerPC, InTry
<1>15. CASE HandlerBridge(i)
  <2>1. PICK out \in BridgeOutcomes :
            /\ CallBridge(i, out)
            /\ handler' = [handler EXCEPT ![i] = [pc |-> "bridge_returned", result |-> out.result]]
    BY <1>15 DEF HandlerBridge
  <2>2. frozen' \in [Invs -> BOOLEAN]
    BY <2>1 DEF CallBridge, TypeOK
  <2>3. handler' \in [Invs -> [pc : HandlerPC, result : Results]]
    BY <2>1, OutcomeTyped DEF TypeOK, HandlerPC
  <2> QED BY <1>0, <1>15, <2>2, <2>3 DEF HandlerBridge, TypeOK
<1>16. CASE HandlerLog(i)
  <2>1. remediationLog' \subseteq [inv : Invs, by : Invs \cup Requests,
                                  action : Actions, result : Results]
    BY <1>16, ActionTyped DEF HandlerLog, LogRemediation, TypeOK
  <2> QED BY <1>0, <1>16, <2>1 DEF HandlerLog, TypeOK, HandlerPC, InTry
<1>17. CASE HandlerSaveRemediation(i)
  <2>1. doc' \in [Invs -> Document]
    BY <1>17, UpdatedRemediation DEF HandlerSaveRemediation, FinalVerdicts, TypeOK
  <2> QED BY <1>0, <1>17, <2>1 DEF HandlerSaveRemediation, TypeOK, HandlerPC, InTry
<1>18. CASE HandlerClose(i)
  <2>1. doc' \in [Invs -> Document]
    BY <1>18, UpdatedState DEF HandlerClose, States
  <2> QED BY <1>0, <1>18, <2>1 DEF HandlerClose, TypeOK, HandlerPC, InTry
<1>19. CASE Return(i)
  BY <1>0, <1>19 DEF Return, TypeOK, HandlerPC, InTry
<1>20. CASE Fail(i)
  <2>1. doc' \in [Invs -> Document]
    BY <1>20, UpdatedState DEF Fail, States
  <2> QED BY <1>0, <1>20, <2>1 DEF Fail, TypeOK, HandlerPC, InTry
<1>21. CASE SaveError(i)
  <2>1. doc' \in [Invs -> Document]
    BY <1>21, UpdatedVerdict DEF SaveError, FinalVerdicts
  <2> QED BY <1>0, <1>21, <2>1 DEF SaveError, TypeOK, HandlerPC, InTry
<1>22. CASE Raise(i)
  BY <1>0, <1>22 DEF Raise, TypeOK, HandlerPC, InTry
<1>23. CASE HandlerDies(i)
  BY <1>0, <1>23 DEF HandlerDies, TypeOK, HandlerPC, InTry
<1>q. QED
  BY <1>1, <1>2, <1>3, <1>4, <1>5, <1>6, <1>7, <1>8, <1>9, <1>10, <1>11, <1>12, <1>13, <1>14, <1>15, <1>16, <1>17, <1>18, <1>19, <1>20, <1>21, <1>22, <1>23 DEF HandlerStep

\* So does a decision request.
LEMMA RequestKeepsTypes ==
    ASSUME TypeOK, NEW a \in Requests, FindEscalation(a) \/ DecisionStep(a) \/ RequestDies(a)
    PROVE  TypeOK'
<1>0. ASSUME doc' \in [Invs -> Document],
             escalation' \in [Invs -> EscalationStatus],
             handler' = handler,
             request' \in [Requests -> [pc : RequestPC, inv : Invs, approved : BOOLEAN,
                                       result : Results]],
             frozen' \in [Invs -> BOOLEAN],
             remediationLog' \subseteq [inv : Invs, by : Invs \cup Requests,
                                       action : Actions, result : Results]
      PROVE  TypeOK'
  BY <1>0 DEF TypeOK
<1>i. request[a].inv \in Invs /\ request[a].result \in Results
  BY DEF TypeOK
<1>r. ASSUME NEW pc \in RequestPC, RequestTo(a, pc)
      PROVE  request' \in [Requests -> [pc : RequestPC, inv : Invs, approved : BOOLEAN,
                                       result : Results]]
  BY <1>r DEF RequestTo, TypeOK
<1> USE DEF docAndHandlers
<1>1. CASE FindEscalation(a)
  BY <1>0, <1>1, <1>r DEF FindEscalation, TypeOK, RequestPC
<1>2. CASE Decide(a)
  BY <1>0, <1>2, <1>i, <1>r DEF Decide, TypeOK, RequestPC, EscalationStatus
<1>3. CASE ResumeRemediation(a)
  <2>1. doc' \in [Invs -> Document]
    BY <1>3, <1>i, UpdatedState DEF ResumeRemediation, States
  <2> QED BY <1>0, <1>3, <1>r, <2>1 DEF ResumeRemediation, TypeOK, RequestPC
<1>4. CASE RequestBridge(a)
  <2>1. PICK out \in BridgeOutcomes :
            /\ CallBridge(request[a].inv, out)
            /\ request' = [request EXCEPT ![a].pc = "bridge_returned", ![a].result = out.result]
    BY <1>4 DEF RequestBridge
  <2>2. frozen' \in [Invs -> BOOLEAN]
    BY <1>i, <2>1 DEF CallBridge, TypeOK
  <2>3. request' \in [Requests -> [pc : RequestPC, inv : Invs, approved : BOOLEAN,
                                  result : Results]]
    BY <2>1, OutcomeTyped DEF TypeOK, RequestPC
  <2> QED BY <1>0, <1>4, <2>2, <2>3 DEF RequestBridge, TypeOK
<1>5. CASE RequestLog(a)
  <2>1. remediationLog' \subseteq [inv : Invs, by : Invs \cup Requests,
                                  action : Actions, result : Results]
    BY <1>5, <1>i, ActionTyped DEF RequestLog, LogRemediation, TypeOK
  <2> QED BY <1>0, <1>5, <1>r, <2>1 DEF RequestLog, TypeOK, RequestPC
<1>6. CASE RequestSaveRemediation(a)
  <2>1. doc' \in [Invs -> Document]
    BY <1>6, <1>i, UpdatedRemediation DEF RequestSaveRemediation, FinalVerdicts
  <2> QED BY <1>0, <1>6, <1>r, <2>1 DEF RequestSaveRemediation, TypeOK, RequestPC
<1>7. CASE ClearByAnalyst(a)
  <2>1. doc' \in [Invs -> Document]
    BY <1>7, <1>i, UpdatedVerdict DEF ClearByAnalyst, FinalVerdicts
  <2> QED BY <1>0, <1>7, <1>r, <2>1 DEF ClearByAnalyst, TypeOK, RequestPC
<1>8. CASE RequestClose(a)
  <2>1. doc' \in [Invs -> Document]
    BY <1>8, <1>i, UpdatedState DEF RequestClose, States
  <2> QED BY <1>0, <1>8, <1>r, <2>1 DEF RequestClose, TypeOK, RequestPC
<1>9. CASE RequestDies(a)
  BY <1>0, <1>9, <1>r DEF RequestDies, TypeOK, RequestPC
<1>q. QED
  BY <1>1, <1>2, <1>3, <1>4, <1>5, <1>6, <1>7, <1>8, <1>9 DEF DecisionStep

\* The documents, escalations, processes, accounts and audit entries stay in their
\* types, for any number of investigations and requests.
THEOREM TypeCorrect == Spec => []TypeOK
<1>1. TypeOK /\ [Next]_vars => TypeOK'
  <2> SUFFICES ASSUME TypeOK, [Next]_vars PROVE TypeOK'
    OBVIOUS
  <2>1. CASE UNCHANGED vars
    BY <2>1 DEF vars, TypeOK
  <2>2. CASE Next
    BY <2>2, HandlerKeepsTypes, RequestKeepsTypes DEF Next
  <2> QED BY <2>1, <2>2
<1> QED BY <1>1, TypeInit, PTL DEF Spec

-----------------------------------------------------------------------------
(* Authority *)

LEMMA HandlerMoved ==
    ASSUME TypeOK, NEW i \in Invs, NEW pc, HandlerTo(i, pc)
    PROVE  /\ handler'[i].pc = pc
           /\ \A j \in Invs : j # i => handler'[j] = handler[j]
BY DEF TypeOK, HandlerTo

\* What a handler step may not disturb: the requests, the other investigations, and
\* an escalation once it exists.
OnlyConcerns(i) ==
    /\ request' = request
    /\ \A j \in Invs : j # i => /\ handler'[j] = handler[j] /\ SameCase(j)
                              /\ frozen'[j] = frozen[j] /\ escalation'[j] = escalation[j]
    /\ escalation[i] # "none" => escalation'[i] # "none"

LEMMA HandlerLocal ==
    ASSUME FreezeInv, TypeOK', NEW i \in Invs, OnlyConcerns(i),
           HandlerInv(i)', CaseInv(i)', frozen'[i] => Authorised(i)'
    PROVE  FreezeInv'
<1>1. ASSUME NEW j \in Invs PROVE HandlerInv(j)' /\ CaseInv(j)'
  BY DEF FreezeInv, OnlyConcerns, HandlerInv, CaseInv, CaseReady, SameCase
<1>2. ASSUME NEW a \in Requests PROVE RequestInv(a)'
  BY DEF FreezeInv, OnlyConcerns, RequestInv, TypeOK
<1>3. ASSUME NEW j \in Invs, frozen'[j] PROVE Authorised(j)'
  BY <1>3 DEF FreezeInv, OnlyConcerns, Authorised, Approves, SameCase
<1> QED BY <1>1, <1>2, <1>3 DEF FreezeInv

LEMMA HandlerKeepsFreezeInv ==
    ASSUME FreezeInv, TypeOK', NEW i \in Invs,
           HandlerStep(i) \/ Raise(i) \/ HandlerDies(i)
    PROVE  FreezeInv'
<1>t. TypeOK /\ HandlerInv(i) /\ CaseInv(i) /\ (frozen[i] => Authorised(i))
  BY DEF FreezeInv
<1>d. /\ doc[i].triage \in TriageVerdicts \cup {"none"}
      /\ doc[i].reports \subseteq {"terminal", "compliance"}
  BY <1>t DEF TypeOK, Document
<1>s. ASSUME NEW pc, HandlerTo(i, pc), UNCHANGED bankAndRequests,
             \A j \in Invs : j # i => SameCase(j),
             HandlerInv(i)', CaseInv(i)',
             frozen[i] => doc'[i].confidence = doc[i].confidence
      PROVE  FreezeInv'
  <2>1. OnlyConcerns(i)
    BY <1>t, <1>s, HandlerMoved DEF OnlyConcerns, bankAndRequests
  <2>2. frozen'[i] => Authorised(i)'
    BY <1>t, <1>s DEF Authorised, Approves, bankAndRequests
  <2> QED BY <1>s, <2>1, <2>2, HandlerLocal
<1>1. CASE CreateInvestigation(i)
  <2>1. \A j \in Invs : SameCase(j)
    BY <1>t, <1>1, UpdatedState DEF CreateInvestigation, States
  <2>2. handler'[i].pc = "created"
    BY <1>t, <1>1, HandlerMoved DEF CreateInvestigation, HandlerAt
  <2>3. HandlerInv(i)' /\ CaseInv(i)'
    BY <1>t, <1>d, <1>1, <2>1, <2>2
    DEF CreateInvestigation, TriageVerdicts, HandlerAt, HandlerInv, CaseInv, CaseReady, SameCase, PastTriage, PastReports, Automatic, Late,
           Suspicious, bankAndRequests
  <2> QED BY <1>s, <1>1, <2>1, <2>3 DEF CreateInvestigation, SameCase
<1>2. CASE StartTriage(i)
  <2>1. \A j \in Invs : SameCase(j)
    BY <1>t, <1>2, UpdatedState DEF StartTriage, States
  <2>2. handler'[i].pc = "triaging"
    BY <1>t, <1>2, HandlerMoved DEF StartTriage, HandlerAt
  <2>3. HandlerInv(i)' /\ CaseInv(i)'
    BY <1>t, <1>d, <1>2, <2>1, <2>2
    DEF StartTriage, TriageVerdicts, HandlerAt, HandlerInv, CaseInv, CaseReady, SameCase, PastTriage, PastReports, Automatic, Late,
           Suspicious, bankAndRequests
  <2> QED BY <1>s, <1>2, <2>1, <2>3 DEF StartTriage, SameCase
<1>3. CASE SaveTriage(i)
  <2>1. /\ doc'[i].triage \in TriageVerdicts /\ doc'[i].reports = doc[i].reports /\ doc'[i].confidence = doc[i].confidence
        /\ \A j \in Invs : j # i => SameCase(j)
    BY <1>t, <1>3, UpdatedTriage DEF SaveTriage
  <2>2. handler'[i].pc = "triaged"
    BY <1>t, <1>3, HandlerMoved DEF SaveTriage
  <2>4. ~frozen[i] /\ escalation[i] = "none"
    BY <1>t, <1>3 DEF SaveTriage, HandlerAt, CaseInv, Late
  <2>5. doc'[i].triage # "none"
    BY <1>t, <1>d, <1>3, <2>1 DEF SaveTriage, HandlerAt, HandlerInv, TriageVerdicts
  <2>3. HandlerInv(i)' /\ CaseInv(i)'
    BY <1>3, <2>2, <2>4, <2>5
    DEF SaveTriage, HandlerInv, CaseInv, PastTriage, PastReports, Automatic, bankAndRequests
  <2> QED BY <1>s, <1>3, <2>1, <2>3 DEF SaveTriage
<1>4. CASE CloseFalsePositive(i)
  <2>1. \A j \in Invs : SameCase(j)
    BY <1>t, <1>4, UpdatedState DEF CloseFalsePositive, States
  <2>2. handler'[i].pc = "fp_closed"
    BY <1>t, <1>4, HandlerMoved DEF CloseFalsePositive, HandlerAt
  <2>3. HandlerInv(i)' /\ CaseInv(i)'
    BY <1>t, <1>d, <1>4, <2>1, <2>2
    DEF CloseFalsePositive, TriageVerdicts, HandlerAt, HandlerInv, CaseInv, CaseReady, SameCase, PastTriage, PastReports, Automatic, Late,
           Suspicious, bankAndRequests
  <2> QED BY <1>s, <1>4, <2>1, <2>3 DEF CloseFalsePositive, SameCase
<1>5. CASE SaveFalsePositive(i)
  <2>1. \A j \in Invs : SameCase(j)
    BY <1>t, <1>5, UpdatedVerdict DEF SaveFalsePositive, FinalVerdicts
  <2>2. handler'[i].pc = "returning"
    BY <1>t, <1>5, HandlerMoved DEF SaveFalsePositive, HandlerAt
  <2>3. HandlerInv(i)' /\ CaseInv(i)'
    BY <1>t, <1>d, <1>5, <2>1, <2>2
    DEF SaveFalsePositive, TriageVerdicts, HandlerAt, HandlerInv, CaseInv, CaseReady, SameCase, PastTriage, PastReports, Automatic, Late,
           Suspicious, bankAndRequests
  <2> QED BY <1>s, <1>5, <2>1, <2>3 DEF SaveFalsePositive, SameCase
<1>6. CASE StartTerminal(i)
  <2>1. \A j \in Invs : SameCase(j)
    BY <1>t, <1>6, UpdatedState DEF StartTerminal, States
  <2>2. handler'[i].pc = "investigating"
    BY <1>t, <1>6, HandlerMoved DEF StartTerminal, HandlerAt
  <2>3. HandlerInv(i)' /\ CaseInv(i)'
    BY <1>t, <1>d, <1>6, <2>1, <2>2
    DEF StartTerminal, TriageVerdicts, HandlerAt, HandlerInv, CaseInv, CaseReady, SameCase, PastTriage, PastReports, Automatic, Late,
           Suspicious, bankAndRequests
  <2> QED BY <1>s, <1>6, <2>1, <2>3 DEF StartTerminal, SameCase
<1>7. CASE SaveTerminal(i)
  <2>0. {"terminal"} \in SUBSET {"terminal", "compliance"}
    OBVIOUS
  <2>1. /\ doc'[i].triage = doc[i].triage /\ doc'[i].confidence = doc[i].confidence
           /\ doc'[i].reports = doc[i].reports \cup {"terminal"}
        /\ \A j \in Invs : j # i => SameCase(j)
    BY <1>t, <1>7, <2>0, UpdatedReports DEF SaveTerminal
  <2>2. handler'[i].pc = "investigated"
    BY <1>t, <1>7, HandlerMoved DEF SaveTerminal
  <2>4. ~frozen[i] /\ escalation[i] = "none"
    BY <1>t, <1>7 DEF SaveTerminal, HandlerAt, CaseInv, Late
  <2>5. "terminal" \in doc'[i].reports
    BY <1>t, <1>d, <1>7, <2>1 DEF SaveTerminal, HandlerAt, HandlerInv, TriageVerdicts
  <2>6. doc'[i].triage \in Suspicious
    BY <1>t, <1>7, <2>1 DEF SaveTerminal, HandlerAt, HandlerInv, PastTriage
  <2>3. HandlerInv(i)' /\ CaseInv(i)'
    BY <1>7, <2>2, <2>4, <2>5, <2>6
    DEF SaveTerminal, HandlerInv, CaseInv, PastTriage, PastReports, Automatic, bankAndRequests
  <2> QED BY <1>s, <1>7, <2>1, <2>3 DEF SaveTerminal
<1>8. CASE StartCompliance(i)
  <2>1. \A j \in Invs : SameCase(j)
    BY <1>t, <1>8, UpdatedState DEF StartCompliance, States
  <2>2. handler'[i].pc = "reporting"
    BY <1>t, <1>8, HandlerMoved DEF StartCompliance, HandlerAt
  <2>3. HandlerInv(i)' /\ CaseInv(i)'
    BY <1>t, <1>d, <1>8, <2>1, <2>2
    DEF StartCompliance, TriageVerdicts, HandlerAt, HandlerInv, CaseInv, CaseReady, SameCase, PastTriage, PastReports, Automatic, Late,
           Suspicious, bankAndRequests
  <2> QED BY <1>s, <1>8, <2>1, <2>3 DEF StartCompliance, SameCase
<1>9. CASE SaveCompliance(i)
  <2>0. {"compliance"} \in SUBSET {"terminal", "compliance"}
    OBVIOUS
  <2>1. /\ doc'[i].triage = doc[i].triage /\ doc'[i].confidence = doc[i].confidence
           /\ doc'[i].reports = doc[i].reports \cup {"compliance"}
        /\ \A j \in Invs : j # i => SameCase(j)
    BY <1>t, <1>9, <2>0, UpdatedReports DEF SaveCompliance
  <2>2. handler'[i].pc = "reported"
    BY <1>t, <1>9, HandlerMoved DEF SaveCompliance
  <2>4. ~frozen[i] /\ escalation[i] = "none"
    BY <1>t, <1>9 DEF SaveCompliance, HandlerAt, CaseInv, Late
  <2>5. doc'[i].reports = {"terminal", "compliance"}
    BY <1>t, <1>d, <1>9, <2>1 DEF SaveCompliance, HandlerAt, HandlerInv, TriageVerdicts
  <2>6. doc'[i].triage \in Suspicious
    BY <1>t, <1>9, <2>1 DEF SaveCompliance, HandlerAt, HandlerInv, PastTriage
  <2>3. HandlerInv(i)' /\ CaseInv(i)'
    BY <1>9, <2>2, <2>4, <2>5, <2>6
    DEF SaveCompliance, HandlerInv, CaseInv, PastTriage, PastReports, Automatic, bankAndRequests
  <2> QED BY <1>s, <1>9, <2>1, <2>3 DEF SaveCompliance
<1>10. CASE SaveConsensus(i)
  <2>1. /\ doc'[i].triage = doc[i].triage /\ doc'[i].reports = doc[i].reports
        /\ \A j \in Invs : j # i => SameCase(j)
    BY <1>t, <1>10, UpdatedConfidence DEF SaveConsensus
  <2>2. handler'[i].pc = "consensus"
    BY <1>t, <1>10, HandlerMoved DEF SaveConsensus, HandlerAt
  <2>3. HandlerInv(i)' /\ CaseInv(i)'
    BY <1>t, <1>d, <1>10, <2>1, <2>2
    DEF SaveConsensus, TriageVerdicts, HandlerAt, HandlerInv, CaseInv, CaseReady, SameCase, PastTriage, PastReports, Automatic, Late,
           Suspicious, bankAndRequests
  <2>4. ~frozen[i]
    BY <1>t, <1>10 DEF SaveConsensus, HandlerAt, CaseInv, Late
  <2> QED BY <1>s, <1>10, <2>1, <2>3, <2>4 DEF SaveConsensus
<1>11. CASE AwaitApproval(i)
  <2>1. \A j \in Invs : SameCase(j)
    BY <1>t, <1>11, UpdatedState DEF AwaitApproval, States
  <2>2. handler'[i].pc = "escalating"
    BY <1>t, <1>11, HandlerMoved DEF AwaitApproval, HandlerAt
  <2>3. HandlerInv(i)' /\ CaseInv(i)'
    BY <1>t, <1>d, <1>11, <2>1, <2>2
    DEF AwaitApproval, TriageVerdicts, HandlerAt, HandlerInv, CaseInv, CaseReady, SameCase, PastTriage, PastReports, Automatic, Late,
           Suspicious, bankAndRequests
  <2> QED BY <1>s, <1>11, <2>1, <2>3 DEF AwaitApproval, SameCase
<1>12. CASE CreateEscalation(i)
  <2>1. handler'[i].pc = "escalated" /\ doc' = doc /\ frozen' = frozen /\ request' = request
    BY <1>t, <1>12, HandlerMoved DEF CreateEscalation
  <2>2. OnlyConcerns(i)
    BY <1>t, <1>12, <2>1, HandlerMoved DEF CreateEscalation, OnlyConcerns, TypeOK, SameCase
  <2>3. HandlerInv(i)' /\ CaseInv(i)'
    BY <1>t, <1>12, <2>1 DEF CreateEscalation, HandlerAt, HandlerInv, CaseInv, CaseReady,
                             PastTriage, PastReports, Automatic, Late, Suspicious
  <2>4. frozen'[i] => Authorised(i)'
    BY <1>t, <2>1 DEF Authorised, Approves
  <2> QED BY <2>2, <2>3, <2>4, HandlerLocal
<1>13. CASE LinkEscalation(i)
  <2>1. \A j \in Invs : SameCase(j)
    BY <1>t, <1>13, Unchanged DEF LinkEscalation
  <2>2. handler'[i].pc = "returning"
    BY <1>t, <1>13, HandlerMoved DEF LinkEscalation, HandlerAt
  <2>3. HandlerInv(i)' /\ CaseInv(i)'
    BY <1>t, <1>d, <1>13, <2>1, <2>2
    DEF LinkEscalation, TriageVerdicts, HandlerAt, HandlerInv, CaseInv, CaseReady, SameCase, PastTriage, PastReports, Automatic, Late,
           Suspicious, bankAndRequests
  <2> QED BY <1>s, <1>13, <2>1, <2>3 DEF LinkEscalation, SameCase
<1>14. CASE StartRemediation(i)
  <2>1. \A j \in Invs : SameCase(j)
    BY <1>t, <1>14, UpdatedState DEF StartRemediation, States
  <2>2. handler'[i].pc = "remediating"
    BY <1>t, <1>14, HandlerMoved DEF StartRemediation, HandlerAt
  <2>3. HandlerInv(i)' /\ CaseInv(i)'
    BY <1>t, <1>d, <1>14, <2>1, <2>2
    DEF StartRemediation, TriageVerdicts, HandlerAt, HandlerInv, CaseInv, CaseReady, SameCase, PastTriage, PastReports, Automatic, Late,
           Suspicious, bankAndRequests
  <2> QED BY <1>s, <1>14, <2>1, <2>3 DEF StartRemediation, SameCase
<1>15. CASE HandlerBridge(i)
  <2>1. PICK out \in BridgeOutcomes :
            /\ CallBridge(i, out)
            /\ handler' = [handler EXCEPT ![i] = [pc |-> "bridge_returned", result |-> out.result]]
    BY <1>15 DEF HandlerBridge
  <2>2. OnlyConcerns(i)
    BY <1>t, <1>15, <2>1, Unchanged DEF HandlerBridge, OnlyConcerns, CallBridge, TypeOK, SameCase
  <2>3. handler'[i].pc = "bridge_returned" /\ doc' = doc
    BY <1>t, <1>15, <2>1 DEF HandlerBridge, TypeOK
  <2>4. doc[i].confidence = "high" /\ CaseReady(i)
    BY <1>t, <1>15 DEF HandlerBridge, HandlerAt, HandlerInv, CaseReady, PastTriage, PastReports,
                       Automatic
  <2>5. HandlerInv(i)' /\ CaseInv(i)'
    BY <2>3, <2>4 DEF HandlerInv, CaseInv, CaseReady, Late, Suspicious
  <2>6. Authorised(i)'
    BY <2>3, <2>4 DEF Authorised
  <2> QED BY <2>2, <2>5, <2>6, HandlerLocal
<1>16. CASE HandlerLog(i)
  <2>1. handler'[i].pc = "remediated" /\ UNCHANGED <<doc, escalation, frozen, request>>
    BY <1>16, <1>t, HandlerMoved DEF HandlerLog
  <2>2. OnlyConcerns(i)
    BY <1>t, <1>16, <2>1, HandlerMoved DEF HandlerLog, OnlyConcerns, SameCase
  <2>3. HandlerInv(i)' /\ CaseInv(i)'
    BY <1>t, <1>16, <2>1 DEF HandlerLog, HandlerAt, HandlerInv, CaseInv, CaseReady,
                             PastTriage, PastReports, Automatic, Late, Suspicious
  <2>4. frozen'[i] => Authorised(i)'
    BY <1>t, <2>1 DEF Authorised, Approves
  <2> QED BY <2>2, <2>3, <2>4, HandlerLocal
<1>17. CASE HandlerSaveRemediation(i)
  <2>1. \A j \in Invs : SameCase(j)
    BY <1>t, <1>17, UpdatedRemediation DEF HandlerSaveRemediation, FinalVerdicts, TypeOK
  <2>2. handler'[i].pc = "verdict_saved"
    BY <1>t, <1>17, HandlerMoved DEF HandlerSaveRemediation, HandlerAt
  <2>3. HandlerInv(i)' /\ CaseInv(i)'
    BY <1>t, <1>d, <1>17, <2>1, <2>2
    DEF HandlerSaveRemediation, TriageVerdicts, HandlerAt, HandlerInv, CaseInv, CaseReady, SameCase, PastTriage, PastReports, Automatic, Late,
           Suspicious, bankAndRequests
  <2> QED BY <1>s, <1>17, <2>1, <2>3 DEF HandlerSaveRemediation, SameCase
<1>18. CASE HandlerClose(i)
  <2>1. \A j \in Invs : SameCase(j)
    BY <1>t, <1>18, UpdatedState DEF HandlerClose, States
  <2>2. handler'[i].pc = "returning"
    BY <1>t, <1>18, HandlerMoved DEF HandlerClose, HandlerAt
  <2>3. HandlerInv(i)' /\ CaseInv(i)'
    BY <1>t, <1>d, <1>18, <2>1, <2>2
    DEF HandlerClose, TriageVerdicts, HandlerAt, HandlerInv, CaseInv, CaseReady, SameCase, PastTriage, PastReports, Automatic, Late,
           Suspicious, bankAndRequests
  <2> QED BY <1>s, <1>18, <2>1, <2>3 DEF HandlerClose, SameCase
<1>19. CASE Return(i)
  <2>1. \A j \in Invs : SameCase(j)
    BY <1>t, <1>19, Unchanged DEF Return
  <2>2. handler'[i].pc = "done"
    BY <1>t, <1>19, HandlerMoved DEF Return, HandlerAt
  <2>3. HandlerInv(i)' /\ CaseInv(i)'
    BY <1>t, <1>d, <1>19, <2>1, <2>2
    DEF Return, TriageVerdicts, HandlerAt, HandlerInv, CaseInv, CaseReady, SameCase, PastTriage, PastReports, Automatic, Late,
           Suspicious, bankAndRequests
  <2> QED BY <1>s, <1>19, <2>1, <2>3 DEF Return, SameCase
<1>20. CASE Fail(i)
  <2>1. \A j \in Invs : SameCase(j)
    BY <1>t, <1>20, UpdatedState DEF Fail, States
  <2>2. handler'[i].pc = "failed"
    BY <1>t, <1>20, HandlerMoved DEF Fail, HandlerAt
  <2>3. HandlerInv(i)' /\ CaseInv(i)'
    BY <1>t, <1>d, <1>20, <2>1, <2>2
    DEF Fail, TriageVerdicts, HandlerAt, HandlerInv, CaseInv, CaseReady, SameCase, PastTriage, PastReports, Automatic, Late,
           Suspicious, bankAndRequests
  <2> QED BY <1>s, <1>20, <2>1, <2>3 DEF Fail, SameCase
<1>21. CASE SaveError(i)
  <2>1. \A j \in Invs : SameCase(j)
    BY <1>t, <1>21, UpdatedVerdict DEF SaveError, FinalVerdicts
  <2>2. handler'[i].pc = "done"
    BY <1>t, <1>21, HandlerMoved DEF SaveError, HandlerAt
  <2>3. HandlerInv(i)' /\ CaseInv(i)'
    BY <1>t, <1>d, <1>21, <2>1, <2>2
    DEF SaveError, TriageVerdicts, HandlerAt, HandlerInv, CaseInv, CaseReady, SameCase, PastTriage, PastReports, Automatic, Late,
           Suspicious, bankAndRequests
  <2> QED BY <1>s, <1>21, <2>1, <2>3 DEF SaveError, SameCase
<1>22. CASE Raise(i)
  <2>1. \A j \in Invs : SameCase(j)
    BY <1>t, <1>22, Unchanged DEF Raise
  <2>2. handler'[i].pc = "except"
    BY <1>t, <1>22, HandlerMoved DEF Raise, HandlerAt
  <2>3. HandlerInv(i)' /\ CaseInv(i)'
    BY <1>t, <1>d, <1>22, <2>1, <2>2
    DEF Raise, TriageVerdicts, HandlerAt, HandlerInv, CaseInv, CaseReady, SameCase, PastTriage, PastReports, Automatic, Late,
           Suspicious, bankAndRequests, InTry
  <2> QED BY <1>s, <1>22, <2>1, <2>3 DEF Raise, SameCase
<1>23. CASE HandlerDies(i)
  <2>1. \A j \in Invs : SameCase(j)
    BY <1>t, <1>23, Unchanged DEF HandlerDies
  <2>2. handler'[i].pc = "gone"
    BY <1>t, <1>23, HandlerMoved DEF HandlerDies, HandlerAt
  <2>3. HandlerInv(i)' /\ CaseInv(i)'
    BY <1>t, <1>d, <1>23, <2>1, <2>2
    DEF HandlerDies, TriageVerdicts, HandlerAt, HandlerInv, CaseInv, CaseReady, SameCase, PastTriage, PastReports, Automatic, Late,
           Suspicious, bankAndRequests
  <2> QED BY <1>s, <1>23, <2>1, <2>3 DEF HandlerDies, SameCase
<1>q. QED
  BY <1>1, <1>2, <1>3, <1>4, <1>5, <1>6, <1>7, <1>8, <1>9, <1>10, <1>11, <1>12, <1>13, <1>14, <1>15, <1>16, <1>17, <1>18, <1>19, <1>20, <1>21, <1>22, <1>23 DEF HandlerStep

LEMMA RequestMoved ==
    ASSUME TypeOK, NEW a \in Requests, NEW pc, RequestTo(a, pc)
    PROVE  /\ request'[a].pc = pc
           /\ request'[a].inv = request[a].inv /\ request'[a].approved = request[a].approved
           /\ \A b \in Requests : b # a => request'[b] = request[b]
BY DEF TypeOK, RequestTo

\* What a decision request may not disturb: the handlers, the other requests, what a
\* case rests on, whether an escalation exists; and an approval is never taken back.
OnlyDecides(a) ==
    /\ handler' = handler
    /\ \A j \in Invs : SameCase(j) /\ (escalation'[j] = "none" <=> escalation[j] = "none")
    /\ \A b \in Requests : b # a => request'[b] = request[b]
    /\ request'[a].inv = request[a].inv /\ request'[a].approved = request[a].approved
    /\ request[a].pc \notin Unrecorded => request'[a].pc \notin Unrecorded

LEMMA RequestLocal ==
    ASSUME FreezeInv, TypeOK', NEW a \in Requests, OnlyDecides(a), RequestInv(a)',
           \A j \in Invs : frozen'[j] => frozen[j] \/ (Approves(a, j) /\ escalation[j] # "none")
    PROVE  FreezeInv'
<1>1. ASSUME NEW j \in Invs PROVE HandlerInv(j)' /\ CaseInv(j)'
  BY DEF FreezeInv, OnlyDecides, HandlerInv, CaseInv, CaseReady, SameCase
<1>2. ASSUME NEW b \in Requests PROVE RequestInv(b)'
  BY DEF FreezeInv, OnlyDecides, RequestInv, TypeOK
<1>3. ASSUME NEW j \in Invs, frozen'[j] PROVE Authorised(j)'
  <2>1. Authorised(j)
    BY <1>3 DEF FreezeInv, Authorised
  <2>2. ASSUME NEW b \in Requests, Approves(b, j) PROVE Approves(b, j)'
    BY <2>2 DEF OnlyDecides, Approves
  <2>3. doc'[j].confidence = doc[j].confidence
    BY DEF OnlyDecides, SameCase
  <2> QED BY <2>1, <2>2, <2>3 DEF Authorised
<1> QED BY <1>1, <1>2, <1>3 DEF FreezeInv

LEMMA RequestKeepsFreezeInv ==
    ASSUME FreezeInv, TypeOK', NEW a \in Requests,
           FindEscalation(a) \/ DecisionStep(a) \/ RequestDies(a)
    PROVE  FreezeInv'
<1>t. TypeOK /\ RequestInv(a) /\ request[a].inv \in Invs
  BY DEF FreezeInv, TypeOK
<1>s. ASSUME NEW pc, RequestTo(a, pc), pc # "idle",
             pc \in Unrecorded => request[a].pc \in Unrecorded,
             handler' = handler, frozen' = frozen,
             \A j \in Invs : SameCase(j) /\ (escalation'[j] = "none" <=> escalation[j] = "none"),
             RequestInv(a)'
      PROVE  FreezeInv'
  <2>1. OnlyDecides(a)
    BY <1>t, <1>s, RequestMoved DEF OnlyDecides
  <2> QED BY <1>s, <2>1, RequestLocal
<1>1. CASE FindEscalation(a)
  <2>1. request[a].pc = "idle" /\ request'[a].pc = "found" /\ frozen' = frozen
    BY <1>t, <1>1, RequestMoved DEF FindEscalation, RequestAt
  <2>2. OnlyDecides(a)
    BY <1>t, <1>1, <2>1, RequestMoved, Unchanged
    DEF FindEscalation, OnlyDecides, docAndHandlers, Unrecorded
  <2>3. RequestInv(a)'
    BY <1>t, <1>1, <2>1, RequestMoved DEF FindEscalation, RequestInv
  <2> QED BY <2>1, <2>2, <2>3, RequestLocal
<1>2. CASE Decide(a)
  <2> DEFINE status == IF request[a].approved THEN "approved" ELSE "denied"
  <2>1. /\ request[a].pc = "found" /\ escalation[request[a].inv] # "none"
        /\ RequestTo(a, status) /\ handler' = handler /\ frozen' = frozen /\ doc' = doc
        /\ escalation' = [escalation EXCEPT ![request[a].inv] = status]
    BY <1>t, <1>2 DEF Decide, RequestAt, RequestInv, docAndHandlers
  <2>2. \A j \in Invs : SameCase(j) /\ (escalation'[j] = "none" <=> escalation[j] = "none")
    BY <1>t, <2>1, Unchanged DEF TypeOK
  <2>3. RequestInv(a)'
    BY <1>t, <2>1, <2>2, RequestMoved DEF RequestInv
  <2> QED BY <1>s, <2>1, <2>2, <2>3 DEF Unrecorded
<1>3. CASE ResumeRemediation(a)
  <2>1. \A j \in Invs : SameCase(j)
    BY <1>t, <1>3, UpdatedState DEF ResumeRemediation, docAndHandlers, States
  <2>2. RequestTo(a, "remediating") /\ UNCHANGED <<escalation, handler, frozen>>
    BY <1>3 DEF ResumeRemediation, docAndHandlers
  <2>3. RequestInv(a)'
    BY <1>t, <1>3, <2>2, RequestMoved DEF ResumeRemediation, RequestAt, RequestInv
  <2> QED BY <1>s, <2>1, <2>2, <2>3 DEF Unrecorded
<1>4. CASE RequestBridge(a)
  <2>1. PICK out \in BridgeOutcomes :
            /\ CallBridge(request[a].inv, out)
            /\ request' = [request EXCEPT ![a].pc = "bridge_returned", ![a].result = out.result]
    BY <1>4 DEF RequestBridge
  <2>2. /\ request[a].pc = "remediating" /\ request'[a].pc = "bridge_returned"
        /\ request'[a].inv = request[a].inv /\ request'[a].approved = request[a].approved
        /\ \A b \in Requests : b # a => request'[b] = request[b]
    BY <1>t, <1>4, <2>1 DEF RequestBridge, RequestAt, TypeOK
  <2>3. OnlyDecides(a)
    BY <1>t, <1>4, <2>2, Unchanged DEF RequestBridge, OnlyDecides, docAndHandlers, Unrecorded
  <2>4. RequestInv(a)'
    BY <1>t, <1>4, <2>2 DEF RequestBridge, RequestInv
  <2>5. Approves(a, request[a].inv) /\ escalation[request[a].inv] # "none"
    BY <1>t, <2>2 DEF RequestInv, Approves, Unrecorded
  <2>6. \A j \in Invs : frozen'[j] => frozen[j] \/ (Approves(a, j) /\ escalation[j] # "none")
    BY <1>t, <2>1, <2>5 DEF CallBridge, TypeOK
  <2> QED BY <2>3, <2>4, <2>6, RequestLocal
<1>5. CASE RequestLog(a)
  <2>1. \A j \in Invs : SameCase(j)
    BY <1>t, <1>5, Unchanged DEF RequestLog, docAndHandlers
  <2>2. RequestTo(a, "remediated") /\ UNCHANGED <<escalation, handler, frozen>>
    BY <1>5 DEF RequestLog, docAndHandlers
  <2>3. RequestInv(a)'
    BY <1>t, <1>5, <2>2, RequestMoved DEF RequestLog, RequestAt, RequestInv
  <2> QED BY <1>s, <2>1, <2>2, <2>3 DEF Unrecorded
<1>6. CASE RequestSaveRemediation(a)
  <2>1. \A j \in Invs : SameCase(j)
    BY <1>t, <1>6, UpdatedRemediation DEF RequestSaveRemediation, docAndHandlers, FinalVerdicts, TypeOK
  <2>2. RequestTo(a, "closing") /\ UNCHANGED <<escalation, handler, frozen>>
    BY <1>6 DEF RequestSaveRemediation, docAndHandlers
  <2>3. RequestInv(a)'
    BY <1>t, <1>6, <2>2, RequestMoved DEF RequestSaveRemediation, RequestAt, RequestInv
  <2> QED BY <1>s, <2>1, <2>2, <2>3 DEF Unrecorded
<1>7. CASE ClearByAnalyst(a)
  <2>1. \A j \in Invs : SameCase(j)
    BY <1>t, <1>7, UpdatedVerdict DEF ClearByAnalyst, docAndHandlers, FinalVerdicts
  <2>2. RequestTo(a, "closing") /\ UNCHANGED <<escalation, handler, frozen>>
    BY <1>7 DEF ClearByAnalyst, docAndHandlers
  <2>3. RequestInv(a)'
    BY <1>t, <1>7, <2>2, RequestMoved DEF ClearByAnalyst, RequestAt, RequestInv
  <2> QED BY <1>s, <2>1, <2>2, <2>3 DEF Unrecorded
<1>8. CASE RequestClose(a)
  <2>1. \A j \in Invs : SameCase(j)
    BY <1>t, <1>8, UpdatedState DEF RequestClose, docAndHandlers, States
  <2>2. RequestTo(a, "done") /\ UNCHANGED <<escalation, handler, frozen>>
    BY <1>8 DEF RequestClose, docAndHandlers
  <2>3. RequestInv(a)'
    BY <1>t, <1>8, <2>2, RequestMoved DEF RequestClose, RequestAt, RequestInv
  <2> QED BY <1>s, <2>1, <2>2, <2>3 DEF Unrecorded
<1>9. CASE RequestDies(a)
  <2>1. \A j \in Invs : SameCase(j)
    BY <1>t, <1>9, Unchanged DEF RequestDies, docAndHandlers
  <2>2. PICK pc \in {"gone", "dropped"} :
            RequestTo(a, pc) /\ (pc = "dropped" => request[a].pc = "found")
    BY <1>9 DEF RequestDies, RequestAt
  <2>3. request[a].pc # "idle" /\ UNCHANGED <<escalation, handler, frozen>>
    BY <1>9 DEF RequestDies, docAndHandlers
  <2>4. RequestInv(a)'
    BY <1>t, <2>2, <2>3, RequestMoved DEF RequestInv
  <2> QED BY <1>s, <2>1, <2>2, <2>3, <2>4 DEF Unrecorded
<1>q. QED
  BY <1>1, <1>2, <1>3, <1>4, <1>5, <1>6, <1>7, <1>8, <1>9 DEF DecisionStep

LEMMA FreezeInvInit == Init => FreezeInv
<1> SUFFICES ASSUME Init PROVE FreezeInv
  OBVIOUS
<1>1. TypeOK BY TypeInit
<1>2. ASSUME NEW i \in Invs PROVE HandlerInv(i) /\ CaseInv(i) /\ ~frozen[i]
  BY DEF Init, HandlerInv, CaseInv, PastTriage, PastReports, Automatic
<1>3. ASSUME NEW a \in Requests PROVE RequestInv(a)
  BY DEF Init, RequestInv
<1> QED BY <1>1, <1>2, <1>3 DEF FreezeInv

LEMMA FreezeInvNext == FreezeInv /\ [Next]_vars => FreezeInv'
<1> SUFFICES ASSUME FreezeInv, [Next]_vars PROVE FreezeInv'
  OBVIOUS
<1>1. CASE UNCHANGED vars
  BY <1>1 DEF vars, FreezeInv, TypeOK, HandlerInv, CaseInv, CaseReady, RequestInv, Authorised,
              Approves
<1>2. ASSUME NEW i \in Invs, HandlerStep(i) \/ Raise(i) \/ HandlerDies(i)
      PROVE  FreezeInv'
  BY <1>2, HandlerKeepsTypes, HandlerKeepsFreezeInv DEF FreezeInv
<1>3. ASSUME NEW a \in Requests, FindEscalation(a) \/ DecisionStep(a) \/ RequestDies(a)
      PROVE  FreezeInv'
  BY <1>3, RequestKeepsTypes, RequestKeepsFreezeInv DEF FreezeInv
<1> QED BY <1>1, <1>2, <1>3 DEF Next

\* No account is ever frozen before the triage found it suspicious, both reports are on
\* file and the consensus or a recorded approval authorises it: for any number of
\* investigations and concurrent decision requests, exceptions and crashes included.
THEOREM FreezesAuthorised == Spec => []FreezeOnlyAuthorised
<1>1. FreezeInv => FreezeOnlyAuthorised
  BY DEF FreezeInv, FreezeOnlyAuthorised, CaseInv, CaseReady, Suspicious
<1> QED BY <1>1, FreezeInvInit, FreezeInvNext, PTL DEF Spec

-----------------------------------------------------------------------------
(* The pipeline implements FreezeAuthority *)

authorisedCases == {i \in Invs : Authorised(i)}
frozenCases == {i \in Invs : frozen[i]}

AbstractStep == [Authority!Next]_<<authorisedCases, frozenCases>>

\* A step that touches the authority and the account of one case only, takes neither
\* back, changes at most one of them and freezes only with authority, is abstract.
LEMMA OneCase ==
    ASSUME NEW i \in Invs,
           \A j \in Invs : j # i => (Authorised(j)' <=> Authorised(j)) /\ frozen'[j] = frozen[j],
           Authorised(i) => Authorised(i)',
           frozen[i] => frozen'[i],
           frozen'[i] = frozen[i] \/ (Authorised(i) /\ (frozen'[i] \/ ~frozen[i]))
    PROVE  AbstractStep
<1>1. CASE ~Authorised(i) /\ Authorised(i)'
  <2>1. frozenCases' = frozenCases
    BY <1>1 DEF frozenCases
  <2>2. authorisedCases' = authorisedCases \cup {i} /\ i \notin authorisedCases
    BY <1>1 DEF authorisedCases
  <2> QED BY <2>1, <2>2 DEF AbstractStep, Authority!Next, Authority!Authorise,
                            authorisedCases, frozenCases
<1>2. CASE Authorised(i)' <=> Authorised(i)
  <2>1. authorisedCases' = authorisedCases
    BY <1>2 DEF authorisedCases
  <2>2. CASE ~frozen[i] /\ frozen'[i]
    <3>1. frozenCases' = frozenCases \cup {i} /\ i \in authorisedCases
      BY <2>2 DEF authorisedCases, frozenCases
    <3> QED BY <2>1, <3>1 DEF AbstractStep, Authority!Next, Authority!Freeze,
                              authorisedCases, frozenCases
  <2>3. CASE frozen'[i] <=> frozen[i]
    <3>1. frozenCases' = frozenCases
      BY <2>3 DEF frozenCases
    <3> QED BY <2>1, <3>1 DEF AbstractStep
  <2> QED BY <2>2, <2>3
<1> QED BY <1>1, <1>2

\* Steps that leave accounts, requests and confidences alone.
LEMMA NoAuthority ==
    ASSUME frozen' = frozen, request' = request,
           \A j \in Invs : doc'[j].confidence = doc[j].confidence
    PROVE  AbstractStep
<1>1. \A j \in Invs : Authorised(j)' <=> Authorised(j)
  BY DEF Authorised, Approves
<1>2. authorisedCases' = authorisedCases /\ frozenCases' = frozenCases
  BY <1>1 DEF authorisedCases, frozenCases
<1> QED BY <1>2 DEF AbstractStep

\* Only the consensus changes a confidence.
LEMMA HandlerConfidence ==
    ASSUME TypeOK, NEW i \in Invs, HandlerStep(i) \/ Raise(i) \/ HandlerDies(i),
           ~SaveConsensus(i)
    PROVE  request' = request /\ \A j \in Invs : doc'[j].confidence = doc[j].confidence
<1>1. CASE \/ CreateInvestigation(i) \/ StartTriage(i) \/ CloseFalsePositive(i)
           \/ StartTerminal(i) \/ StartCompliance(i) \/ AwaitApproval(i)
           \/ StartRemediation(i) \/ HandlerClose(i) \/ Fail(i)
  <2>1. PICK st \in States : UpdateState(i, st)
    BY <1>1 DEF States, CreateInvestigation, StartTriage, CloseFalsePositive, StartTerminal,
       StartCompliance, AwaitApproval, StartRemediation, HandlerClose, Fail
  <2>2. request' = request
    BY <1>1 DEF bankAndRequests, CreateInvestigation, StartTriage, CloseFalsePositive,
       StartTerminal, StartCompliance, AwaitApproval, StartRemediation, HandlerClose, Fail
  <2> QED BY <2>1, <2>2, UpdatedState DEF SameCase
<1>2. CASE \/ CreateEscalation(i) \/ LinkEscalation(i) \/ HandlerBridge(i) \/ HandlerLog(i)
           \/ Return(i) \/ Raise(i) \/ HandlerDies(i)
  BY <1>2 DEF bankAndRequests, CreateEscalation, LinkEscalation, HandlerBridge, HandlerLog,
     Return, Raise, HandlerDies
<1>3. CASE SaveTriage(i)
  <2>1. PICK v \in TriageVerdicts : doc' = [doc EXCEPT ![i].triage = v]
    BY <1>3 DEF SaveTriage
  <2> QED BY <1>3, <2>1, UpdatedTriage DEF SaveTriage, bankAndRequests, SameCase
<1>4. CASE SaveTerminal(i) \/ SaveCompliance(i)
  <2>1. PICK r \in {{"terminal"}, {"compliance"}} : doc' = [doc EXCEPT ![i].reports = @ \cup r]
    BY <1>4 DEF SaveTerminal, SaveCompliance
  <2>2. request' = request /\ r \in SUBSET {"terminal", "compliance"}
    BY <1>4 DEF SaveTerminal, SaveCompliance, bankAndRequests
  <2> QED BY <2>1, <2>2, UpdatedReports DEF SameCase
<1>5. CASE SaveFalsePositive(i) \/ SaveError(i)
  <2>1. PICK v \in FinalVerdicts : doc' = [doc EXCEPT ![i].verdict = v]
    BY <1>5 DEF SaveFalsePositive, SaveError, FinalVerdicts
  <2>2. request' = request
    BY <1>5 DEF SaveFalsePositive, SaveError, bankAndRequests
  <2> QED BY <2>1, <2>2, UpdatedVerdict DEF SameCase
<1>6. CASE HandlerSaveRemediation(i)
  <2>1. /\ SaveRemediation(i, handler[i].result, "confirmed_fraud") /\ request' = request
        /\ handler[i].result \in Results /\ "confirmed_fraud" \in FinalVerdicts
    BY <1>6 DEF HandlerSaveRemediation, bankAndRequests, TypeOK, FinalVerdicts
  <2> QED BY <2>1, UpdatedRemediation DEF SameCase
<1> QED BY <1>1, <1>2, <1>3, <1>4, <1>5, <1>6 DEF HandlerStep

LEMMA RequestConfidence ==
    ASSUME TypeOK, NEW a \in Requests, FindEscalation(a) \/ DecisionStep(a) \/ RequestDies(a)
    PROVE  handler' = handler /\ \A j \in Invs : doc'[j].confidence = doc[j].confidence
<1>t. request[a].inv \in Invs /\ request[a].result \in Results
  BY DEF TypeOK
<1>1. CASE FindEscalation(a) \/ Decide(a) \/ RequestBridge(a) \/ RequestLog(a) \/ RequestDies(a)
  BY <1>1 DEF FindEscalation, Decide, RequestBridge, RequestLog, RequestDies, docAndHandlers
<1>2. CASE ResumeRemediation(a) \/ RequestClose(a)
  <2>1. PICK st \in States : UpdateState(request[a].inv, st)
    BY <1>2 DEF States, ResumeRemediation, RequestClose
  <2> QED BY <1>t, <1>2, <2>1, UpdatedState DEF ResumeRemediation, RequestClose, SameCase
<1>3. CASE RequestSaveRemediation(a)
  <2>1. SaveRemediation(request[a].inv, request[a].result, "confirmed_fraud_hitl")
    BY <1>3 DEF RequestSaveRemediation
  <2>2. handler' = handler /\ "confirmed_fraud_hitl" \in FinalVerdicts
    BY <1>3 DEF RequestSaveRemediation, FinalVerdicts
  <2> QED BY <1>t, <2>1, <2>2, UpdatedRemediation DEF SameCase
<1>4. CASE ClearByAnalyst(a)
  <2>1. /\ doc' = [doc EXCEPT ![request[a].inv].verdict = "cleared_by_analyst"]
        /\ handler' = handler /\ "cleared_by_analyst" \in FinalVerdicts
    BY <1>4 DEF ClearByAnalyst, FinalVerdicts
  <2> QED BY <1>t, <2>1, UpdatedVerdict DEF SameCase
<1> QED BY <1>1, <1>2, <1>3, <1>4 DEF DecisionStep

\* Before the consensus the confidence is not high, so the consensus cannot take an
\* authority back.
BeforeConsensus == {"idle", "created", "triaging", "triaged", "fp_closed", "investigating",
                    "investigated", "reporting", "reported"}

Undecided == \A i \in Invs : handler[i].pc \in BeforeConsensus => doc[i].confidence # "high"

LEMMA UndecidedNext == FreezeInv /\ Undecided /\ [Next]_vars => Undecided'
<1> SUFFICES ASSUME FreezeInv, Undecided, [Next]_vars PROVE Undecided'
  OBVIOUS
<1>t. TypeOK
  BY DEF FreezeInv
<1>1. CASE UNCHANGED vars
  BY <1>1 DEF vars, Undecided
<1>2. ASSUME NEW i \in Invs, HandlerStep(i) \/ Raise(i) \/ HandlerDies(i) PROVE Undecided'
  <2>1. CASE SaveConsensus(i)
    <3>1. PICK c \in {"low", "high"} : doc' = [doc EXCEPT ![i].confidence = c]
      BY <2>1 DEF SaveConsensus
    <3>2. HandlerTo(i, "consensus")
      BY <2>1 DEF SaveConsensus
    <3> QED BY <1>t, <3>1, <3>2, UpdatedConfidence, HandlerMoved
            DEF Undecided, BeforeConsensus, SameCase
  <2>2. CASE ~SaveConsensus(i)
    <3>1. \A j \in Invs : doc'[j].confidence = doc[j].confidence
      BY <1>t, <1>2, <2>2, HandlerConfidence
    <3>2. \A j \in Invs : j # i => handler'[j] = handler[j]
      BY <1>t, <1>2, HandlerMoved
      DEF HandlerStep, CreateInvestigation, StartTriage, SaveTriage, CloseFalsePositive,
          SaveFalsePositive, StartTerminal, SaveTerminal, StartCompliance, SaveCompliance,
          SaveConsensus, AwaitApproval, CreateEscalation, LinkEscalation, StartRemediation,
          HandlerBridge, HandlerLog, HandlerSaveRemediation, HandlerClose, Return, Fail,
          SaveError, Raise, HandlerDies, TypeOK
    <3>3. handler'[i].pc \in BeforeConsensus => handler[i].pc \in BeforeConsensus
      <4>1. CASE HandlerBridge(i)
        BY <1>t, <4>1 DEF HandlerBridge, TypeOK, BeforeConsensus
      <4>2. CASE ~HandlerBridge(i)
        <5>1. PICK pc : HandlerTo(i, pc) /\ (pc \in BeforeConsensus => handler[i].pc \in BeforeConsensus)
          BY <1>2, <4>2
          DEF HandlerStep, CreateInvestigation, StartTriage, SaveTriage, CloseFalsePositive,
              SaveFalsePositive, StartTerminal, SaveTerminal, StartCompliance, SaveCompliance,
              SaveConsensus, AwaitApproval, CreateEscalation, LinkEscalation, StartRemediation,
              HandlerLog, HandlerSaveRemediation, HandlerClose, Return, Fail,
              SaveError, Raise, HandlerDies, HandlerAt, BeforeConsensus
        <5> QED BY <1>t, <5>1, HandlerMoved
      <4> QED BY <4>1, <4>2
    <3> QED BY <3>1, <3>2, <3>3 DEF Undecided
  <2> QED BY <2>1, <2>2
<1>3. ASSUME NEW a \in Requests, FindEscalation(a) \/ DecisionStep(a) \/ RequestDies(a)
      PROVE  Undecided'
  BY <1>t, <1>3, RequestConfidence DEF Undecided
<1> QED BY <1>1, <1>2, <1>3 DEF Next

LEMMA HandlerImplements ==
    ASSUME FreezeInv, Undecided, NEW i \in Invs, HandlerStep(i) \/ Raise(i) \/ HandlerDies(i)
    PROVE  AbstractStep
<1>t. TypeOK /\ HandlerInv(i)
  BY DEF FreezeInv
<1>1. CASE ~HandlerBridge(i) /\ ~SaveConsensus(i)
  <2>1. frozen' = frozen
    BY <1>1 DEF HandlerStep, CreateInvestigation, StartTriage, SaveTriage, CloseFalsePositive,
       SaveFalsePositive, StartTerminal, SaveTerminal, StartCompliance, SaveCompliance,
       AwaitApproval, CreateEscalation, LinkEscalation, StartRemediation, HandlerLog,
       HandlerSaveRemediation, HandlerClose, Return, Fail, SaveError, Raise, HandlerDies,
       bankAndRequests
  <2> QED BY <1>t, <1>1, <2>1, HandlerConfidence, NoAuthority
<1>2. CASE SaveConsensus(i)
  <2>1. PICK c \in {"low", "high"} : doc' = [doc EXCEPT ![i].confidence = c]
    BY <1>2 DEF SaveConsensus
  <2>2. frozen' = frozen /\ request' = request /\ handler[i].pc = "reported"
    BY <1>2 DEF SaveConsensus, bankAndRequests, HandlerAt
  <2>3. \A j \in Invs : j # i => (Authorised(j)' <=> Authorised(j)) /\ frozen'[j] = frozen[j]
    BY <1>t, <2>1, <2>2, UpdatedConfidence DEF Authorised, Approves, SameCase
  <2>4. doc[i].confidence # "high"
    BY <2>2 DEF Undecided, BeforeConsensus
  <2>5. Authorised(i) => Authorised(i)'
    BY <2>2, <2>4 DEF Authorised, Approves
  <2> QED BY <2>2, <2>3, <2>5, OneCase
<1>3. CASE HandlerBridge(i)
  <2>1. PICK out \in BridgeOutcomes : CallBridge(i, out)
    BY <1>3 DEF HandlerBridge
  <2>2. \A j \in Invs : j # i => frozen'[j] = frozen[j]
    BY <1>t, <2>1 DEF CallBridge, TypeOK
  <2>3. frozen[i] => frozen'[i]
    BY <1>t, <2>1 DEF CallBridge, TypeOK
  <2>4. \A j \in Invs : Authorised(j)' <=> Authorised(j)
    BY <1>3 DEF HandlerBridge, Authorised, Approves
  <2>5. Authorised(i)
    BY <1>t, <1>3 DEF HandlerBridge, HandlerAt, HandlerInv, Automatic, Authorised
  <2> QED BY <2>2, <2>3, <2>4, <2>5, OneCase
<1> QED BY <1>1, <1>2, <1>3

LEMMA RequestImplements ==
    ASSUME FreezeInv, NEW a \in Requests, FindEscalation(a) \/ DecisionStep(a) \/ RequestDies(a)
    PROVE  AbstractStep
<1>t. TypeOK /\ RequestInv(a) /\ request[a].inv \in Invs
  BY DEF FreezeInv, TypeOK
<1>c. \A j \in Invs : doc'[j].confidence = doc[j].confidence
  BY <1>t, RequestConfidence
<1>1. CASE RequestBridge(a)
  <2>1. PICK out \in BridgeOutcomes :
            /\ CallBridge(request[a].inv, out)
            /\ request' = [request EXCEPT ![a].pc = "bridge_returned", ![a].result = out.result]
    BY <1>1 DEF RequestBridge
  <2>2. /\ request[a].pc = "remediating" /\ request'[a].pc = "bridge_returned"
        /\ request'[a].inv = request[a].inv /\ request'[a].approved = request[a].approved
        /\ \A b \in Requests : b # a => request'[b] = request[b]
    BY <1>t, <1>1, <2>1 DEF RequestBridge, RequestAt, TypeOK
  <2>3. \A j \in Invs : Authorised(j)' <=> Authorised(j)
    <3>1. \A j \in Invs, b \in Requests : Approves(b, j)' <=> Approves(b, j)
      BY <2>2 DEF Approves, Unrecorded
    <3> QED BY <1>c, <3>1 DEF Authorised
  <2>4. Authorised(request[a].inv)
    BY <1>t, <2>2 DEF RequestInv, Approves, Authorised, Unrecorded
  <2>5. \A j \in Invs : j # request[a].inv => frozen'[j] = frozen[j]
    BY <1>t, <2>1 DEF CallBridge, TypeOK
  <2>6. frozen[request[a].inv] => frozen'[request[a].inv]
    BY <1>t, <2>1 DEF CallBridge, TypeOK
  <2> QED BY <1>t, <2>3, <2>4, <2>5, <2>6, OneCase
<1>2. CASE Decide(a)
  <2>1. PICK pc \in {"approved", "denied"} : RequestTo(a, pc)
    BY <1>2 DEF Decide
  <2>2. frozen' = frozen /\ request[a].pc = "found"
    BY <1>2 DEF Decide, RequestAt
  <2>3. \A j \in Invs : j # request[a].inv => (Authorised(j)' <=> Authorised(j))
    <3>1. \A j \in Invs, b \in Requests : j # request[a].inv => (Approves(b, j)' <=> Approves(b, j))
      BY <1>t, <2>1, RequestMoved DEF Approves
    <3> QED BY <1>c, <3>1 DEF Authorised
  <2>4. \A b \in Requests, j \in Invs : Approves(b, j) => Approves(b, j)'
    BY <1>t, <2>1, <2>2, RequestMoved DEF Approves, Unrecorded
  <2>5. PICK i \in Invs : i = request[a].inv
    BY <1>t
  <2>6. Authorised(i) => Authorised(i)'
    BY <1>c, <2>4 DEF Authorised
  <2> QED BY <2>2, <2>3, <2>5, <2>6, OneCase
<1>3. CASE ~RequestBridge(a) /\ ~Decide(a)
  <2>1. frozen' = frozen
    BY <1>3 DEF FindEscalation, DecisionStep, ResumeRemediation, RequestLog,
       RequestSaveRemediation, ClearByAnalyst, RequestClose, RequestDies
  <2>2. PICK pc : RequestTo(a, pc) /\ (pc \in Unrecorded <=> request[a].pc \in Unrecorded)
    BY <1>3 DEF FindEscalation, DecisionStep, ResumeRemediation, RequestLog, Unrecorded,
       RequestSaveRemediation, ClearByAnalyst, RequestClose, RequestDies, RequestAt
  <2>3. \A j \in Invs, b \in Requests : Approves(b, j)' <=> Approves(b, j)
    BY <1>t, <2>2, RequestMoved DEF Approves
  <2>4. \A j \in Invs : Authorised(j)' <=> Authorised(j)
    BY <1>c, <2>3 DEF Authorised
  <2>5. authorisedCases' = authorisedCases /\ frozenCases' = frozenCases
    BY <2>1, <2>4 DEF authorisedCases, frozenCases
  <2> QED BY <2>5 DEF AbstractStep
<1> QED BY <1>1, <1>2, <1>3

\* Whatever the interleaving, the failures and the number of investigations and requests,
\* every step of the pipeline authorises one case, freezes one authorised case or does
\* neither: it implements FreezeAuthority.
THEOREM AuthorityImplemented == Spec => ImplementsFreezeAuthority
<1>1. Init => Authority!Init /\ Undecided
  <2> SUFFICES ASSUME Init PROVE Authority!Init /\ Undecided
    OBVIOUS
  <2>1. \A i \in Invs : ~Authorised(i) /\ ~frozen[i]
    BY DEF Init, NoDocument, Authorised, Approves, Unrecorded
  <2> QED BY <2>1 DEF Init, NoDocument, Undecided, Authority!Init
<1>2. FreezeInv /\ Undecided /\ [Next]_vars => AbstractStep
  <2> SUFFICES ASSUME FreezeInv, Undecided, [Next]_vars PROVE AbstractStep
    OBVIOUS
  <2>1. CASE UNCHANGED vars
    BY <2>1, NoAuthority DEF vars
  <2>2. CASE Next
    BY <2>2, HandlerImplements, RequestImplements DEF Next
  <2> QED BY <2>1, <2>2
<1> QED BY <1>1, <1>2, FreezeInvInit, FreezeInvNext, UndecidedNext, PTL
        DEF Spec, ImplementsFreezeAuthority, Authority!Spec, AbstractStep,
            authorisedCases, frozenCases

-----------------------------------------------------------------------------
(* What an analyst sees, and what a clearance means *)

\* Where the handler may be once its investigation was escalated.
Waits == {"escalated", "returning", "except", "failed", "done", "gone"}

\* While the handler writes the escalation the document already waits; once it is
\* written the consensus stays low.
EscalationInv(i) ==
    /\ handler[i].pc = "escalating" =>
           doc[i].state = "awaiting_approval" /\ doc[i].confidence = "low"
    /\ escalation[i] # "none" => doc[i].confidence = "low"

\* Nobody has recorded a decision on a pending escalation.
PendingInv(i) ==
    escalation[i] = "pending" =>
        /\ doc[i].state \in {"awaiting_approval", "failed"}
        /\ ~frozen[i]
        /\ \A a \in Requests : request[a].inv = i => request[a].pc \in Unrecorded

Denies(a, i) ==
    request[a].inv = i /\ ~request[a].approved /\ request[a].pc \notin Unrecorded

\* Only a recorded denial clears.
ClearedInv(i) ==
    doc[i].verdict = "cleared_by_analyst" => \E a \in Requests : Denies(a, i)

DenialInv(a) == request[a].pc = "denied" => ~request[a].approved

CaseWaits(i) == EscalationInv(i) /\ PendingInv(i) /\ ClearedInv(i)

WaitInv ==
    /\ \A i \in Invs : CaseWaits(i)
    /\ \A a \in Requests : DenialInv(a)

LEMMA WaitInvInit == Init => WaitInv
BY DEF Init, WaitInv, CaseWaits, EscalationInv, PendingInv, ClearedInv, DenialInv, NoDocument

\* An escalated investigation is off the automatic path.
LEMMA EscalatedWaits ==
    ASSUME FreezeInv, WaitInv, NEW i \in Invs, escalation[i] # "none"
    PROVE  handler[i].pc \in Waits
<1>1. CaseInv(i) /\ HandlerInv(i) /\ EscalationInv(i)
  BY DEF FreezeInv, WaitInv, CaseWaits
<1>2. handler[i].pc \in Late /\ handler[i].pc \notin Automatic
  BY <1>1 DEF CaseInv, HandlerInv, EscalationInv
<1> QED BY <1>2 DEF Late, Automatic, Waits

\* A step of the handler of i concerns i only and does not clear.
HandlerFrame(i) ==
    /\ request' = request
    /\ \A j \in Invs : j # i => /\ doc'[j] = doc[j] /\ handler'[j] = handler[j]
                               /\ frozen'[j] = frozen[j] /\ escalation'[j] = escalation[j]
    /\ doc'[i].verdict = "cleared_by_analyst" => doc[i].verdict = "cleared_by_analyst"

LEMMA HandlerFramed ==
    ASSUME TypeOK, NEW i \in Invs, HandlerStep(i) \/ Raise(i) \/ HandlerDies(i)
    PROVE  HandlerFrame(i)
<1>t. doc \in [Invs -> Document]
  BY DEF TypeOK
<1> USE DEF bankAndRequests, HandlerFrame
<1>1. CASE \/ CreateInvestigation(i) \/ StartTriage(i) \/ CloseFalsePositive(i)
           \/ StartTerminal(i) \/ StartCompliance(i) \/ AwaitApproval(i)
           \/ StartRemediation(i) \/ HandlerClose(i) \/ Fail(i)
  <2>1. PICK st, pc : UpdateState(i, st) /\ HandlerTo(i, pc)
    BY <1>1 DEF CreateInvestigation, StartTriage, CloseFalsePositive, StartTerminal,
       StartCompliance, AwaitApproval, StartRemediation, HandlerClose, Fail
  <2>2. UNCHANGED <<escalation, request, frozen>>
    BY <1>1 DEF CreateInvestigation, StartTriage, CloseFalsePositive, StartTerminal,
       StartCompliance, AwaitApproval, StartRemediation, HandlerClose, Fail
  <2>3. doc'[i].verdict = doc[i].verdict /\ \A j \in Invs : j # i => doc'[j] = doc[j]
    BY <1>t, <2>1 DEF UpdateState, Document
  <2> QED BY <2>1, <2>2, <2>3, HandlerMoved
<1>2. CASE SaveTriage(i) \/ SaveTerminal(i) \/ SaveCompliance(i) \/ SaveConsensus(i)
  <2>1. PICK pc : HandlerTo(i, pc)
    BY <1>2 DEF SaveTriage, SaveTerminal, SaveCompliance, SaveConsensus
  <2>2. UNCHANGED <<escalation, request, frozen>>
    BY <1>2 DEF SaveTriage, SaveTerminal, SaveCompliance, SaveConsensus
  <2>3. doc'[i].verdict = doc[i].verdict /\ \A j \in Invs : j # i => doc'[j] = doc[j]
    BY <1>t, <1>2 DEF SaveTriage, SaveTerminal, SaveCompliance, SaveConsensus, Document
  <2> QED BY <2>1, <2>2, <2>3, HandlerMoved
<1>3. CASE SaveFalsePositive(i) \/ SaveError(i) \/ HandlerSaveRemediation(i)
  <2>1. PICK pc : HandlerTo(i, pc)
    BY <1>3 DEF SaveFalsePositive, SaveError, HandlerSaveRemediation
  <2>2. UNCHANGED <<escalation, request, frozen>>
    BY <1>3 DEF SaveFalsePositive, SaveError, HandlerSaveRemediation
  <2>3. doc'[i].verdict # "cleared_by_analyst" /\ \A j \in Invs : j # i => doc'[j] = doc[j]
    BY <1>t, <1>3 DEF SaveFalsePositive, SaveError, HandlerSaveRemediation, SaveRemediation,
       Document
  <2> QED BY <2>1, <2>2, <2>3, HandlerMoved
<1>4. CASE LinkEscalation(i) \/ HandlerLog(i) \/ Return(i) \/ Raise(i) \/ HandlerDies(i)
  <2>1. PICK pc : HandlerTo(i, pc)
    BY <1>4 DEF LinkEscalation, HandlerLog, Return, Raise, HandlerDies
  <2>2. UNCHANGED <<doc, escalation, request, frozen>>
    BY <1>4 DEF LinkEscalation, HandlerLog, Return, Raise, HandlerDies
  <2> QED BY <2>1, <2>2, HandlerMoved
<1>5. CASE CreateEscalation(i)
  <2>1. PICK pc : HandlerTo(i, pc)
    BY <1>5 DEF CreateEscalation
  <2>2. UNCHANGED <<doc, request, frozen>> /\ escalation' = [escalation EXCEPT ![i] = "pending"]
    BY <1>5 DEF CreateEscalation
  <2> QED BY <2>1, <2>2, HandlerMoved DEF TypeOK
<1>6. CASE HandlerBridge(i)
  <2>1. PICK out \in BridgeOutcomes :
            /\ CallBridge(i, out)
            /\ handler' = [handler EXCEPT ![i] = [pc |-> "bridge_returned", result |-> out.result]]
    BY <1>6 DEF HandlerBridge
  <2>2. UNCHANGED <<doc, escalation, request>>
    BY <1>6 DEF HandlerBridge
  <2> QED BY <2>1, <2>2 DEF CallBridge, TypeOK
<1> QED BY <1>1, <1>2, <1>3, <1>4, <1>5, <1>6 DEF HandlerStep

LEMMA HandlerKeepsWaitInv ==
    ASSUME FreezeInv, WaitInv, NEW i \in Invs, HandlerStep(i) \/ Raise(i) \/ HandlerDies(i)
    PROVE  WaitInv'
<1>t. TypeOK /\ HandlerInv(i) /\ CaseInv(i) /\ CaseWaits(i)
  BY DEF FreezeInv, WaitInv
<1>f. HandlerFrame(i)
  BY <1>t, HandlerFramed
<1>d. doc[i] \in Document
  BY <1>t DEF TypeOK
<1>o. ASSUME NEW j \in Invs, j # i PROVE CaseWaits(j)'
  BY <1>f, <1>o DEF WaitInv, CaseWaits, EscalationInv, PendingInv, ClearedInv, HandlerFrame,
     Denies
<1>r. ASSUME NEW a \in Requests PROVE DenialInv(a)'
  BY <1>f DEF WaitInv, DenialInv, HandlerFrame
<1>c. ClearedInv(i)'
  BY <1>t, <1>f DEF CaseWaits, ClearedInv, HandlerFrame, Denies
<1>s. SUFFICES EscalationInv(i)' /\ PendingInv(i)'
  BY <1>o, <1>r, <1>c DEF WaitInv, CaseWaits
<1> USE DEF bankAndRequests
<1>1. CASE AwaitApproval(i)
  <2>1. doc[i].confidence = "low" /\ handler[i].pc = "consensus"
    BY <1>1 DEF AwaitApproval, HandlerAt
  <2>2. escalation'[i] = "none"
    BY <1>1, <2>1, EscalatedWaits DEF AwaitApproval, Waits
  <2>3. doc'[i].state = "awaiting_approval" /\ doc'[i].confidence = "low"
    BY <1>t, <1>d, <1>1, <2>1 DEF AwaitApproval, UpdateState, Document, TypeOK
  <2> QED BY <2>2, <2>3 DEF EscalationInv, PendingInv
<1>2. CASE CreateEscalation(i)
  <2>1. /\ doc' = doc /\ request' = request /\ frozen' = frozen
        /\ handler[i].pc = "escalating" /\ handler'[i].pc = "escalated"
    BY <1>t, <1>2, HandlerMoved DEF CreateEscalation, HandlerAt
  <2>2. doc[i].state = "awaiting_approval" /\ doc[i].confidence = "low"
    BY <1>t, <2>1 DEF CaseWaits, EscalationInv
  <2>3. ~frozen[i] /\ escalation[i] = "none"
    BY <1>t, <2>1 DEF CaseInv, Late
  <2>4. \A a \in Requests : request[a].inv = i => request[a].pc \in Unrecorded
    BY <2>3 DEF FreezeInv, RequestInv, Unrecorded
  <2> QED BY <2>1, <2>2, <2>3, <2>4 DEF EscalationInv, PendingInv
<1>3. CASE handler[i].pc \notin Waits /\ ~AwaitApproval(i) /\ ~CreateEscalation(i)
  <2>1. escalation[i] = "none"
    BY <1>3, EscalatedWaits
  <2>2. escalation' = escalation
    BY <1>3 DEF HandlerStep, CreateInvestigation, StartTriage, SaveTriage, CloseFalsePositive,
       SaveFalsePositive, StartTerminal, SaveTerminal, StartCompliance, SaveCompliance,
       SaveConsensus, LinkEscalation, StartRemediation, HandlerBridge, HandlerLog,
       HandlerSaveRemediation, HandlerClose, Return, Fail, SaveError, Raise, HandlerDies
  <2>3. handler'[i].pc # "escalating"
    <3>1. CASE HandlerBridge(i)
      BY <1>t, <3>1 DEF HandlerBridge, TypeOK
    <3>2. CASE ~HandlerBridge(i)
      <4>1. PICK pc : HandlerTo(i, pc) /\ pc # "escalating"
        BY <1>3, <3>2 DEF HandlerStep, CreateInvestigation, StartTriage, SaveTriage,
           CloseFalsePositive, SaveFalsePositive, StartTerminal, SaveTerminal, StartCompliance,
           SaveCompliance, SaveConsensus, LinkEscalation, StartRemediation, HandlerLog,
           HandlerSaveRemediation, HandlerClose, Return, Fail, SaveError, Raise, HandlerDies
      <4> QED BY <1>t, <4>1, HandlerMoved
    <3> QED BY <3>1, <3>2
  <2> QED BY <2>1, <2>2, <2>3 DEF EscalationInv, PendingInv
<1>4. CASE handler[i].pc \in Waits
  <2>1. \/ LinkEscalation(i) \/ Return(i) \/ Raise(i) \/ HandlerDies(i)
        \/ Fail(i) \/ SaveError(i)
    BY <1>4 DEF Waits, HandlerAt, HandlerStep, CreateInvestigation, StartTriage, SaveTriage,
       CloseFalsePositive, SaveFalsePositive, StartTerminal, SaveTerminal, StartCompliance,
       SaveCompliance, SaveConsensus, AwaitApproval, CreateEscalation, StartRemediation,
       HandlerBridge, HandlerLog, HandlerSaveRemediation, HandlerClose
  <2>2. UNCHANGED <<escalation, request, frozen>>
    BY <2>1 DEF LinkEscalation, Return, Raise, HandlerDies, Fail, SaveError
  <2>3. handler'[i].pc # "escalating"
    <3>1. PICK pc : HandlerTo(i, pc) /\ pc # "escalating"
      BY <2>1 DEF LinkEscalation, Return, Raise, HandlerDies, Fail, SaveError
    <3> QED BY <1>t, <3>1, HandlerMoved
  <2>4. doc'[i].confidence = doc[i].confidence /\ doc'[i].state \in {doc[i].state, "failed"}
    BY <1>t, <1>d, <2>1 DEF LinkEscalation, Return, Raise, HandlerDies, Fail, SaveError,
       UpdateState, Document, TypeOK
  <2> QED BY <1>t, <2>2, <2>3, <2>4 DEF CaseWaits, EscalationInv, PendingInv
<1> QED BY <1>1, <1>2, <1>3, <1>4

\* A request concerns its investigation only, and leaves handlers and confidences alone.
RequestFrame(a) ==
    /\ handler' = handler
    /\ \A b \in Requests : b # a => request'[b] = request[b]
    /\ request'[a].inv = request[a].inv /\ request'[a].approved = request[a].approved
    /\ \A j \in Invs : j # request[a].inv =>
          doc'[j] = doc[j] /\ frozen'[j] = frozen[j] /\ escalation'[j] = escalation[j]
    /\ \A j \in Invs : doc'[j].confidence = doc[j].confidence

\* Before the decision is recorded nothing but the request moves; afterwards it is never
\* unrecorded again, and the escalation does not change.
LEMMA RequestFramed ==
    ASSUME TypeOK, NEW a \in Requests, FindEscalation(a) \/ DecisionStep(a) \/ RequestDies(a)
    PROVE  /\ RequestFrame(a)
           /\ \/ /\ request[a].pc \in Unrecorded /\ request'[a].pc \in Unrecorded
                 /\ UNCHANGED <<doc, frozen, escalation>>
              \/ Decide(a)
              \/ /\ request[a].pc \notin Unrecorded /\ request'[a].pc \notin Unrecorded
                 /\ request'[a].pc # "denied" /\ escalation' = escalation
<1>t. /\ request[a].inv \in Invs /\ request[a].result \in Results
      /\ doc \in [Invs -> Document]
  BY DEF TypeOK
<1>c. handler' = handler /\ \A j \in Invs : doc'[j].confidence = doc[j].confidence
  BY RequestConfidence
<1> USE DEF docAndHandlers, RequestFrame
<1>1. CASE FindEscalation(a)
  <2>1. RequestTo(a, "found") /\ request[a].pc = "idle" /\ UNCHANGED <<doc, frozen, escalation>>
    BY <1>1 DEF FindEscalation, RequestAt
  <2> QED BY <1>c, <2>1, RequestMoved DEF Unrecorded
<1>2. CASE Decide(a)
  <2> DEFINE status == IF request[a].approved THEN "approved" ELSE "denied"
  <2>1. /\ RequestTo(a, status) /\ UNCHANGED <<doc, frozen>>
        /\ escalation' = [escalation EXCEPT ![request[a].inv] = status]
    BY <1>2 DEF Decide
  <2>2. \A j \in Invs : j # request[a].inv => escalation'[j] = escalation[j]
    BY <2>1 DEF TypeOK
  <2> QED BY <1>2, <1>c, <2>1, <2>2, RequestMoved
<1>3. CASE ResumeRemediation(a) \/ RequestClose(a) \/ ClearByAnalyst(a) \/ RequestSaveRemediation(a)
  <2>1. PICK pc \in {"remediating", "done", "closing"} : RequestTo(a, pc)
    BY <1>3 DEF ResumeRemediation, RequestClose, ClearByAnalyst, RequestSaveRemediation
  <2>2. request[a].pc \notin Unrecorded /\ UNCHANGED <<frozen, escalation>>
    BY <1>3 DEF ResumeRemediation, RequestClose, ClearByAnalyst, RequestSaveRemediation,
       RequestAt, Unrecorded
  <2>3. \A j \in Invs : j # request[a].inv => doc'[j] = doc[j]
    BY <1>t, <1>3 DEF ResumeRemediation, RequestClose, ClearByAnalyst, RequestSaveRemediation,
       UpdateState, SaveRemediation
  <2> QED BY <1>c, <2>1, <2>2, <2>3, RequestMoved DEF Unrecorded
<1>4. CASE RequestLog(a)
  <2>1. /\ RequestTo(a, "remediated") /\ request[a].pc = "bridge_returned"
        /\ UNCHANGED <<doc, frozen, escalation>>
    BY <1>4 DEF RequestLog, RequestAt
  <2> QED BY <1>c, <2>1, RequestMoved DEF Unrecorded
<1>5. CASE RequestBridge(a)
  <2>1. PICK out \in BridgeOutcomes :
            /\ CallBridge(request[a].inv, out)
            /\ request' = [request EXCEPT ![a].pc = "bridge_returned", ![a].result = out.result]
    BY <1>5 DEF RequestBridge
  <2>2. /\ request[a].pc = "remediating" /\ request'[a].pc = "bridge_returned"
        /\ request'[a].inv = request[a].inv /\ request'[a].approved = request[a].approved
        /\ \A b \in Requests : b # a => request'[b] = request[b]
    BY <1>5, <2>1 DEF RequestBridge, RequestAt, TypeOK
  <2>3. \A j \in Invs : j # request[a].inv => frozen'[j] = frozen[j]
    BY <2>1 DEF CallBridge, TypeOK
  <2>4. UNCHANGED <<doc, escalation>>
    BY <1>5 DEF RequestBridge
  <2> QED BY <1>c, <2>2, <2>3, <2>4 DEF Unrecorded
<1>6. CASE RequestDies(a)
  <2>1. PICK pc \in {"gone", "dropped"} :
            RequestTo(a, pc) /\ (pc = "dropped" <=> request[a].pc = "found")
    BY <1>6 DEF RequestDies, RequestAt
  <2>2. request[a].pc \notin {"idle", "dropped"} /\ UNCHANGED <<doc, frozen, escalation>>
    BY <1>6 DEF RequestDies
  <2> QED BY <1>c, <2>1, <2>2, RequestMoved DEF Unrecorded
<1> QED BY <1>1, <1>2, <1>3, <1>4, <1>5, <1>6 DEF DecisionStep

LEMMA RequestKeepsWaitInv ==
    ASSUME FreezeInv, WaitInv, NEW a \in Requests,
           FindEscalation(a) \/ DecisionStep(a) \/ RequestDies(a)
    PROVE  WaitInv'
<1>t. TypeOK /\ RequestInv(a) /\ DenialInv(a) /\ request[a].inv \in Invs
  BY DEF FreezeInv, WaitInv, TypeOK
<1>f. RequestFrame(a)
  BY <1>t, RequestFramed
<1>o. ASSUME NEW j \in Invs, j # request[a].inv PROVE CaseWaits(j)'
  BY <1>f, <1>o DEF WaitInv, CaseWaits, EscalationInv, PendingInv, ClearedInv, RequestFrame,
     Denies
<1>r. ASSUME NEW b \in Requests, b # a PROVE DenialInv(b)'
  BY <1>f, <1>r DEF WaitInv, DenialInv, RequestFrame
<1>i. PICK i \in Invs : i = request[a].inv
  BY <1>t
<1>w. CaseWaits(i)
  BY DEF WaitInv
<1>s. SUFFICES CaseWaits(i)' /\ DenialInv(a)'
  BY <1>o, <1>r, <1>i DEF WaitInv
<1>1. CASE /\ request[a].pc \in Unrecorded /\ request'[a].pc \in Unrecorded
           /\ UNCHANGED <<doc, frozen, escalation>>
  <2>1. \A b \in Requests : request'[b].pc \in Unrecorded <=> request[b].pc \in Unrecorded
    BY <1>1, <1>f DEF RequestFrame
  <2>2. \A b \in Requests : /\ request'[b].inv = request[b].inv
                            /\ request'[b].approved = request[b].approved
    BY <1>f DEF RequestFrame
  <2>3. EscalationInv(i)' /\ PendingInv(i)' /\ ClearedInv(i)'
    BY <1>1, <1>f, <1>w, <2>1, <2>2
    DEF CaseWaits, EscalationInv, PendingInv, ClearedInv, RequestFrame, Denies
  <2> QED BY <1>1, <2>3 DEF CaseWaits, DenialInv, Unrecorded
<1>2. CASE Decide(a)
  <2> DEFINE status == IF request[a].approved THEN "approved" ELSE "denied"
  <2>1. /\ request[a].pc = "found" /\ RequestTo(a, status) /\ UNCHANGED <<doc, frozen>>
        /\ escalation' = [escalation EXCEPT ![i] = status]
    BY <1>2, <1>i DEF Decide, RequestAt, docAndHandlers
  <2>2. escalation[i] # "none" /\ escalation'[i] # "pending"
    BY <1>t, <1>i, <2>1 DEF RequestInv, TypeOK
  <2>3. EscalationInv(i)'
    BY <1>f, <1>w, <2>1, <2>2 DEF CaseWaits, EscalationInv, RequestFrame
  <2>4. PendingInv(i)'
    BY <2>2 DEF PendingInv
  <2>5. \A b \in Requests : Denies(b, i) => Denies(b, i)'
    BY <1>f, <2>1 DEF Denies, RequestFrame, Unrecorded
  <2>6. ClearedInv(i)'
    BY <1>w, <2>1, <2>5 DEF CaseWaits, ClearedInv
  <2>7. DenialInv(a)'
    BY <1>t, <2>1, RequestMoved DEF DenialInv
  <2> QED BY <2>3, <2>4, <2>6, <2>7 DEF CaseWaits
<1>3. CASE /\ request[a].pc \notin Unrecorded /\ request'[a].pc \notin Unrecorded
           /\ request'[a].pc # "denied" /\ escalation' = escalation
  <2>1. escalation[i] # "none" /\ escalation[i] # "pending"
    BY <1>t, <1>i, <1>w, <1>3 DEF RequestInv, CaseWaits, PendingInv, Unrecorded
  <2>2. handler[i].pc # "escalating"
    BY <2>1, EscalatedWaits DEF Waits
  <2>3. EscalationInv(i)' /\ PendingInv(i)'
    BY <1>f, <1>w, <1>3, <2>1, <2>2 DEF CaseWaits, EscalationInv, PendingInv, RequestFrame
  <2>4. \A b \in Requests : Denies(b, i) => Denies(b, i)'
    BY <1>f, <1>3 DEF Denies, RequestFrame
  <2>5. CASE ClearByAnalyst(a)
    <3>1. Denies(a, i)
      BY <1>t, <1>i, <1>3, <2>5 DEF ClearByAnalyst, RequestAt, DenialInv, Denies
    <3> QED BY <1>3, <2>3, <2>4, <3>1 DEF CaseWaits, ClearedInv, DenialInv
  <2>6. CASE ~ClearByAnalyst(a)
    <3>1. doc'[i].verdict = "cleared_by_analyst" => doc[i].verdict = "cleared_by_analyst"
      <4>1. doc \in [Invs -> Document]
        BY <1>t DEF TypeOK
      <4> QED BY <1>i, <2>6, <4>1, <1>3
          DEF FindEscalation, DecisionStep, Decide, ResumeRemediation, RequestBridge, RequestLog,
              RequestSaveRemediation, RequestClose, RequestDies, docAndHandlers, UpdateState,
              SaveRemediation, Document
    <3> QED BY <1>3, <1>w, <2>3, <2>4, <3>1 DEF CaseWaits, ClearedInv, DenialInv
  <2> QED BY <2>5, <2>6
<1> QED BY <1>t, <1>1, <1>2, <1>3, RequestFramed

LEMMA WaitInvNext == FreezeInv /\ WaitInv /\ [Next]_vars => WaitInv'
<1> SUFFICES ASSUME FreezeInv, WaitInv, [Next]_vars PROVE WaitInv'
  OBVIOUS
<1>1. CASE UNCHANGED vars
  BY <1>1 DEF vars, WaitInv, CaseWaits, EscalationInv, PendingInv, ClearedInv, DenialInv, Denies
<1>2. CASE Next
  BY <1>2, HandlerKeepsWaitInv, RequestKeepsWaitInv DEF Next
<1> QED BY <1>1, <1>2

\* An escalation the analysts see as pending belongs to an investigation that waits for
\* them, for any number of cases and requests: no write of the handler and no decision
\* comes between the two documents.
THEOREM PendingWaits == Spec => []PendingMeansWaiting
<1>1. FreezeInv /\ WaitInv => PendingMeansWaiting
  BY DEF WaitInv, CaseWaits, EscalationInv, PendingInv, PendingMeansWaiting
<1> QED BY <1>1, FreezeInvInit, FreezeInvNext, WaitInvInit, WaitInvNext, PTL DEF Spec

LEMMA TwoDeciders ==
    ASSUME NEW i \in Invs, NEW a \in Deciders(i), NEW b \in Deciders(i), a # b
    PROVE  Cardinality(Deciders(i)) >= 2
<1>1. Deciders(i) \subseteq Requests
  BY DEF Deciders
<1>2. IsFiniteSet(Deciders(i))
  BY <1>1, FS_Subset, SoarAssumption
<1>3. Cardinality(Deciders(i)) \in Nat
  BY <1>2, FS_CardinalityType
<1>4. /\ IsFiniteSet(Deciders(i) \ {a})
      /\ Cardinality(Deciders(i) \ {a}) = Cardinality(Deciders(i)) - 1
  BY <1>2, FS_RemoveElement
<1>5. Deciders(i) \ {a} # {}
  OBVIOUS
<1>6. Cardinality(Deciders(i) \ {a}) \in Nat /\ Cardinality(Deciders(i) \ {a}) # 0
  BY <1>4, <1>5, FS_CardinalityType, FS_EmptySet
<1> QED BY <1>3, <1>4, <1>6

\* The account of a cleared investigation is frozen only if a second decision, an
\* approval, was recorded on the same escalation.
THEOREM ClearedStaysFree == Spec => []ClearedNeverFrozen
<1>1. FreezeInv /\ WaitInv => ClearedNeverFrozen
  <2> SUFFICES ASSUME FreezeInv, WaitInv, NEW i \in Invs,
                      doc[i].verdict = "cleared_by_analyst", frozen[i]
               PROVE  ~(Cardinality(Deciders(i)) <= 1)
    BY DEF ClearedNeverFrozen
  <2>1. PICK a \in Requests : Denies(a, i)
    BY DEF WaitInv, CaseWaits, ClearedInv
  <2>2. escalation[i] # "none"
    BY <2>1 DEF FreezeInv, RequestInv, Denies, Unrecorded
  <2>3. doc[i].confidence = "low"
    BY <2>2 DEF WaitInv, CaseWaits, EscalationInv
  <2>4. PICK b \in Requests : Approves(b, i)
    BY <2>3 DEF FreezeInv, Authorised
  <2>5. a \in Deciders(i) /\ b \in Deciders(i) /\ a # b
    BY <2>1, <2>4 DEF Deciders, Denies, Approves
  <2>6. Cardinality(Deciders(i)) \in Nat
    <3>1. Deciders(i) \subseteq Requests
      BY DEF Deciders
    <3> QED BY <3>1, SoarAssumption, FS_Subset, FS_CardinalityType
  <2> QED BY <2>5, <2>6, TwoDeciders
<1> QED BY <1>1, FreezeInvInit, FreezeInvNext, WaitInvInit, WaitInvNext, PTL DEF Spec

-----------------------------------------------------------------------------
(* Reopening *)

\* Where the handler's next write of the state is not the last one of handle_alert.
Opening == {"idle", "created", "triaging", "triaged", "investigating", "investigated",
            "reporting", "reported", "consensus", "remediating", "bridge_returned",
            "remediated", "verdict_saved", "escalating"}

Ended(b, i) == request[b].inv = i /\ request[b].pc = "done"

\* The handler still working has not closed, and an escalated investigation was closed
\* by a request that is over.
OpenInv(i) ==
    /\ handler[i].pc \in Opening => doc[i].state # "closed"
    /\ doc[i].state = "closed" /\ escalation[i] # "none" => \E b \in Requests : Ended(b, i)

OpenInvs == \A i \in Invs : OpenInv(i)

LEMMA OpenInvInit == Init => OpenInvs
BY DEF Init, OpenInvs, OpenInv, NoDocument

LEMMA HandlerKeepsOpenInvs ==
    ASSUME FreezeInv, WaitInv, OpenInvs, NEW i \in Invs,
           HandlerStep(i) \/ Raise(i) \/ HandlerDies(i)
    PROVE  /\ OpenInvs'
           /\ doc[i].state = "closed" /\ doc'[i].state # "closed" =>
                 doc'[i].state = "failed" /\ HandlerAt(i, "except")
<1>t. TypeOK /\ OpenInv(i) /\ HandlerFrame(i) /\ doc \in [Invs -> Document]
  BY HandlerFramed DEF FreezeInv, TypeOK, OpenInvs
<1>o. ASSUME NEW j \in Invs, j # i PROVE OpenInv(j)'
  BY <1>t, <1>o DEF OpenInvs, OpenInv, HandlerFrame, Ended
<1>s. SUFFICES /\ OpenInv(i)'
               /\ doc[i].state = "closed" /\ doc'[i].state # "closed" =>
                     doc'[i].state = "failed" /\ HandlerAt(i, "except")
  BY <1>o DEF OpenInvs
<1> USE DEF bankAndRequests
<1>1. CASE CreateEscalation(i)
  <2>1. doc' = doc /\ handler[i].pc = "escalating" /\ handler'[i].pc = "escalated"
    BY <1>t, <1>1, HandlerMoved DEF CreateEscalation, HandlerAt
  <2> QED BY <1>t, <2>1 DEF OpenInv, Opening
<1>2. CASE CloseFalsePositive(i) \/ HandlerClose(i)
  <2>1. escalation[i] = "none" /\ escalation' = escalation
    BY <1>2, EscalatedWaits DEF CloseFalsePositive, HandlerClose, HandlerAt, Waits
  <2>2. handler'[i].pc \in {"fp_closed", "returning"}
    BY <1>t, <1>2, HandlerMoved DEF CloseFalsePositive, HandlerClose
  <2>3. doc'[i].state = "closed"
    BY <1>t, <1>2 DEF CloseFalsePositive, HandlerClose, UpdateState, Document
  <2> QED BY <2>1, <2>2, <2>3 DEF OpenInv, Opening
<1>3. CASE Fail(i)
  <2>1. doc'[i].state = "failed" /\ handler[i].pc = "except"
    BY <1>t, <1>3 DEF Fail, HandlerAt, UpdateState, Document
  <2> QED BY <2>1 DEF OpenInv, HandlerAt
<1>4. CASE \/ CreateInvestigation(i) \/ StartTriage(i) \/ StartTerminal(i) \/ StartCompliance(i)
           \/ AwaitApproval(i) \/ StartRemediation(i)
  <2>1. doc[i].state # "closed"
    BY <1>t, <1>4 DEF CreateInvestigation, StartTriage, StartTerminal, StartCompliance,
       AwaitApproval, StartRemediation, HandlerAt, OpenInv, Opening
  <2>2. doc'[i].state # "closed"
    BY <1>t, <1>4 DEF CreateInvestigation, StartTriage, StartTerminal, StartCompliance,
       AwaitApproval, StartRemediation, UpdateState, Document
  <2> QED BY <2>1, <2>2 DEF OpenInv
<1>5. CASE /\ ~CreateEscalation(i) /\ ~CloseFalsePositive(i) /\ ~HandlerClose(i) /\ ~Fail(i)
           /\ ~CreateInvestigation(i) /\ ~StartTriage(i) /\ ~StartTerminal(i)
           /\ ~StartCompliance(i) /\ ~AwaitApproval(i) /\ ~StartRemediation(i)
  <2>1. doc'[i].state = doc[i].state
    BY <1>t, <1>5 DEF HandlerStep, SaveTriage, SaveFalsePositive, SaveTerminal, SaveCompliance,
       SaveConsensus, LinkEscalation, HandlerBridge, HandlerLog, HandlerSaveRemediation,
       SaveRemediation, Return, SaveError, Raise, HandlerDies, Document
  <2>2. escalation' = escalation
    BY <1>5 DEF HandlerStep, SaveTriage, SaveFalsePositive, SaveTerminal, SaveCompliance,
       SaveConsensus, LinkEscalation, HandlerBridge, HandlerLog, HandlerSaveRemediation,
       Return, SaveError, Raise, HandlerDies
  <2>3. handler'[i].pc \in Opening => handler[i].pc \in Opening
    <3>1. CASE HandlerBridge(i)
      BY <1>t, <3>1 DEF HandlerBridge, HandlerAt, Opening, TypeOK
    <3>2. CASE ~HandlerBridge(i)
      <4>1. PICK pc : HandlerTo(i, pc) /\ (pc \in Opening => handler[i].pc \in Opening)
        BY <1>5, <3>2 DEF HandlerStep, SaveTriage, SaveFalsePositive, SaveTerminal,
           SaveCompliance, SaveConsensus, LinkEscalation, HandlerLog, HandlerSaveRemediation,
           Return, SaveError, Raise, HandlerDies, HandlerAt, Opening
      <4> QED BY <1>t, <4>1, HandlerMoved
    <3> QED BY <3>1, <3>2
  <2>4. request' = request
    BY <1>t DEF HandlerFrame
  <2> QED BY <1>t, <2>1, <2>2, <2>3, <2>4 DEF OpenInv, Ended
<1> QED BY <1>1, <1>2, <1>3, <1>4, <1>5

LEMMA RequestKeepsOpenInvs ==
    ASSUME FreezeInv, WaitInv, OpenInvs, NEW a \in Requests,
           FindEscalation(a) \/ DecisionStep(a) \/ RequestDies(a)
    PROVE  /\ OpenInvs'
           /\ \A i \in Invs : doc[i].state = "closed" /\ doc'[i].state # "closed" =>
                 doc'[i].state = "remediating" /\ Cardinality(Deciders(i)) >= 2
<1>t. /\ TypeOK /\ RequestInv(a) /\ RequestFrame(a) /\ request[a].inv \in Invs
      /\ doc \in [Invs -> Document]
  BY RequestFramed DEF FreezeInv, TypeOK
<1>d. ASSUME NEW b \in Requests, NEW j \in Invs, Ended(b, j) PROVE Ended(b, j)'
  <2>1. CASE b = a
    <3>1. request[a].pc = "done"
      BY <1>d, <2>1 DEF Ended
    <3> QED BY <3>1 DEF FindEscalation, DecisionStep, Decide, ResumeRemediation, RequestBridge,
        RequestLog, RequestSaveRemediation, ClearByAnalyst, RequestClose, RequestDies, RequestAt
  <2>2. CASE b # a
    BY <1>t, <1>d, <2>2 DEF Ended, RequestFrame
  <2> QED BY <2>1, <2>2
<1>o. ASSUME NEW j \in Invs, j # request[a].inv PROVE OpenInv(j)' /\ doc'[j] = doc[j]
  BY <1>t, <1>o, <1>d DEF OpenInvs, OpenInv, RequestFrame
<1>i. PICK i \in Invs : i = request[a].inv
  BY <1>t
<1>w. OpenInv(i)
  BY DEF OpenInvs
<1>s. SUFFICES /\ OpenInv(i)'
               /\ doc[i].state = "closed" /\ doc'[i].state # "closed" =>
                     doc'[i].state = "remediating" /\ Cardinality(Deciders(i)) >= 2
  BY <1>o, <1>i DEF OpenInvs
<1>e. escalation[i] # "none" /\ handler' = handler /\ handler[i].pc \notin Opening
  <2>1. escalation[i] # "none"
    BY <1>t, <1>i DEF FindEscalation, DecisionStep, Decide, ResumeRemediation, RequestBridge,
        RequestLog, RequestSaveRemediation, ClearByAnalyst, RequestClose, RequestDies,
        RequestAt, RequestInv
  <2> QED BY <1>t, <2>1, EscalatedWaits DEF Waits, Opening, RequestFrame
<1>1. CASE ResumeRemediation(a)
  <2>1. /\ doc'[i].state = "remediating" /\ request[a].pc = "approved"
    BY <1>t, <1>i, <1>1 DEF ResumeRemediation, RequestAt, UpdateState, Document
  <2>2. ASSUME doc[i].state = "closed" PROVE Cardinality(Deciders(i)) >= 2
    <3>1. PICK b \in Requests : Ended(b, i)
      BY <1>e, <1>w, <2>2 DEF OpenInv
    <3>2. a \in Deciders(i) /\ b \in Deciders(i) /\ a # b
      BY <1>i, <2>1, <3>1 DEF Deciders, Ended, Unrecorded
    <3> QED BY <3>2, TwoDeciders
  <2> QED BY <1>e, <2>1, <2>2 DEF OpenInv
<1>2. CASE RequestClose(a)
  <2>1. doc'[i].state = "closed"
    BY <1>t, <1>i, <1>2 DEF RequestClose, UpdateState, Document
  <2>2. Ended(a, i)'
    BY <1>t, <1>i, <1>2, RequestMoved DEF RequestClose, Ended
  <2> QED BY <1>e, <2>1, <2>2 DEF OpenInv
<1>3. CASE ~ResumeRemediation(a) /\ ~RequestClose(a)
  <2>1. doc'[i].state = doc[i].state
    BY <1>t, <1>i, <1>3 DEF FindEscalation, DecisionStep, Decide, RequestBridge, RequestLog,
        RequestSaveRemediation, SaveRemediation, ClearByAnalyst, RequestDies, docAndHandlers,
        Document
  <2> QED BY <1>d, <1>e, <1>w, <2>1 DEF OpenInv
<1> QED BY <1>1, <1>2, <1>3

\* A closed investigation is reopened only by the except clause of its own handler, or by
\* an approval where another decision has been recorded before.
THEOREM ReopenedAsStated == Spec => ReopenedOnlyByFailureOrApproval
<1>1. FreezeInv /\ WaitInv /\ OpenInvs /\ [Next]_vars =>
        /\ OpenInvs'
        /\ \A i \in Invs : doc[i].state = "closed" /\ doc'[i].state # "closed" =>
              \/ doc'[i].state = "failed" /\ HandlerAt(i, "except")
              \/ doc'[i].state = "remediating" /\ Cardinality(Deciders(i)) >= 2
  <2> SUFFICES ASSUME FreezeInv, WaitInv, OpenInvs, [Next]_vars
               PROVE  /\ OpenInvs'
                      /\ \A i \in Invs : doc[i].state = "closed" /\ doc'[i].state # "closed" =>
                            \/ doc'[i].state = "failed" /\ HandlerAt(i, "except")
                            \/ /\ doc'[i].state = "remediating"
                               /\ Cardinality(Deciders(i)) >= 2
    OBVIOUS
  <2>1. CASE UNCHANGED vars
    BY <2>1 DEF vars, OpenInvs, OpenInv, Ended
  <2>2. ASSUME NEW i \in Invs, HandlerStep(i) \/ Raise(i) \/ HandlerDies(i)
        PROVE  /\ OpenInvs'
               /\ \A j \in Invs : doc[j].state = "closed" /\ doc'[j].state # "closed" =>
                     doc'[j].state = "failed" /\ HandlerAt(j, "except")
    <3>1. \A j \in Invs : j # i => doc'[j] = doc[j]
      BY <2>2, HandlerFramed DEF FreezeInv, HandlerFrame
    <3> QED BY <2>2, <3>1, HandlerKeepsOpenInvs
  <2>3. ASSUME NEW a \in Requests, FindEscalation(a) \/ DecisionStep(a) \/ RequestDies(a)
        PROVE  /\ OpenInvs'
               /\ \A i \in Invs : doc[i].state = "closed" /\ doc'[i].state # "closed" =>
                     doc'[i].state = "remediating" /\ Cardinality(Deciders(i)) >= 2
    BY <2>3, RequestKeepsOpenInvs
  <2> QED BY <2>1, <2>2, <2>3 DEF Next
<1> QED BY <1>1, FreezeInvInit, FreezeInvNext, WaitInvInit, WaitInvNext, OpenInvInit, PTL
        DEF Spec, ReopenedOnlyByFailureOrApproval
=============================================================================
