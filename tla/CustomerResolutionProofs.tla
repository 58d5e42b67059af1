---------------------- MODULE CustomerResolutionProofs ----------------------
(***************************************************************************)
(* Type correctness of CustomerResolution, and the exclusive claim on a    *)
(* case, for all sets of cases and all bounds.  For the types, the pure    *)
(* functions come first, then the ways in which a handler leaves the event *)
(* loop, then every action.                                                *)
(***************************************************************************)
EXTENDS CustomerResolution, TLAPS

\* The handlers turn a contract report into a finding of the right shape.
LEMMA FindingTypes ==
  /\ \A r \in BillingReport : billing_finding(r) \in BillingFinding
  /\ \A r \in RiskReport : risk_finding(r) \in RiskFinding
  <1>1. ASSUME NEW r \in BillingReport PROVE billing_finding(r) \in BillingFinding
    <2>1. billing_eligibility(r) \in Eligibility
      BY DEF billing_eligibility, Eligibility
    <2> QED
      BY <2>1 DEF billing_finding, BillingFinding, BillingReport
  <1>2. ASSUME NEW r \in RiskReport PROVE risk_finding(r) \in RiskFinding
    <2>1. risk_level(r) \in RiskLevel
      BY DEF risk_level, risk_level_from_score, RiskLevel
    <2>2. uncertainty_from_confidence(r.confidence) \in Score
      BY DEF uncertainty_from_confidence, RiskReport, Score
    <2> QED
      BY <2>1, <2>2 DEF risk_finding, RiskFinding, RiskReport
  <1> QED
    BY <1>1, <1>2

\* decide() returns a verdict whatever its arguments are.
LEMMA DecideType ==
  \A t, b, r, ts : decide(t, b, r, ts) \in Verdict
  <1> SUFFICES ASSUME NEW t, NEW b, NEW r, NEW ts PROVE decide(t, b, r, ts) \in Verdict
    OBVIOUS
  <1>1. \A o \in Outcome : Resolve(o) \in Verdict
    BY DEF Resolve, Verdict, Reason
  <1>2. \A x \in Reason : Escalate(x) \in Verdict
    BY DEF Escalate, Verdict, Outcome
  <1>3. combine(b.eligibility, r.level) \in Verdict
    BY <1>1, <1>2 DEF combine, Outcome, Reason
  <1> QED
    BY <1>1, <1>2, <1>3 DEF decide, Outcome, Reason

\* A verdict on its way to the topic is a decision record.
LEMMA EmissionType ==
  ASSUME NEW v \in Verdict, NEW b \in BOOLEAN, NEW s \in CaseStatus
  PROVE  Emission(v, b, s) \in Decision
  BY DEF Emission, Decision, Verdict

\* The case that get_or_create makes is a case.
LEMMA NewCaseType == \A s \in CaseStatus : NewCase(s) \in Case
  BY DEF NewCase, Case, Triage, Score

\* Every operation of the state store turns a case into a case.
LEMMA StoreTypes ==
  ASSUME NEW k \in Case, NEW slot \in Slots
  PROVE  /\ without_pending(k, slot) \in Case
         /\ mark_slot_failed(k, slot) \in Case
         /\ delegated(k) \in Case
         /\ \A s \in CaseStatus : [k EXCEPT !.status = s] \in Case
         /\ [k EXCEPT !.deadline = "passed"] \in Case
         /\ \A f \in BillingFinding : apply_billing_result(k, f) \in Case
         /\ \A f \in RiskFinding : apply_risk_result(k, f) \in Case
  <1>1. ASSUME NEW j \in Case, NEW s \in Slots PROVE without_pending(j, s) \in Case
    BY DEF without_pending, Case, CaseStatus
  <1>2. mark_slot_failed(k, slot) \in Case
    BY DEF mark_slot_failed, Case, CaseStatus
  <1>3. delegated(k) \in Case
    BY DEF delegated, Case, CaseStatus
  <1>4. \A s \in CaseStatus : [k EXCEPT !.status = s] \in Case
    BY DEF Case
  <1>5. [k EXCEPT !.deadline = "passed"] \in Case
    BY DEF Case
  <1>6. ASSUME NEW f \in BillingFinding PROVE apply_billing_result(k, f) \in Case
    <2>1. [k EXCEPT !.billing_result = f] \in Case
      BY DEF Case
    <2>2. "billing" \in Slots
      BY DEF Slots
    <2>3. without_pending([k EXCEPT !.billing_result = f], "billing") \in Case
      BY <1>1, <2>1, <2>2
    <2> QED
      BY <2>3 DEF apply_billing_result
  <1>7. ASSUME NEW f \in RiskFinding PROVE apply_risk_result(k, f) \in Case
    <2>1. [k EXCEPT !.risk_result = f] \in Case
      BY DEF Case
    <2>2. "risk" \in Slots
      BY DEF Slots
    <2>3. without_pending([k EXCEPT !.risk_result = f], "risk") \in Case
      BY <1>1, <2>1, <2>2
    <2> QED
      BY <2>3 DEF apply_risk_result
  <1> QED
    BY <1>1, <1>2, <1>3, <1>4, <1>5, <1>6, <1>7

-----------------------------------------------------------------------------
\* What the shared steps do to the store.

\* The types of the store and of the handlers.
StoreOK ==
  /\ cases \in [Cases -> Case]
  /\ pc \in [Loops -> [Cases -> PC]]
  /\ verdict \in [Loops -> [Cases -> Decision]]

\* A handler that saves its case and awaits keeps the store typed.
LEMMA SuspendType ==
  ASSUME StoreOK, NEW l \in Loops, NEW c \in Cases, NEW k \in Case, NEW p \in PC,
         Suspend(l, c, k, p)
  PROVE  cases' \in [Cases -> Case] /\ pc' \in [Loops -> [Cases -> PC]]
  BY DEF StoreOK, Suspend

\* The empty place of a handler without a decision is typed as one.
LEMMA NoDecisionType == NoDecision \in Decision
  BY DEF NoDecision, Decision, Outcome, Reason, CaseStatus

\* A handler that returns keeps the store typed.
LEMMA ReturnType ==
  ASSUME StoreOK, NEW l \in Loops, NEW c \in Cases, NEW k \in Case, Return(l, c, k)
  PROVE  StoreOK'
  BY SuspendType, NoDecisionType DEF StoreOK, Return, PC

\* A handler on its way to publish a decision keeps the store typed.
LEMMA EmitType ==
  ASSUME StoreOK, NEW l \in Loops, NEW c \in Cases, NEW k \in Case, NEW d \in Decision,
         Emit(l, c, k, d)
  PROVE  StoreOK'
  BY SuspendType DEF StoreOK, Emit, PC

\* _apply_decision keeps the store typed, claim won or lost.
LEMMA ApplyDecisionType ==
  ASSUME StoreOK, NEW l \in Loops, NEW c \in Cases, NEW k \in Case, ApplyDecision(l, c, k)
  PROVE  StoreOK'
  <1>1. [k EXCEPT !.status = "decided"] \in Case
    BY DEF Case, CaseStatus
  <1>2. Emission(decide(k.triage, k.billing_result, k.risk_result,
                        build_timeout_status(k)), TRUE, "decided") \in Decision
    BY DecideType, EmissionType DEF CaseStatus
  <1> QED
    BY <1>1, <1>2, EmitType, ReturnType DEF ApplyDecision

\* The readiness test before _apply_decision keeps the store typed.
LEMMA DecideIfReadyType ==
  ASSUME StoreOK, NEW l \in Loops, NEW c \in Cases, NEW k \in Case, DecideIfReady(l, c, k)
  PROVE  StoreOK'
  BY ApplyDecisionType, ReturnType DEF DecideIfReady

-----------------------------------------------------------------------------
\* Type correctness.

\* The types of the topics, the history and the bounds.
TopicsOK ==
  /\ sweep \subseteq Cases
  /\ tickets \subseteq Cases
  /\ requests \subseteq [case : Cases, slot : Slots]
  /\ results \subseteq [case : Cases, slot : Slots, status : {"completed", "failed"}]
  /\ billing_events \subseteq [case : Cases, report : BillingReports]
  /\ risk_events \subseteq [case : Cases, report : RiskReports]
  /\ decided \in [Cases -> Seq(Decision)]
  /\ drafted \in [Cases -> Seq(Draft)]
  /\ faults \in 0 .. MaxFaults
  /\ redeliveries \in 0 .. MaxRedeliveries

\* TypeOK is its two halves, the store and the topics.
LEMMA TypeSplit == TypeOK <=> StoreOK /\ TopicsOK
  BY DEF TypeOK, StoreOK, TopicsOK

\* The same for the next state.
LEMMA TypeSplitNext == TypeOK' <=> StoreOK' /\ TopicsOK'
  BY DEF TypeOK, StoreOK, TopicsOK

\* An agent that has just started is typed.
LEMMA InitType == Init => TypeOK
  <1> SUFFICES ASSUME Init PROVE TypeOK
    OBVIOUS
  <1>1. "none" \in CaseStatus /\ "idle" \in PC
    BY DEF CaseStatus, PC
  <1>2. StoreOK
    BY <1>1, NewCaseType, NoDecisionType DEF Init, StoreOK
  <1>3. TopicsOK
    BY ConstantsAssumption DEF Init, TopicsOK
  <1> QED
    BY <1>2, <1>3, TypeSplit

\* A failed publish stays within the bound on faults.
LEMMA FaultType ==
  ASSUME TopicsOK, Fault PROVE faults' \in 0 .. MaxFaults
  BY ConstantsAssumption DEF TopicsOK, Fault

\* Publishing the decision event, or failing to, keeps the types.
LEMMA PublishDecisionType ==
  ASSUME TypeOK, NEW l \in Loops, NEW c \in Cases, PublishDecision(l, c)
  PROVE  TypeOK'
  <1> DEFINE published == [decided EXCEPT ![c] = Append(@, verdict[l][c])]
  <1>1. cases[c] \in Case /\ verdict[l][c] \in Decision /\ StoreOK /\ TopicsOK
    BY TypeSplit DEF TypeOK
  <1>2. published \in [Cases -> Seq(Decision)]
    BY <1>1 DEF TopicsOK
  <1>3. StoreOK'
    <2>1. CASE Suspend(l, c, cases[c], "draft") /\ UNCHANGED verdict
      BY <2>1, <1>1, SuspendType DEF StoreOK, PC
    <2>2. CASE Return(l, c, cases[c])
      BY <2>2, <1>1, ReturnType
    <2> QED
      BY <2>1, <2>2 DEF PublishDecision
  <1>4. TopicsOK'
    BY <1>1, <1>2, FaultType DEF TopicsOK, PublishDecision, inboxes
  <1> QED
    BY <1>3, <1>4, TypeSplitNext

\* Publishing the draft, or failing to, keeps the types.
LEMMA PublishDraftType ==
  ASSUME TypeOK, NEW l \in Loops, NEW c \in Cases, PublishDraft(l, c)
  PROVE  TypeOK'
  <1> DEFINE d == verdict[l][c]
             draft == [outcome |-> d.outcome,
                       requires_human_approval |-> requires_human_approval(d.outcome)]
             published == [drafted EXCEPT ![c] = Append(@, draft)]
  <1>1. cases[c] \in Case /\ d \in Decision /\ StoreOK /\ TopicsOK
    BY TypeSplit DEF TypeOK
  <1>2. published \in [Cases -> Seq(Draft)]
    <2>1. draft \in Draft
      BY <1>1 DEF Draft, Decision, requires_human_approval
    <2> QED
      BY <1>1, <2>1 DEF TopicsOK
  <1>3. StoreOK'
    <2>1. [cases[c] EXCEPT !.status = d.status] \in Case
      BY <1>1 DEF Case, Decision
    <2> QED
      BY <1>1, <2>1, ReturnType DEF PublishDraft
  <1>4. TopicsOK'
    BY <1>1, <1>2, FaultType DEF TopicsOK, PublishDraft, inboxes
  <1> QED
    BY <1>3, <1>4, TypeSplitNext

\* Every step of the intake handler keeps the types.
LEMMA IntakeType ==
  ASSUME TypeOK, NEW c \in Cases, Intake(c)
  PROVE  TypeOK'
  <1>1. cases[c] \in Case /\ StoreOK /\ TopicsOK /\ "intake" \in Loops
    BY TypeSplit DEF TypeOK, Loops, Consumers
  <1>2. /\ Emission(Escalate("peer_failure"), FALSE, "escalated") \in Decision
        /\ Emission(Resolve("direct_response"), FALSE, "closed") \in Decision
    BY DEF Emission, Escalate, Resolve, Decision, Outcome, Reason, CaseStatus
  <1>3. ASSUME DelegationFailed(c) PROVE StoreOK'
    BY <1>1, <1>2, <1>3, EmitType DEF DelegationFailed
  <1>4. CASE ReceiveTicket(c)
    <2>1. NewCase("received") \in Case
      BY NewCaseType DEF CaseStatus
    <2>2. StoreOK'
      BY <1>1, <1>4, <2>1, SuspendType DEF StoreOK, ReceiveTicket, PC
    <2>3. TopicsOK'
      BY <1>1, <1>4, ConstantsAssumption DEF TopicsOK, ReceiveTicket, Deliver, outcomes
    <2> QED
      BY <2>2, <2>3, TypeSplitNext
  <1>5. CASE Classify(c)
    <2>1. ASSUME NEW t \in Triages
          PROVE  [cases[c] EXCEPT !.triage = t, !.status = "classified"] \in Case
      BY <1>1, ConstantsAssumption DEF Case, CaseStatus
    <2>2. StoreOK'
      BY <1>1, <1>5, <2>1, SuspendType DEF StoreOK, Classify, PC
    <2>3. TopicsOK'
      BY <1>1, <1>5 DEF TopicsOK, Classify, inboxes, outcomes
    <2> QED
      BY <2>2, <2>3, TypeSplitNext
  <1>6. CASE PublishClassified(c)
    <2>1. delegated(cases[c]) \in Case
      BY <1>1, StoreTypes DEF Slots
    <2>2. ASSUME Emit("intake", c, cases[c], Emission(Resolve("direct_response"), FALSE, "closed")) PROVE StoreOK'
      BY <1>1, <1>2, <2>2, EmitType
    <2>3. ASSUME Suspend("intake", c, delegated(cases[c]), "request_billing") /\ UNCHANGED verdict PROVE StoreOK'
      BY <1>1, <2>1, <2>3, SuspendType DEF StoreOK, PC
    <2>4. ASSUME Return("intake", c, cases[c]) PROVE StoreOK'
      BY <1>1, <2>4, ReturnType
    <2>5. StoreOK'
      BY <1>6, <2>2, <2>3, <2>4 DEF PublishClassified
    <2>6. TopicsOK'
      BY <1>1, <1>6, FaultType DEF TopicsOK, PublishClassified, inboxes, outcomes
    <2> QED
      BY <2>5, <2>6, TypeSplitNext
  <1>7. ASSUME NEW slot \in Slots, NEW here \in PC, NEW next \in PC,
               RequestReview(c, slot, here, next)
        PROVE  TypeOK'
    <2>1. ASSUME Suspend("intake", c, cases[c], next) /\ UNCHANGED verdict PROVE StoreOK'
      BY <1>1, <2>1, SuspendType DEF StoreOK
    <2>2. StoreOK'
      BY <1>3, <1>7, <2>1 DEF RequestReview
    <2>3. requests' \subseteq [case : Cases, slot : Slots] /\ faults' \in 0 .. MaxFaults
      <3>1. CASE UNCHANGED faults
        BY <1>1, <1>7, <3>1 DEF TopicsOK, RequestReview
      <3>2. CASE Fault
        BY <1>1, <1>7, <3>2, FaultType DEF TopicsOK, RequestReview
      <3> QED
        BY <1>7, <3>1, <3>2 DEF RequestReview, DelegationFailed
    <2>4. TopicsOK'
      BY <1>1, <1>7, <2>3 DEF TopicsOK, RequestReview, outcomes
    <2> QED
      BY <2>2, <2>4, TypeSplitNext
  <1>8. CASE RequestBilling(c)
    BY <1>7, <1>8 DEF RequestBilling, Slots, PC
  <1>9. CASE RequestRisk(c)
    BY <1>7, <1>9 DEF RequestRisk, Slots, PC
  <1>10. CASE AnnounceReview(c)
    <2>1. ASSUME Return("intake", c, cases[c]) PROVE StoreOK'
      BY <1>1, <2>1, ReturnType
    <2>2. StoreOK'
      BY <1>3, <1>10, <2>1 DEF AnnounceReview
    <2>3. TopicsOK'
      BY <1>1, <1>10, FaultType DEF TopicsOK, AnnounceReview, DelegationFailed, inboxes, outcomes
    <2> QED
      BY <2>2, <2>3, TypeSplitNext
  <1> QED
    BY <1>4, <1>5, <1>6, <1>8, <1>9, <1>10 DEF Intake

\* The handler of task results keeps the types.
LEMMA ReceiveResultType ==
  ASSUME TypeOK, NEW m \in results, ReceiveResult(m)
  PROVE  TypeOK'
  <1>1. m.case \in Cases /\ m.slot \in Slots /\ StoreOK /\ TopicsOK /\ "result" \in Loops
    BY TypeSplit DEF TypeOK, Loops, Consumers
  <1>2. mark_slot_failed(cases[m.case], m.slot) \in Case
    BY <1>1, StoreTypes DEF StoreOK
  <1>3. StoreOK'
    BY <1>1, <1>2, SuspendType DEF StoreOK, ReceiveResult, PC
  <1>4. TopicsOK'
    BY <1>1, ConstantsAssumption DEF TopicsOK, ReceiveResult, Deliver, outcomes
  <1> QED
    BY <1>3, <1>4, TypeSplitNext

\* The handler of billing reports keeps the types.
LEMMA ReceiveBillingType ==
  ASSUME TypeOK, NEW e \in billing_events, ReceiveBilling(e)
  PROVE  TypeOK'
  <1> DEFINE c == e.case
             applied == apply_billing_result(cases[c], billing_finding(e.report))
  <1>1. c \in Cases /\ StoreOK /\ TopicsOK /\ "billing" \in Loops
    BY TypeSplit DEF TypeOK, Loops, Consumers
  <1>2. applied \in Case
    <2>1. billing_finding(e.report) \in BillingFinding
      BY FindingTypes, ConstantsAssumption DEF TypeOK
    <2> QED
      BY <1>1, <2>1, StoreTypes DEF StoreOK, Slots
  <1>3. StoreOK'
    <2>1. CASE UNCHANGED store
      BY <1>1, <2>1 DEF StoreOK, store
    <2>2. CASE Suspend("billing", c, applied, "attached") /\ UNCHANGED verdict
      BY <1>1, <1>2, <2>2, SuspendType DEF StoreOK, PC
    <2>3. CASE DecideIfReady("billing", c, applied)
      BY <1>1, <1>2, <2>3, DecideIfReadyType
    <2> QED
      BY <2>1, <2>2, <2>3 DEF ReceiveBilling
  <1>4. TopicsOK'
    BY <1>1, ConstantsAssumption DEF TopicsOK, ReceiveBilling, Deliver, outcomes
  <1> QED
    BY <1>3, <1>4, TypeSplitNext

\* The handler of risk reports keeps the types, fast path included.
LEMMA ReceiveRiskType ==
  ASSUME TypeOK, NEW e \in risk_events, ReceiveRisk(e)
  PROVE  TypeOK'
  <1> DEFINE c == e.case
             k == cases[c]
             finding == risk_finding(e.report)
             applied == apply_risk_result(k, finding)
  <1>1. c \in Cases /\ k \in Case /\ StoreOK /\ TopicsOK /\ "risk" \in Loops
    BY TypeSplit DEF TypeOK, Loops, Consumers
  <1>2. finding \in RiskFinding
    BY FindingTypes, ConstantsAssumption DEF TypeOK
  <1>3. applied \in Case
    BY <1>1, <1>2, StoreTypes DEF Slots
  <1>4. StoreOK'
    <2>1. CASE UNCHANGED store
      BY <1>1, <2>1 DEF StoreOK, store
    <2>2. CASE EscalateRisk(c, k, finding)
      <3>1. [k EXCEPT !.status = "decided", !.risk_result = finding] \in Case
        BY <1>1, <1>2 DEF Case, CaseStatus
      <3>2. Emission(Escalate("elevated_risk"), TRUE, "escalated") \in Decision
        BY DEF Emission, Escalate, Decision, Outcome, Reason, CaseStatus
      <3> QED
        BY <1>1, <2>2, <3>1, <3>2, EmitType, ReturnType DEF EscalateRisk
    <2>3. CASE Suspend("risk", c, applied, "attached") /\ UNCHANGED verdict
      BY <1>1, <1>3, <2>3, SuspendType DEF StoreOK, PC
    <2>4. CASE DecideIfReady("risk", c, applied)
      BY <1>1, <1>3, <2>4, DecideIfReadyType
    <2> QED
      BY <2>1, <2>2, <2>3, <2>4 DEF ReceiveRisk
  <1>5. TopicsOK'
    BY <1>1, ConstantsAssumption DEF TopicsOK, ReceiveRisk, Deliver, outcomes
  <1> QED
    BY <1>4, <1>5, TypeSplitNext

\* The decision after the second look at the store keeps the types.
LEMMA ConcludeType ==
  ASSUME TypeOK, NEW l \in Loops, NEW c \in Cases, Conclude(l, c)
  PROVE  TypeOK'
  <1>1. cases[c] \in Case /\ StoreOK /\ TopicsOK
    BY TypeSplit DEF TypeOK
  <1>2. StoreOK'
    BY <1>1, DecideIfReadyType DEF Conclude
  <1>3. TopicsOK'
    BY <1>1 DEF TopicsOK, Conclude, inboxes, outcomes
  <1> QED
    BY <1>2, <1>3, TypeSplitNext

\* The reaper keeps the types.
LEMMA ReaperType ==
  ASSUME TypeOK, Sweep \/ \E c \in Cases : Reap(c)
  PROVE  TypeOK'
  <1>1. StoreOK /\ TopicsOK /\ "reaper" \in Loops
    BY TypeSplit DEF Loops
  <1>2. CASE Sweep
    <2>1. StoreOK'
      BY <1>1, <1>2 DEF StoreOK, Sweep, store
    <2>2. TopicsOK'
      BY <1>1, <1>2 DEF TopicsOK, Sweep, inboxes, outcomes, list_timed_out_cases
    <2> QED
      BY <2>1, <2>2, TypeSplitNext
  <1>3. ASSUME NEW c \in Cases, Reap(c) PROVE TypeOK'
    <2>1. ASSUME UNCHANGED store PROVE StoreOK'
      BY <1>1, <2>1 DEF StoreOK, store
    <2>2. ASSUME ApplyDecision("reaper", c, cases[c]) PROVE StoreOK'
      BY <1>1, <2>2, ApplyDecisionType DEF StoreOK
    <2>3. StoreOK'
      BY <1>3, <2>1, <2>2 DEF Reap
    <2>4. TopicsOK'
      BY <1>1, <1>3 DEF TopicsOK, Reap, inboxes, outcomes
    <2> QED
      BY <2>3, <2>4, TypeSplitNext
  <1> QED
    BY <1>2, <1>3

\* The peers only add typed messages to the topics.
LEMMA PeersType ==
  ASSUME TypeOK, Peers
  PROVE  TypeOK'
  <1>1. StoreOK /\ TopicsOK
    BY TypeSplit
  <1>2. ASSUME NEW c \in Cases, NEW r \in BillingReports, BillingReplies(c, r) PROVE TypeOK'
    BY <1>1, <1>2, FaultType, TypeSplitNext, SMTT(20)
    DEF StoreOK, TopicsOK, BillingReplies, store, outcomes, Slots
  <1>3. ASSUME NEW c \in Cases, NEW r \in RiskReports, RiskReplies(c, r) PROVE TypeOK'
    BY <1>1, <1>3, FaultType, TypeSplitNext, SMTT(20)
    DEF StoreOK, TopicsOK, RiskReplies, store, outcomes, Slots
  <1>4. ASSUME NEW q \in requests, PeerFails(q) PROVE TypeOK'
    BY <1>1, <1>4, TypeSplitNext DEF StoreOK, TopicsOK, PeerFails, store, outcomes
  <1> QED
    BY <1>2, <1>3, <1>4 DEF Peers

\* A deadline that passes keeps the types.
LEMMA ClockType ==
  ASSUME TypeOK, Clock
  PROVE  TypeOK'
  <1>1. PICK c \in Cases : DeadlinePasses(c)
    BY DEF Clock
  <1>2. [cases[c] EXCEPT !.deadline = "passed"] \in Case
    <2>1. cases[c] \in Case
      BY DEF TypeOK
    <2>2. "billing" \in Slots
      BY DEF Slots
    <2> QED
      BY <2>1, <2>2, StoreTypes
  <1>3. StoreOK'
    BY <1>1, <1>2, TypeSplit DEF StoreOK, DeadlinePasses
  <1>4. TopicsOK'
    BY <1>1, TypeSplit DEF TopicsOK, DeadlinePasses, inboxes, outcomes
  <1> QED
    BY <1>3, <1>4, TypeSplitNext

\* Every step keeps the types.
LEMMA NextType == TypeOK /\ [Next]_vars => TypeOK'
  <1> SUFFICES ASSUME TypeOK, [Next]_vars PROVE TypeOK'
    OBVIOUS
  <1>1. CASE UNCHANGED vars
    BY <1>1 DEF TypeOK, vars, store, inboxes, outcomes
  <1>2. ASSUME NEW l \in Loops, Loop(l) PROVE TypeOK'
    BY <1>2, IntakeType, ReceiveResultType, ReceiveBillingType, ReceiveRiskType,
       ReaperType, ConcludeType, PublishDecisionType, PublishDraftType DEF Loop
  <1> QED
    BY <1>1, <1>2, PeersType, ClockType DEF Next

\* The store, the coroutines and the topics keep their types in every
\* behavior of the agent, for any number of cases, reports, faults and
\* redeliveries.
THEOREM TypeCorrect == Spec => []TypeOK
  BY InitType, NextType, PTL DEF Spec

-----------------------------------------------------------------------------
(***************************************************************************)
(* The claim on a case is exclusive, for any number of cases, faults and   *)
(* redeliveries.  Every step works for one loop on one case, so the proof  *)
(* is about that case: the Step lemmas give its effect pointwise, Frame    *)
(* disposes of the other cases, and one lemma per action shows that        *)
(* CaseInv holds again for its own case.                                   *)
(***************************************************************************)

\* Nothing of case c changes for the loops other than l.
OthersWait(l, c) ==
  \A m \in Loops : m # l => pc'[m][c] = pc[m][c] /\ verdict'[m][c] = verdict[m][c]

\* The step leaves case c alone, and does not sweep it up unless delegated.
Untouched(c) ==
  /\ cases'[c] = cases[c]
  /\ \A m \in Loops : pc'[m][c] = pc[m][c] /\ verdict'[m][c] = verdict[m][c]
  /\ decided'[c] = decided[c]
  /\ c \in sweep' => c \in sweep \/ cases[c].delegated

\* The case invariant only looks at what Untouched keeps.
LEMMA Frame ==
  ASSUME NEW c \in Cases, CaseInv(c), Untouched(c)
  PROVE  CaseInv(c)'
  <1>0. "intake" \in Loops
    BY DEF Loops, Consumers
  <1>1. \A l \in Loops : Emitting(l, c)' <=> Emitting(l, c)
    BY DEF Emitting, Untouched
  <1>2. DelegationFor(c)'
    BY <1>0 DEF CaseInv, DelegationFor, Untouched
  <1>3. ClaimFor(c)'
    BY <1>1 DEF CaseInv, ClaimFor, Untouched, Settled, is_terminal
  <1>4. ExclusiveFor(c)'
    BY <1>1 DEF CaseInv, ExclusiveFor, Untouched
  <1>5. DeciderFor(c)'
    BY DEF CaseInv, DeciderFor, Untouched
  <1> QED
    BY <1>2, <1>3, <1>4, <1>5 DEF CaseInv

\* What suspending a loop changes, point by point.
LEMMA SuspendStep ==
  ASSUME StoreOK, NEW l \in Loops, NEW c \in Cases, NEW k, NEW p, Suspend(l, c, k, p)
  PROVE  /\ cases'[c] = k /\ pc'[l][c] = p
         /\ \A m \in Loops : m # l => pc'[m][c] = pc[m][c]
         /\ \A d \in Cases : d # c =>
              cases'[d] = cases[d] /\ \A m \in Loops : pc'[m][d] = pc[m][d]
  BY DEF StoreOK, Suspend

\* What setting a loop's verdict changes, point by point.
LEMMA VerdictStep ==
  ASSUME StoreOK, NEW l \in Loops, NEW c \in Cases, NEW v,
         verdict' = [verdict EXCEPT ![l][c] = v]
  PROVE  /\ verdict'[l][c] = v
         /\ \A m \in Loops : m # l => verdict'[m][c] = verdict[m][c]
         /\ \A d \in Cases : d # c => \A m \in Loops : verdict'[m][d] = verdict[m][d]
  BY DEF StoreOK

\* A coroutine that returns, having written case k.
LEMMA ReturnStep ==
  ASSUME StoreOK, NEW l \in Loops, NEW c \in Cases, NEW k, Return(l, c, k)
  PROVE  /\ cases'[c] = k /\ pc'[l][c] = "idle" /\ OthersWait(l, c)
         /\ \A d \in Cases : d # c =>
              cases'[d] = cases[d] /\ \A m \in Loops :
                pc'[m][d] = pc[m][d] /\ verdict'[m][d] = verdict[m][d]
  BY SuspendStep, VerdictStep DEF Return, OthersWait

\* A coroutine that starts to emit decision v, having written case k.
LEMMA EmitStep ==
  ASSUME StoreOK, NEW l \in Loops, NEW c \in Cases, NEW k, NEW v, Emit(l, c, k, v)
  PROVE  /\ cases'[c] = k /\ pc'[l][c] = "decide" /\ verdict'[l][c] = v
         /\ OthersWait(l, c)
         /\ \A d \in Cases : d # c =>
              cases'[d] = cases[d] /\ \A m \in Loops :
                pc'[m][d] = pc[m][d] /\ verdict'[m][d] = verdict[m][d]
  <1>1. Suspend(l, c, k, "decide")
    BY DEF Emit
  <1>2. verdict' = [verdict EXCEPT ![l][c] = v]
    BY DEF Emit
  <1>3. /\ cases'[c] = k /\ pc'[l][c] = "decide"
        /\ \A m \in Loops : m # l => pc'[m][c] = pc[m][c]
        /\ \A d \in Cases : d # c =>
             cases'[d] = cases[d] /\ \A m \in Loops : pc'[m][d] = pc[m][d]
    BY <1>1, SuspendStep, Zenon
  <1>4. /\ verdict'[l][c] = v
        /\ \A m \in Loops : m # l => verdict'[m][c] = verdict[m][c]
        /\ \A d \in Cases : d # c => \A m \in Loops : verdict'[m][d] = verdict[m][d]
    BY <1>2 DEF StoreOK
  <1> QED
    BY <1>3, <1>4, Zenon DEF OthersWait

\* A coroutine that suspends at p without touching its verdict.
LEMMA MoveStep ==
  ASSUME StoreOK, NEW l \in Loops, NEW c \in Cases, NEW k, NEW p,
         Suspend(l, c, k, p), UNCHANGED verdict
  PROVE  /\ cases'[c] = k /\ pc'[l][c] = p /\ OthersWait(l, c)
         /\ verdict'[l][c] = verdict[l][c]
         /\ \A d \in Cases : d # c =>
              cases'[d] = cases[d] /\ \A m \in Loops :
                pc'[m][d] = pc[m][d] /\ verdict'[m][d] = verdict[m][d]
  BY SuspendStep DEF OthersWait

-----------------------------------------------------------------------------
\* The kinds of steps a loop takes on its case.

\* The fields of a case that the invariant reads are those of k.
SameCase(c, k) ==
  /\ cases'[c].status = k.status /\ cases'[c].delegated = k.delegated
  /\ cases'[c].deadline = k.deadline /\ cases'[c].pending_tasks = k.pending_tasks

\* A loop leaves the case as it is and returns, or, at the intake handler,
\* moves on to a step that is not a classification or an emission.
LEMMA Leaves ==
  ASSUME NEW l \in Loops, NEW c \in Cases, CaseInv(c), OthersWait(l, c),
         SameCase(c, cases[c]), decided'[c] = decided[c],
         c \in sweep' => c \in sweep,
         pc[l][c] # "attached" \/ ~(cases[c].status = "ready_for_decision"
                                     /\ cases[c].pending_tasks = {}),
         \/ pc'[l][c] = "idle"
         \/ l = "intake" /\ pc'[l][c] \in {"request_billing", "request_risk", "announce"}
  PROVE  CaseInv(c)'
  <1>0. "intake" \in Loops
    BY DEF Loops, Consumers
  <1>1. ~Emitting(l, c)' /\ \A m \in Loops : m # l => (Emitting(m, c)' <=> Emitting(m, c))
    BY DEF Emitting, OthersWait
  <1>2. DelegationFor(c)'
    BY <1>0 DEF CaseInv, DelegationFor, OthersWait, SameCase
  <1>3. ClaimFor(c)'
    BY <1>1 DEF CaseInv, ClaimFor, OthersWait, SameCase, Settled, is_terminal
  <1>4. ExclusiveFor(c)'
    BY <1>1 DEF CaseInv, ExclusiveFor, OthersWait
  <1>5. DeciderFor(c)'
    BY DEF CaseInv, DeciderFor, OthersWait, SameCase
  <1> QED
    BY <1>2, <1>3, <1>4, <1>5 DEF CaseInv

\* A loop takes the claim on an unsettled, delegated case and starts to emit.
LEMMA Claims ==
  ASSUME NEW l \in Loops, NEW c \in Cases, CaseInv(c), OthersWait(l, c),
         cases[c].delegated, ~Settled(cases[c].status),
         cases'[c].status = "decided", cases'[c].delegated,
         decided'[c] = decided[c],
         pc'[l][c] = "decide", Settled(verdict'[l][c].status)
  PROVE  CaseInv(c)'
  <1>0. "intake" \in Loops
    BY DEF Loops, Consumers
  <1>1. \A m \in Loops : m # l => (Emitting(m, c)' <=> Emitting(m, c))
    BY DEF Emitting, OthersWait
  <1>2. /\ \A m \in Loops : Emitting(m, c) => ~verdict[m][c].claimed
        /\ \A i \in DOMAIN decided[c] : ~decided[c][i].claimed
    BY DEF CaseInv, ClaimFor
  <1>3. Settled(cases'[c].status)
    BY DEF Settled
  <1>4. DelegationFor(c)'
    BY <1>0 DEF CaseInv, DelegationFor, OthersWait
  <1>5. ClaimFor(c)'
    BY <1>1, <1>2, <1>3 DEF CaseInv, ClaimFor, OthersWait
  <1>6. ExclusiveFor(c)'
    BY <1>1, <1>2 DEF CaseInv, ExclusiveFor, OthersWait
  <1>7. DeciderFor(c)'
    BY DEF DeciderFor
  <1> QED
    BY <1>4, <1>5, <1>6, <1>7 DEF CaseInv

\* The intake handler starts to emit a decision it has not claimed.
LEMMA EmitsUnclaimed ==
  ASSUME NEW c \in Cases, CaseInv(c), OthersWait("intake", c),
         SameCase(c, cases[c]), decided'[c] = decided[c],
         c \in sweep' => c \in sweep, pc["intake"][c] # "attached",
         pc'["intake"][c] = "decide", Settled(verdict'["intake"][c].status),
         ~verdict'["intake"][c].claimed
  PROVE  CaseInv(c)'
  <1>0. "intake" \in Loops
    BY DEF Loops, Consumers
  <1>1. \A m \in Loops : m # "intake" => (Emitting(m, c)' <=> Emitting(m, c))
    BY DEF Emitting, OthersWait
  <1>2. DelegationFor(c)'
    BY <1>0 DEF CaseInv, DelegationFor, OthersWait, SameCase
  <1>3. ClaimFor(c)'
    BY <1>1 DEF CaseInv, ClaimFor, OthersWait, SameCase, Settled, is_terminal
  <1>4. ExclusiveFor(c)'
    BY <1>1 DEF CaseInv, ExclusiveFor, OthersWait
  <1>5. DeciderFor(c)'
    BY DEF CaseInv, DeciderFor, OthersWait, SameCase
  <1> QED
    BY <1>2, <1>3, <1>4, <1>5 DEF CaseInv

\* A result handler attaches a finding, or a failed slot, to an unsettled case.
LEMMA Attaches ==
  ASSUME NEW l \in Loops \ {"intake"}, NEW c \in Cases, CaseInv(c), OthersWait(l, c),
         cases[c].delegated, ~Settled(cases[c].status), cases'[c].delegated,
         cases'[c].status \in {cases[c].status, "ready_for_decision"},
         decided'[c] = decided[c], pc'[l][c] = "attached"
  PROVE  CaseInv(c)'
  <1>0. "intake" \in Loops
    BY DEF Loops, Consumers
  <1>1. ~Emitting(l, c)' /\ \A m \in Loops : m # l => (Emitting(m, c)' <=> Emitting(m, c))
    BY DEF Emitting, OthersWait
  <1>2. /\ \A m \in Loops : Emitting(m, c) => ~verdict[m][c].claimed
        /\ \A i \in DOMAIN decided[c] : ~decided[c][i].claimed
    BY DEF CaseInv, ClaimFor
  <1>3. DelegationFor(c)'
    BY <1>0 DEF CaseInv, DelegationFor, OthersWait
  <1>4. ClaimFor(c)'
    BY <1>1, <1>2 DEF CaseInv, ClaimFor, OthersWait
  <1>5. ExclusiveFor(c)'
    BY <1>1 DEF CaseInv, ExclusiveFor, OthersWait
  <1>6. DeciderFor(c)'
    BY DEF DeciderFor
  <1> QED
    BY <1>3, <1>4, <1>5, <1>6 DEF CaseInv

\* The intake handler works on a case that is not delegated: it creates it,
\* classifies it, or delegates it.
LEMMA Classifies ==
  ASSUME NEW c \in Cases, CaseInv(c), OthersWait("intake", c),
         cases[c].status \in {"none", "received", "classified"},
         decided'[c] = decided[c], c \in sweep' => c \in sweep,
         \/ /\ pc'["intake"][c] \in {"classifying", "classified"}
            /\ cases'[c].status \in {"received", "classified"}
            /\ cases'[c].delegated = FALSE /\ cases'[c].deadline = "none"
         \/ /\ pc'["intake"][c] = "request_billing"
            /\ cases'[c].status = "waiting_for_peer_reviews" /\ cases'[c].delegated
  PROVE  CaseInv(c)'
  <1>0. "intake" \in Loops
    BY DEF Loops, Consumers
  <1>1. ~Emitting("intake", c)'
        /\ \A m \in Loops : m # "intake" => (Emitting(m, c)' <=> Emitting(m, c))
    BY DEF Emitting, OthersWait
  <1>2. ~Settled(cases[c].status) /\ ~cases[c].delegated
    BY DEF CaseInv, DelegationFor, Settled, is_terminal, TerminalStatuses
  <1>3. /\ \A m \in Loops : Emitting(m, c) => ~verdict[m][c].claimed
        /\ \A i \in DOMAIN decided[c] : ~decided[c][i].claimed
    BY <1>2 DEF CaseInv, ClaimFor
  <1>4. DelegationFor(c)'
    BY <1>0, <1>2 DEF CaseInv, DelegationFor, OthersWait
  <1>5. ClaimFor(c)'
    BY <1>1, <1>3 DEF CaseInv, ClaimFor, OthersWait
  <1>6. ExclusiveFor(c)'
    BY <1>1 DEF CaseInv, ExclusiveFor, OthersWait
  <1>7. DeciderFor(c)'
    BY DEF DeciderFor
  <1> QED
    BY <1>4, <1>5, <1>6, <1>7 DEF CaseInv

\* A decision reaches the topic, or does not.
LEMMA Publishes ==
  ASSUME NEW l \in Loops, NEW c \in Cases, CaseInv(c), OthersWait(l, c),
         decided[c] \in Seq(Decision), verdict[l][c] \in Decision,
         pc[l][c] = "decide", SameCase(c, cases[c]), c \in sweep' => c \in sweep,
         decided'[c] \in {decided[c], Append(decided[c], verdict[l][c])},
         \/ pc'[l][c] = "idle"
         \/ pc'[l][c] = "draft" /\ verdict'[l][c] = verdict[l][c]
  PROVE  CaseInv(c)'
  <1>0. "intake" \in Loops
    BY DEF Loops, Consumers
  <1>1. Emitting(l, c) /\ \A m \in Loops : Emitting(m, c)' => Emitting(m, c) /\ verdict'[m][c] = verdict[m][c]
    BY DEF Emitting, OthersWait
  <1>2. ASSUME NEW i \in DOMAIN decided'[c]
        PROVE  \/ i \in DOMAIN decided[c] /\ decided'[c][i] = decided[c][i]
               \/ i = Len(decided[c]) + 1 /\ decided'[c][i] = verdict[l][c]
    BY SMTT(20)
  <1>3. DelegationFor(c)'
    BY <1>0 DEF CaseInv, DelegationFor, OthersWait, SameCase
  <1>4. ClaimFor(c)'
    <2>1. ASSUME NEW m \in Loops, Emitting(m, c)'
          PROVE  /\ Settled(verdict'[m][c].status)
                 /\ verdict'[m][c].claimed => Settled(cases'[c].status)
      BY <1>1, <2>1 DEF CaseInv, ClaimFor, SameCase
    <2>2. ASSUME NEW m \in Loops, pc'[m][c] = "decide", verdict'[m][c].claimed,
                 NEW i \in DOMAIN decided'[c], decided'[c][i].claimed
          PROVE  FALSE
      <3>1. m # l /\ Emitting(m, c) /\ pc[m][c] = "decide" /\ verdict[m][c].claimed
        BY <2>2 DEF Emitting, OthersWait
      <3>2. ~verdict[l][c].claimed
        BY <1>1, <3>1 DEF CaseInv, ExclusiveFor
      <3> QED
        BY <1>2, <2>2, <3>1, <3>2 DEF CaseInv, ClaimFor
    <2>3. ASSUME NEW i \in DOMAIN decided'[c], decided'[c][i].claimed
          PROVE  Settled(cases'[c].status)
      BY <1>1, <1>2, <2>3 DEF CaseInv, ClaimFor, SameCase
    <2> QED
      BY <2>1, <2>2, <2>3 DEF ClaimFor
  <1>5. ExclusiveFor(c)'
    <2>1. ASSUME NEW i \in DOMAIN decided'[c], NEW j \in DOMAIN decided'[c],
                 decided'[c][i].claimed, decided'[c][j].claimed
          PROVE  i = j
      <3>1. verdict[l][c].claimed => \A n \in DOMAIN decided[c] : ~decided[c][n].claimed
        BY <1>1 DEF CaseInv, ClaimFor
      <3> QED
        BY <1>2, <2>1, <3>1 DEF CaseInv, ExclusiveFor
    <2> QED
      BY <1>1, <2>1 DEF CaseInv, ExclusiveFor
  <1>6. DeciderFor(c)'
    BY DEF CaseInv, DeciderFor, OthersWait, SameCase
  <1> QED
    BY <1>3, <1>4, <1>5, <1>6 DEF CaseInv

\* An emitting loop is done and writes a settled status.
LEMMA Finishes ==
  ASSUME NEW l \in Loops, NEW c \in Cases, CaseInv(c), OthersWait(l, c),
         cases'[c].delegated = cases[c].delegated, cases'[c].deadline = cases[c].deadline,
         Settled(cases'[c].status), decided'[c] = decided[c], c \in sweep' => c \in sweep,
         pc[l][c] = "draft", pc'[l][c] = "idle"
  PROVE  CaseInv(c)'
  <1>0. "intake" \in Loops
    BY DEF Loops, Consumers
  <1>1. ~Emitting(l, c)' /\ \A m \in Loops : m # l => (Emitting(m, c)' <=> Emitting(m, c))
    BY DEF Emitting, OthersWait
  <1>2. cases'[c].status \notin {"none", "received", "classified", "ready_for_decision"}
    BY DEF Settled, is_terminal, TerminalStatuses
  <1>3. DelegationFor(c)'
    BY <1>0, <1>2 DEF CaseInv, DelegationFor, OthersWait
  <1>4. ClaimFor(c)'
    BY <1>1 DEF CaseInv, ClaimFor, OthersWait
  <1>5. ExclusiveFor(c)'
    BY <1>1 DEF CaseInv, ExclusiveFor, OthersWait
  <1>6. DeciderFor(c)'
    BY <1>2 DEF DeciderFor
  <1> QED
    BY <1>3, <1>4, <1>5, <1>6 DEF CaseInv

-----------------------------------------------------------------------------
\* The actions.  Each preserves the invariant of every case, and leaves a
\* settled case settled with the opinions it was decided on.

Frozen(c) ==
  Settled(cases[c].status) =>
    /\ Settled(cases'[c].status)
    /\ cases'[c].billing_result = cases[c].billing_result
    /\ cases'[c].risk_result = cases[c].risk_result
    /\ cases'[c].pending_tasks = cases[c].pending_tasks
    /\ cases'[c].slot_failed = cases[c].slot_failed

StepOK == \A c \in Cases : CaseInv(c)' /\ Frozen(c)

\* A step on case c is correct if it is so for c and leaves the others alone.
LEMMA OneCase ==
  ASSUME ClaimInvariant, NEW c \in Cases, CaseInv(c)' /\ Frozen(c),
         \A d \in Cases : d # c => Untouched(d)
  PROVE  StepOK
  <1> SUFFICES ASSUME NEW d \in Cases, d # c PROVE CaseInv(d)' /\ Frozen(d)
    BY DEF StepOK
  <1> QED
    BY Frame DEF ClaimInvariant, Frozen, Untouched

\* A step that touches no case.
LEMMA NoCase ==
  ASSUME ClaimInvariant, \A d \in Cases : Untouched(d)
  PROVE  StepOK
  BY Frame DEF ClaimInvariant, StepOK, Frozen, Untouched

\* The readiness test of a delegated case: claim it and emit, or return.
LEMMA DecideIfReadyOK ==
  ASSUME TypeOK, ClaimInvariant, NEW l \in Loops, NEW c \in Cases,
         cases[c].delegated, UNCHANGED <<decided, sweep>>,
         DecideIfReady(l, c, cases[c])
  PROVE  StepOK
  <1>1. StoreOK /\ CaseInv(c) /\ cases[c] \in Case
    BY TypeSplit DEF ClaimInvariant, TypeOK
  <1>2. CASE Return(l, c, cases[c]) /\ ~(cases[c].status = "ready_for_decision"
                                         /\ cases[c].pending_tasks = {})
    <2>1. CaseInv(c)'
      BY <1>1, <1>2, ReturnStep, Leaves DEF SameCase
    <2> QED
      BY <1>1, <1>2, <2>1, ReturnStep, OneCase DEF Untouched, Frozen
  <1>3. ASSUME NEW v, v.status = "decided", claim_decision(cases[c]),
               Emit(l, c, [cases[c] EXCEPT !.status = "decided"], v)
        PROVE  StepOK
    <2>1. /\ cases'[c] = [cases[c] EXCEPT !.status = "decided"] /\ pc'[l][c] = "decide"
          /\ verdict'[l][c] = v /\ OthersWait(l, c)
          /\ \A d \in Cases : d # c =>
               cases'[d] = cases[d] /\ \A m \in Loops :
                 pc'[m][d] = pc[m][d] /\ verdict'[m][d] = verdict[m][d]
      BY <1>1, <1>3, EmitStep
    <2>2. ~Settled(cases[c].status) /\ Settled(v.status)
      BY <1>3 DEF claim_decision, Settled
    <2>3. cases'[c].status = "decided" /\ cases'[c].delegated
      BY <1>1, <2>1 DEF Case
    <2>4. CaseInv(c)'
      BY <1>1, <2>1, <2>2, <2>3, Claims
    <2> QED
      BY <2>1, <2>2, <2>4, OneCase DEF Untouched, Frozen
  <1>4. CASE ApplyDecision(l, c, cases[c]) /\ claim_decision(cases[c])
    BY <1>3, <1>4 DEF ApplyDecision, Emission
  <1>5. CASE ApplyDecision(l, c, cases[c]) /\ ~claim_decision(cases[c])
    BY <1>2, <1>5 DEF ApplyDecision, claim_decision, Settled, is_terminal, TerminalStatuses
  <1>6. CASE ~(is_ready_to_decide(cases[c]) /\ (l = "result" \/ ~Settled(cases[c].status)))
    BY <1>2, <1>6 DEF DecideIfReady, is_ready_to_decide, Settled, is_terminal, TerminalStatuses
  <1> QED
    BY <1>4, <1>5, <1>6 DEF DecideIfReady

\* Publishing a decision.
LEMMA PublishDecisionOK ==
  ASSUME TypeOK, ClaimInvariant, NEW l \in Loops, NEW c \in Cases, PublishDecision(l, c)
  PROVE  StepOK
  <1>1. /\ StoreOK /\ CaseInv(c)
        /\ decided[c] \in Seq(Decision) /\ verdict[l][c] \in Decision
    BY TypeSplit DEF ClaimInvariant, TypeOK
  <1>2. /\ decided'[c] \in {decided[c], Append(decided[c], verdict[l][c])}
        /\ \A d \in Cases : d # c => decided'[d] = decided[d]
        /\ pc[l][c] = "decide" /\ sweep' = sweep
    BY DEF PublishDecision, TypeOK
  <1>3. CASE Suspend(l, c, cases[c], "draft") /\ UNCHANGED verdict
    <2>1. /\ cases'[c] = cases[c] /\ pc'[l][c] = "draft" /\ OthersWait(l, c)
          /\ verdict'[l][c] = verdict[l][c]
          /\ \A d \in Cases : d # c => Untouched(d)
      BY <1>1, <1>2, <1>3, MoveStep DEF Untouched
    <2>2. CaseInv(c)'
      BY <1>1, <1>2, <2>1, Publishes DEF SameCase
    <2> QED
      BY <2>1, <2>2, OneCase DEF Frozen
  <1>4. CASE Return(l, c, cases[c])
    <2>1. /\ cases'[c] = cases[c] /\ pc'[l][c] = "idle" /\ OthersWait(l, c)
          /\ \A d \in Cases : d # c => Untouched(d)
      BY <1>1, <1>2, <1>4, ReturnStep DEF Untouched
    <2>2. CaseInv(c)'
      BY <1>1, <1>2, <2>1, Publishes DEF SameCase
    <2> QED
      BY <2>1, <2>2, OneCase DEF Frozen
  <1> QED
    BY <1>3, <1>4 DEF PublishDecision

\* Publishing a draft, which ends an emission.
LEMMA PublishDraftOK ==
  ASSUME TypeOK, ClaimInvariant, NEW l \in Loops, NEW c \in Cases, PublishDraft(l, c)
  PROVE  StepOK
  <1>1. StoreOK /\ CaseInv(c) /\ cases[c] \in Case
    BY TypeSplit DEF ClaimInvariant, TypeOK
  <1>2. pc[l][c] = "draft" /\ sweep' = sweep /\ decided' = decided
    BY DEF PublishDraft
  <1>3. CASE Return(l, c, [cases[c] EXCEPT !.status = verdict[l][c].status])
    <2>1. /\ cases'[c] = [cases[c] EXCEPT !.status = verdict[l][c].status]
          /\ pc'[l][c] = "idle" /\ OthersWait(l, c)
          /\ \A d \in Cases : d # c => Untouched(d)
      BY <1>1, <1>2, <1>3, ReturnStep DEF Untouched
    <2>2. Settled(verdict[l][c].status)
      BY <1>1, <1>2 DEF CaseInv, ClaimFor, Emitting
    <2>3. /\ Settled(cases'[c].status) /\ Frozen(c)
          /\ cases'[c].delegated = cases[c].delegated
          /\ cases'[c].deadline = cases[c].deadline
      BY <1>1, <2>1, <2>2 DEF Case, Frozen
    <2>4. CaseInv(c)'
      BY <1>1, <1>2, <2>1, <2>3, Finishes
    <2> QED
      BY <2>1, <2>3, <2>4, OneCase
  <1>4. CASE Return(l, c, cases[c])
    <2>1. /\ cases'[c] = cases[c] /\ pc'[l][c] = "idle" /\ OthersWait(l, c)
          /\ \A d \in Cases : d # c => Untouched(d)
      BY <1>1, <1>2, <1>4, ReturnStep DEF Untouched
    <2>2. CaseInv(c)'
      BY <1>1, <1>2, <2>1, Leaves DEF SameCase
    <2> QED
      BY <2>1, <2>2, OneCase DEF Frozen
  <1> QED
    BY <1>3, <1>4 DEF PublishDraft

\* The intake handler, from the ticket to the end of the delegation.
LEMMA IntakeOK ==
  ASSUME TypeOK, ClaimInvariant, NEW c \in Cases, Intake(c)
  PROVE  StepOK
  <1>1. StoreOK /\ CaseInv(c) /\ cases[c] \in Case /\ "intake" \in Loops
    BY TypeSplit DEF ClaimInvariant, TypeOK, Loops, Consumers
  <1>2. decided' = decided /\ sweep' = sweep
    BY DEF Intake, ReceiveTicket, Classify, PublishClassified, RequestBilling, RequestRisk,
           RequestReview, AnnounceReview, outcomes
  <1>3. ASSUME NEW v, Emit("intake", c, cases[c], v), pc["intake"][c] # "attached",
               Settled(v.status), ~v.claimed
        PROVE  StepOK
    <2>1. /\ cases'[c] = cases[c] /\ pc'["intake"][c] = "decide"
          /\ verdict'["intake"][c] = v /\ OthersWait("intake", c)
          /\ \A d \in Cases : d # c => Untouched(d)
      BY <1>1, <1>2, <1>3, EmitStep DEF Untouched
    <2>2. CaseInv(c)'
      BY <1>1, <1>2, <1>3, <2>1, EmitsUnclaimed DEF SameCase
    <2> QED
      BY <2>1, <2>2, OneCase DEF Frozen
  <1>4. ASSUME DelegationFailed(c), pc["intake"][c] # "attached"
        PROVE  StepOK
    BY <1>3, <1>4 DEF DelegationFailed, Emission, Settled, is_terminal, TerminalStatuses
  <1>5. ASSUME Return("intake", c, cases[c]), pc["intake"][c] # "attached"
        PROVE  StepOK
    <2>1. /\ cases'[c] = cases[c] /\ pc'["intake"][c] = "idle" /\ OthersWait("intake", c)
          /\ \A d \in Cases : d # c => Untouched(d)
      BY <1>1, <1>2, <1>5, ReturnStep DEF Untouched
    <2>2. CaseInv(c)'
      BY <1>1, <1>2, <1>5, <2>1, Leaves DEF SameCase
    <2> QED
      BY <2>1, <2>2, OneCase DEF Frozen
  <1>6. ASSUME NEW k \in Case, NEW p, Suspend("intake", c, k, p), UNCHANGED verdict,
               cases[c].status \in {"none", "received", "classified"},
               \/ /\ p \in {"classifying", "classified"}
                  /\ k.status \in {"received", "classified"}
                  /\ k.delegated = FALSE /\ k.deadline = "none"
               \/ /\ p = "request_billing"
                  /\ k.status = "waiting_for_peer_reviews" /\ k.delegated
        PROVE  StepOK
    <2>1. /\ cases'[c] = k /\ pc'["intake"][c] = p /\ OthersWait("intake", c)
          /\ \A d \in Cases : d # c => Untouched(d)
      BY <1>1, <1>2, <1>6, MoveStep DEF Untouched
    <2>2. CaseInv(c)'
      BY <1>1, <1>2, <1>6, <2>1, Classifies
    <2> QED
      BY <1>6, <2>1, <2>2, OneCase DEF Frozen, Settled, is_terminal, TerminalStatuses
  <1>7. CASE ReceiveTicket(c)
    <2>1. CASE cases[c].status \in {"none", "received", "classified"}
      <3> DEFINE k == IF cases[c].status = "none" THEN NewCase("received") ELSE cases[c]
      <3>1. Suspend("intake", c, k, "classifying") /\ UNCHANGED verdict
        BY <1>7, <2>1 DEF ReceiveTicket
      <3>2. cases[c].delegated = FALSE /\ cases[c].deadline = "none"
        BY <1>1, <2>1 DEF CaseInv, DelegationFor, Case
      <3>3. /\ k \in Case /\ k.status \in {"received", "classified"}
            /\ k.delegated = FALSE /\ k.deadline = "none"
        BY <1>1, <2>1, <3>2, NewCaseType DEF NewCase, CaseStatus
      <3> HIDE DEF k
      <3> QED
        BY <1>6, <2>1, <3>1, <3>3
    <2>2. CASE cases[c].status \notin {"none", "received", "classified"}
      BY <1>2, <1>7, <2>2, NoCase DEF ReceiveTicket, Untouched
    <2> QED
      BY <2>1, <2>2
  <1>8. CASE Classify(c)
    <2>1. PICK t \in Triages :
            Suspend("intake", c, [cases[c] EXCEPT !.triage = t, !.status = "classified"],
                    "classified")
      BY <1>8 DEF Classify
    <2> DEFINE k == [cases[c] EXCEPT !.triage = t, !.status = "classified"]
    <2>2. cases[c].status \in {"received", "classified"}
      BY <1>1, <1>8 DEF CaseInv, DelegationFor, Classify
    <2>3. cases[c].delegated = FALSE /\ cases[c].deadline = "none"
      BY <1>1, <2>2 DEF CaseInv, DelegationFor, Case
    <2>4. k \in Case /\ k.status = "classified" /\ k.delegated = FALSE /\ k.deadline = "none"
      BY <1>1, <2>3, ConstantsAssumption DEF Case, CaseStatus
    <2>5. UNCHANGED verdict
      BY <1>8 DEF Classify
    <2> HIDE DEF k
    <2> QED
      BY <1>6, <2>1, <2>2, <2>4, <2>5 DEF k
  <1>9. CASE PublishClassified(c)
    <2>1. /\ pc["intake"][c] # "attached"
          /\ cases[c].status \in {"received", "classified"}
      BY <1>1, <1>9 DEF CaseInv, DelegationFor, PublishClassified
    <2>2. CASE Emit("intake", c, cases[c], Emission(Resolve("direct_response"), FALSE, "closed"))
      BY <1>3, <2>1, <2>2 DEF Emission, Settled, is_terminal, TerminalStatuses
    <2>3. CASE Suspend("intake", c, delegated(cases[c]), "request_billing") /\ UNCHANGED verdict
      <3>1. /\ delegated(cases[c]) \in Case
            /\ delegated(cases[c]).status = "waiting_for_peer_reviews"
            /\ delegated(cases[c]).delegated
        <4>1. cases[c] \in Case /\ "billing" \in Slots
          BY <1>1 DEF Slots
        <4>2. delegated(cases[c]) \in Case
          BY <4>1, StoreTypes
        <4> QED
          BY <4>1, <4>2 DEF delegated, Case
      <3> QED
        BY <1>6, <2>1, <2>3, <3>1
    <2>4. CASE Return("intake", c, cases[c])
      BY <1>5, <2>1, <2>4
    <2> QED
      BY <1>9, <2>2, <2>3, <2>4 DEF PublishClassified
  <1>10. ASSUME NEW slot, NEW here, NEW next \in {"request_risk", "announce"},
                here # "attached", RequestReview(c, slot, here, next)
         PROVE  StepOK
    <2>1. CASE Suspend("intake", c, cases[c], next) /\ UNCHANGED verdict
      <3>1. /\ cases'[c] = cases[c] /\ pc'["intake"][c] = next /\ OthersWait("intake", c)
            /\ \A d \in Cases : d # c => Untouched(d)
        BY <1>1, <1>2, <2>1, MoveStep DEF Untouched
      <3>2. CaseInv(c)'
        BY <1>1, <1>2, <1>10, <3>1, Leaves DEF SameCase, RequestReview
      <3> QED
        BY <3>1, <3>2, OneCase DEF Frozen
    <2>2. CASE DelegationFailed(c)
      BY <1>4, <1>10, <2>2 DEF RequestReview
    <2> QED
      BY <1>10, <2>1, <2>2 DEF RequestReview
  <1>11. CASE RequestBilling(c)
    BY <1>10, <1>11 DEF RequestBilling
  <1>12. CASE RequestRisk(c)
    BY <1>10, <1>12 DEF RequestRisk
  <1>13. CASE AnnounceReview(c)
    BY <1>4, <1>5, <1>13 DEF AnnounceReview
  <1> QED
    BY <1>7, <1>8, <1>9, <1>11, <1>12, <1>13 DEF Intake

\* A result handler that attaches k to its case.
LEMMA AttachOK ==
  ASSUME TypeOK, ClaimInvariant, NEW l \in Loops \ {"intake"}, NEW c \in Cases, NEW k,
         cases[c].delegated, ~Settled(cases[c].status), k.delegated,
         k.status \in {cases[c].status, "ready_for_decision"},
         Suspend(l, c, k, "attached"), UNCHANGED <<verdict, decided, sweep>>
  PROVE  StepOK
  <1>1. StoreOK /\ CaseInv(c)
    BY TypeSplit DEF ClaimInvariant
  <1>2. /\ cases'[c] = k /\ pc'[l][c] = "attached" /\ OthersWait(l, c)
        /\ \A d \in Cases : d # c => Untouched(d)
    BY <1>1, MoveStep DEF Untouched
  <1>3. CaseInv(c)'
    BY <1>1, <1>2, Attaches
  <1> QED
    BY <1>2, <1>3, OneCase DEF Frozen

\* What attaching writes: the case stays delegated and is, at most, ready.
LEMMA AttachedCase ==
  ASSUME NEW k \in Case, NEW slot \in Slots, k.delegated
  PROVE  /\ mark_slot_failed(k, slot).delegated
         /\ mark_slot_failed(k, slot).status \in {k.status, "ready_for_decision"}
         /\ \A f : /\ apply_billing_result(k, f).delegated
                   /\ apply_billing_result(k, f).status \in {k.status, "ready_for_decision"}
                   /\ apply_risk_result(k, f).delegated
                   /\ apply_risk_result(k, f).status \in {k.status, "ready_for_decision"}
  <1>1. /\ mark_slot_failed(k, slot).delegated
        /\ mark_slot_failed(k, slot).status \in {k.status, "ready_for_decision"}
    BY DEF mark_slot_failed, Case
  <1>2. ASSUME NEW f
        PROVE  /\ apply_billing_result(k, f).delegated
               /\ apply_billing_result(k, f).status \in {k.status, "ready_for_decision"}
    BY DEF apply_billing_result, without_pending, Case
  <1>3. ASSUME NEW f
        PROVE  /\ apply_risk_result(k, f).delegated
               /\ apply_risk_result(k, f).status \in {k.status, "ready_for_decision"}
    BY DEF apply_risk_result, without_pending, Case
  <1> QED
    BY <1>1, <1>2, <1>3

\* The task-result handler.
LEMMA ReceiveResultOK ==
  ASSUME TypeOK, ClaimInvariant, NEW m \in results, ReceiveResult(m)
  PROVE  StepOK
  <1>1. /\ m.case \in Cases /\ m.slot \in Slots /\ cases[m.case] \in Case
        /\ "result" \in Loops \ {"intake"}
        /\ UNCHANGED <<verdict, decided, sweep>>
    BY DEF TypeOK, Loops, Consumers, ReceiveResult, outcomes
  <1>2. CASE UNCHANGED <<cases, pc>>
    BY <1>1, <1>2, NoCase DEF Untouched
  <1>3. CASE /\ cases[m.case].delegated /\ ~Settled(cases[m.case].status)
             /\ Suspend("result", m.case, mark_slot_failed(cases[m.case], m.slot), "attached")
    BY <1>1, <1>3, AttachedCase, AttachOK
  <1> QED
    BY <1>2, <1>3 DEF ReceiveResult

\* The billing handler.
LEMMA ReceiveBillingOK ==
  ASSUME TypeOK, ClaimInvariant, NEW e \in billing_events, ReceiveBilling(e)
  PROVE  StepOK
  <1> DEFINE c == e.case
             f == billing_finding(e.report)
             applied == apply_billing_result(cases[c], f)
  <1>1. /\ c \in Cases /\ cases[c] \in Case /\ "billing" \in Loops \ {"intake"}
        /\ UNCHANGED <<decided, sweep>>
    BY DEF TypeOK, Loops, Consumers, ReceiveBilling, outcomes
  <1>2. CASE UNCHANGED store
    BY <1>1, <1>2, NoCase DEF Untouched, store
  <1>3. CASE /\ cases[c].delegated /\ attaches(cases[c], "billing")
             /\ Suspend("billing", c, applied, "attached") /\ UNCHANGED verdict
    <2>1. /\ applied.delegated /\ ~Settled(cases[c].status)
          /\ applied.status \in {cases[c].status, "ready_for_decision"}
      BY <1>1, <1>3, AttachedCase DEF attaches, Slots
    <2> QED
      BY <1>1, <1>3, <2>1, AttachOK
  <1>4. CASE /\ cases[c].delegated /\ ~attaches(cases[c], "billing")
             /\ DecideIfReady("billing", c, applied)
    BY <1>1, <1>4, DecideIfReadyOK DEF apply_billing_result
  <1> QED
    BY <1>2, <1>3, <1>4 DEF ReceiveBilling

\* The risk handler, with its immediate escalation.
LEMMA ReceiveRiskOK ==
  ASSUME TypeOK, ClaimInvariant, NEW e \in risk_events, ReceiveRisk(e)
  PROVE  StepOK
  <1> DEFINE c == e.case
             f == risk_finding(e.report)
             applied == apply_risk_result(cases[c], f)
  <1>1. /\ c \in Cases /\ cases[c] \in Case /\ "risk" \in Loops \ {"intake"}
        /\ UNCHANGED <<decided, sweep>> /\ StoreOK /\ CaseInv(c)
    BY TypeSplit DEF TypeOK, Loops, Consumers, ReceiveRisk, outcomes, ClaimInvariant
  <1>2. CASE UNCHANGED store
    BY <1>1, <1>2, NoCase DEF Untouched, store
  <1>3. CASE cases[c].delegated /\ forces_escalation(cases[c], f) /\ EscalateRisk(c, cases[c], f)
    <2> DEFINE k == [cases[c] EXCEPT !.status = "decided", !.risk_result = f]
               v == Emission(Escalate("elevated_risk"), TRUE, "escalated")
    <2>1. ~Settled(cases[c].status) /\ cases[c].status # "none"
      BY <1>1, <1>3 DEF forces_escalation, CaseInv, DelegationFor
    <2>2. Emit("risk", c, k, v)
      BY <1>3, <2>1 DEF EscalateRisk, claim_decision
    <2>3. k.status = "decided" /\ k.delegated /\ Settled(v.status)
      BY <1>1, <1>3 DEF Case, Emission, Settled, is_terminal, TerminalStatuses
    <2> HIDE DEF k, v
    <2>4. /\ cases'[c] = k /\ pc'["risk"][c] = "decide"
          /\ verdict'["risk"][c] = v /\ OthersWait("risk", c)
          /\ \A d \in Cases : d # c => Untouched(d)
      BY <1>1, <2>2, EmitStep DEF Untouched
    <2>5. CaseInv(c)'
      BY <1>1, <1>3, <2>1, <2>3, <2>4, Claims
    <2> QED
      BY <1>1, <2>1, <2>4, <2>5, OneCase DEF Frozen
  <1>4. CASE /\ cases[c].delegated /\ attaches(cases[c], "risk")
             /\ Suspend("risk", c, applied, "attached") /\ UNCHANGED verdict
    <2>1. /\ applied.delegated /\ ~Settled(cases[c].status)
          /\ applied.status \in {cases[c].status, "ready_for_decision"}
      BY <1>1, <1>4, AttachedCase DEF attaches, Slots
    <2> QED
      BY <1>1, <1>4, <2>1, AttachOK
  <1>5. CASE /\ cases[c].delegated /\ ~attaches(cases[c], "risk")
             /\ DecideIfReady("risk", c, applied)
    BY <1>1, <1>5, DecideIfReadyOK DEF apply_risk_result
  <1> QED
    BY <1>2, <1>3, <1>4, <1>5 DEF ReceiveRisk

\* A result handler that resumes after its audit write.
LEMMA ConcludeOK ==
  ASSUME TypeOK, ClaimInvariant, NEW l \in Loops, NEW c \in Cases, Conclude(l, c)
  PROVE  StepOK
  <1>1. CaseInv(c) /\ pc[l][c] = "attached" /\ UNCHANGED <<decided, sweep>>
    BY DEF ClaimInvariant, Conclude, outcomes
  <1>2. CASE cases[c].delegated
    BY <1>1, <1>2, DecideIfReadyOK DEF Conclude
  <1> QED
    BY <1>1, <1>2 DEF CaseInv, DelegationFor

\* The reaper.
LEMMA ReaperOK ==
  ASSUME TypeOK, ClaimInvariant, Sweep \/ \E c \in Cases : Reap(c)
  PROVE  StepOK
  <1>1. CASE Sweep
    <2>1. ASSUME NEW d \in Cases PROVE Untouched(d)
      BY <1>1 DEF Sweep, Untouched, store, outcomes, list_timed_out_cases,
                  ClaimInvariant, CaseInv, DelegationFor
    <2> QED
      BY <2>1, NoCase
  <1>2. ASSUME NEW c \in Cases, Reap(c) PROVE StepOK
    <2>1. /\ CaseInv(c) /\ cases[c].delegated /\ decided' = decided
          /\ StoreOK /\ cases[c] \in Case /\ "reaper" \in Loops
      BY <1>2, TypeSplit
      DEF Reap, outcomes, ClaimInvariant, CaseInv, DelegationFor, TypeOK, Loops
    <2>2. CASE UNCHANGED store
      BY <1>2, <2>1, <2>2, NoCase DEF Reap, store, Untouched
    <2>3. CASE ~Settled(cases[c].status) /\ ApplyDecision("reaper", c, cases[c])
      <3> DEFINE k == [cases[c] EXCEPT !.status = "decided"]
                 v == Emission(decide(cases[c].triage, cases[c].billing_result,
                                      cases[c].risk_result, build_timeout_status(cases[c])),
                               TRUE, "decided")
      <3>1. Emit("reaper", c, k, v)
        BY <2>1, <2>3 DEF ApplyDecision, claim_decision, CaseInv, DelegationFor
      <3>2. k.status = "decided" /\ k.delegated /\ Settled(v.status)
        BY <2>1 DEF Case, Emission, Settled
      <3> HIDE DEF k, v
      <3>3. /\ cases'[c] = k /\ pc'["reaper"][c] = "decide"
            /\ verdict'["reaper"][c] = v /\ OthersWait("reaper", c)
            /\ \A d \in Cases : d # c => Untouched(d)
        BY <1>2, <2>1, <3>1, EmitStep DEF Untouched, Reap
      <3>4. CaseInv(c)'
        BY <2>1, <2>3, <3>2, <3>3, Claims
      <3> QED
        BY <2>3, <3>3, <3>4, OneCase DEF Frozen
    <2> QED
      BY <1>2, <2>2, <2>3 DEF Reap
  <1> QED
    BY <1>1, <1>2

\* The peers only exchange messages.
LEMMA PeersOK ==
  ASSUME ClaimInvariant, Peers PROVE StepOK
  <1>1. UNCHANGED store /\ UNCHANGED decided /\ UNCHANGED sweep
    BY DEF Peers, BillingReplies, RiskReplies, PeerFails, outcomes
  <1> QED
    BY <1>1, NoCase DEF Untouched, store

\* A deadline that passes was armed by a delegation.
LEMMA ClockOK ==
  ASSUME TypeOK, ClaimInvariant, Clock PROVE StepOK
  <1>1. PICK c \in Cases : DeadlinePasses(c)
    BY DEF Clock
  <1>2. CaseInv(c) /\ cases[c] \in Case /\ cases[c].delegated
    BY <1>1 DEF ClaimInvariant, TypeOK, DeadlinePasses, CaseInv, DelegationFor
  <1>3. /\ cases'[c] = [cases[c] EXCEPT !.deadline = "passed"]
        /\ pc' = pc /\ verdict' = verdict /\ decided' = decided /\ sweep' = sweep
        /\ \A d \in Cases : d # c => Untouched(d)
    BY <1>1 DEF DeadlinePasses, outcomes, Untouched, TypeOK
  <1>4. /\ cases'[c].status = cases[c].status /\ cases'[c].delegated
        /\ cases'[c].pending_tasks = cases[c].pending_tasks
        /\ Frozen(c)
    BY <1>2, <1>3 DEF Case, Frozen
  <1>5. \A l \in Loops : Emitting(l, c)' <=> Emitting(l, c)
    BY <1>3 DEF Emitting
  <1>6. DelegationFor(c)'
    BY <1>2, <1>3, <1>4 DEF CaseInv, DelegationFor
  <1>7. ClaimFor(c)'
    BY <1>2, <1>3, <1>4, <1>5 DEF CaseInv, ClaimFor
  <1>8. ExclusiveFor(c)'
    BY <1>2, <1>3, <1>5 DEF CaseInv, ExclusiveFor
  <1>9. DeciderFor(c)'
    BY <1>2, <1>3, <1>4 DEF CaseInv, DeciderFor
  <1> QED
    BY <1>4, <1>3, <1>6, <1>7, <1>8, <1>9, OneCase DEF CaseInv

-----------------------------------------------------------------------------
\* The theorems.

\* Nothing is claimed and nobody is at work before the first ticket arrives.
LEMMA InitClaim == Init => ClaimInvariant
  <1> SUFFICES ASSUME Init, NEW c \in Cases PROVE CaseInv(c)
    BY DEF ClaimInvariant
  <1>0. "intake" \in Loops
    BY DEF Loops, Consumers
  <1>1. /\ cases[c].status = "none" /\ cases[c].delegated = FALSE
        /\ cases[c].deadline = "none" /\ decided[c] = <<>> /\ sweep = {}
        /\ \A l \in Loops : pc[l][c] = "idle" /\ ~Emitting(l, c)
    BY DEF Init, NewCase, Emitting
  <1> QED
    BY <1>0, <1>1 DEF CaseInv, DelegationFor, ClaimFor, ExclusiveFor, DeciderFor

\* Every step of the agent, its peers and the clock.
LEMMA NextOK ==
  ASSUME TypeOK, ClaimInvariant, [Next]_vars PROVE StepOK
  <1>1. CASE UNCHANGED vars
    BY <1>1, NoCase DEF vars, store, outcomes, Untouched
  <1>2. ASSUME NEW l \in Loops, Loop(l) PROVE StepOK
    BY <1>2, IntakeOK, ReceiveResultOK, ReceiveBillingOK, ReceiveRiskOK, ReaperOK,
       ConcludeOK, PublishDecisionOK, PublishDraftOK DEF Loop
  <1> QED
    BY <1>1, <1>2, PeersOK, ClockOK DEF Next

\* ClaimInvariant is inductive: it holds in every reachable state, for any
\* number of cases, faults and redeliveries.
THEOREM ClaimInvariantHolds == Spec => []ClaimInvariant
  <1>1. TypeOK /\ ClaimInvariant /\ [Next]_vars => ClaimInvariant'
    BY NextOK DEF StepOK, ClaimInvariant
  <1> QED
    BY <1>1, InitClaim, TypeCorrect, PTL DEF Spec

\* claim_decision admits one decider per case: however the result handlers,
\* the risk fast path and the reaper interleave, whatever publish fails and
\* whatever event is delivered again, no two of them emit a claimed decision.
THEOREM ClaimExclusive == Spec => []ClaimIsExclusive
  <1>1. ClaimInvariant => ClaimIsExclusive
    BY DEF ClaimInvariant, CaseInv, ClaimIsExclusive
  <1> QED
    BY <1>1, ClaimInvariantHolds, PTL

\* No case is left ready with nobody to decide it, although the reaper skips
\* a case that has no pending task.
THEOREM NoReadyCaseForgotten == Spec => []ReadyCaseHasDecider
  <1>1. ClaimInvariant => ReadyCaseHasDecider
    BY DEF ClaimInvariant, CaseInv, ReadyCaseHasDecider
  <1> QED
    BY <1>1, ClaimInvariantHolds, PTL

\* A settled case is never reopened: not by a redelivered ticket, not by a
\* late result, not by a coroutine that resumes after an audit write.
THEOREM SettledForever == Spec => SettledStaysSettled
  <1>1. TypeOK /\ ClaimInvariant /\ [Next]_vars =>
          [\A c \in Cases : Settled(cases[c].status) => Settled(cases'[c].status)]_vars
    BY NextOK DEF StepOK, Frozen
  <1> QED
    BY <1>1, ClaimInvariantHolds, TypeCorrect, PTL DEF Spec, SettledStaysSettled

\* The evidence behind a settled case is final: findings, pending tasks and
\* failed slots no longer change.
THEOREM EvidenceFrozen == Spec => OpinionsFrozenOnceSettled
  <1>1. TypeOK /\ ClaimInvariant /\ [Next]_vars =>
          [\A c \in Cases :
             Settled(cases[c].status) =>
               /\ cases'[c].billing_result = cases[c].billing_result
               /\ cases'[c].risk_result = cases[c].risk_result
               /\ cases'[c].pending_tasks = cases[c].pending_tasks
               /\ cases'[c].slot_failed = cases[c].slot_failed]_vars
    BY NextOK DEF StepOK, Frozen
  <1> QED
    BY <1>1, ClaimInvariantHolds, TypeCorrect, PTL DEF Spec, OpinionsFrozenOnceSettled
=============================================================================
