-------------------------- MODULE MCDecisionEngine --------------------------
(***************************************************************************)
(* decide() over bounded inputs.  A behavior starts from any input and     *)
(* then degrades it: an opinion is lost, a peer asks for a human, a        *)
(* confidence drops, the risk rises.  The verdict is recomputed each time, *)
(* so that a step compares the verdicts of two neighbouring inputs.        *)
(***************************************************************************)
EXTENDS DecisionEngine

CONSTANT Confidences    \* the confidences tried, around CONFIDENCE_THRESHOLD

\* The contracts refuse a confidence outside [0.0, 1.0].
ASSUME ConfidencesAssumption == Confidences \subseteq Score

VARIABLES triage, billing, risk, timeout, verdict

vars == <<triage, billing, risk, timeout, verdict>>

Init ==
  /\ triage \in [needs_refund_review : BOOLEAN, confidence : Confidences]
  /\ \/ billing = NoBilling
     \/ \E r \in [recommendation : BillingRecommendation, usage_level : UsageLevel,
                  requires_human_review : BOOLEAN, confidence : Confidences] :
          billing = billing_finding(r)
  /\ \/ risk = NoRisk
     \/ \E r \in [recommendation : RiskRecommendation,
                  requires_human_review : BOOLEAN, confidence : Confidences] :
          risk = risk_finding(r)
  /\ timeout \in TimeoutStatus
  /\ verdict = decide(triage, billing, risk, timeout)

LoseBilling ==
  /\ billing' = NoBilling
  /\ UNCHANGED <<triage, risk, timeout>>

LoseRisk ==
  /\ risk' = NoRisk
  /\ UNCHANGED <<triage, billing, timeout>>

MissDeadline ==
  /\ timeout' = [any_missing |-> TRUE, deadline_exceeded |-> TRUE]
  /\ UNCHANGED <<triage, billing, risk>>

AskForReview ==
  /\ billing # NoBilling
  /\ billing' = [billing EXCEPT !.requires_human_review = TRUE]
  /\ UNCHANGED <<triage, risk, timeout>>

DoubtBilling ==
  /\ billing # NoBilling
  /\ \E c \in Confidences :
       c < billing.confidence /\ billing' = [billing EXCEPT !.confidence = c]
  /\ UNCHANGED <<triage, risk, timeout>>

DoubtRisk ==
  /\ risk # NoRisk
  /\ \E c \in Confidences :
       /\ uncertainty_from_confidence(c) > risk.score
       /\ risk' = [risk EXCEPT !.score = uncertainty_from_confidence(c)]
  /\ UNCHANGED <<triage, billing, timeout>>

RaiseRisk ==
  /\ risk.level \in {"low", "elevated"}
  /\ risk' = [risk EXCEPT !.level = "high"]
  /\ UNCHANGED <<triage, billing, timeout>>

DegradeQuality ==
  LoseBilling \/ LoseRisk \/ MissDeadline \/ AskForReview \/ DoubtBilling \/ DoubtRisk

Next ==
  /\ DegradeQuality \/ RaiseRisk
  /\ verdict' = decide(triage', billing', risk', timeout')

Spec == Init /\ [][Next]_vars

-----------------------------------------------------------------------------

\* Both opinions are in and neither asks for a person; no certainty is low.
Heard ==
  /\ ~timeout.any_missing /\ billing # NoBilling /\ risk # NoRisk
  /\ ~billing.requires_human_review /\ ~risk.requires_human_review
Sure ==
  /\ triage.confidence >= 60
  /\ billing.confidence \in {NoScore} \cup (60 .. 100)
  /\ risk.score \in {NoScore} \cup (0 .. 40)

\* The table of specs/003 contracts/decision-policy.md, section C, which 006 calls
\* authoritative: an elevated or high risk escalates (row 4), then billing's
\* ineligible denies (row 5) and its eligible approves (row 6).  A missing
\* opinion has no row there and 006 escalates it.
PolicyOutcome ==
  CASE ~triage.needs_refund_review -> "direct_response"
    [] /\ triage.needs_refund_review /\ Heard
       /\ risk.level = "low" /\ billing.eligibility = "ineligible" -> "deny_refund"
    [] /\ triage.needs_refund_review /\ Heard
       /\ risk.level = "low" /\ billing.eligibility = "eligible" -> "approve_refund"
    [] OTHER -> "escalate_human"

\* Where the combined rule of specs/006 contracts/decision-rule.md says otherwise,
\* the outcome it gives; {} where it does not.  On rows 5 and 8 the two documents
\* contradict each other, and FR-009 of 003 ("deny when billing indicates
\* ineligibility; escalate to human review on elevated risk") sides with 003.
Overruling ==
  IF ~(triage.needs_refund_review /\ Heard) THEN {}
  ELSE IF ~Sure THEN {"escalate_human"}                                    \* row 3
  ELSE CASE billing.eligibility = "ineligible" /\ risk.level = "low"
              -> {"escalate_human"}                                        \* row 8
         [] billing.eligibility = "ineligible" /\ risk.level # "low"
              -> {"deny_refund"}                                           \* row 5
         [] billing.eligibility = "partial" /\ risk.level # "high"
              -> {"offer_partial_credit"}                                  \* row 6
         [] billing.eligibility = "indeterminate"
              -> {"request_more_information"}                              \* row 7
         [] OTHER -> {}

\* decide() gives the outcome of 003's decision policy wherever 006's combined
\* rule does not overrule it, and 006's outcome where it does: the two documents
\* disagree, notably on ineligible billing, and the code is on the side of 006.
\* An escalation has a reason: CustomerResponseDecisionPayload refuses to be built
\* otherwise, which would abort the handler after it claimed the case.
FollowsPolicyUnlessOverruled ==
  /\ verdict.outcome \in IF Overruling = {} THEN {PolicyOutcome} ELSE Overruling
  /\ verdict.outcome = "escalate_human" => verdict.escalation_reason # "none"

\* Worse information never relaxes a verdict.  Losing an opinion, missing the
\* deadline, a request for review or a lower confidence either leaves the
\* outcome of decide() as it was or escalates it, and a higher risk never
\* turns anything into an approval.
DegradationNeverRelaxes ==
  [][ /\ DegradeQuality => verdict'.outcome \in {verdict.outcome, "escalate_human"}
      /\ verdict'.outcome = "approve_refund" => verdict.outcome = "approve_refund" ]_vars
=============================================================================
