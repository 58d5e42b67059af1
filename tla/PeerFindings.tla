---------------------------- MODULE PeerFindings ----------------------------
(***************************************************************************)
(* The opinions the Customer Resolution Agent collects from its two peers: *)
(* the payload each peer publishes on its result topic, the finding the    *)
(* agent attaches to the case, and the mapping from one to the other.      *)
(*                                                                         *)
(* Confidences and scores are floats in [0.0, 1.0] in the code and whole   *)
(* hundredths here; every literal the code compares them with (0.5, 0.6,   *)
(* 0.8) is a whole number of hundredths.                                   *)
(***************************************************************************)
EXTENDS Integers

Score == 0 .. 100

\* Python's None, for a confidence or a score that was not reported.
NoScore == -1

Eligibility == {"eligible", "partial", "ineligible", "indeterminate"}
RiskLevel   == {"low", "elevated", "high"}

\* Billing's five recommendations, and "other" for any string outside them.
BillingRecommendation ==
  {"approve_full_refund", "approve_partial_refund", "deny_refund",
   "request_more_information", "manual_review", "other"}
UsageLevel == {"light", "moderate", "heavy", "unknown"}

\* The risk agent's recommendation is its risk level; "other" is any string
\* the resolution agent does not recognise.
RiskRecommendation == RiskLevel \cup {"other"}

BillingReport == [recommendation : BillingRecommendation, usage_level : UsageLevel,
                  requires_human_review : BOOLEAN, confidence : Score]
RiskReport    == [recommendation : RiskRecommendation,
                  requires_human_review : BOOLEAN, confidence : Score]

BillingFinding == [eligibility : Eligibility, requires_human_review : BOOLEAN,
                   confidence : Score \cup {NoScore}]
RiskFinding    == [level : RiskLevel, requires_human_review : BOOLEAN,
                   score : Score \cup {NoScore}]

\* case.billing_result and case.risk_result before a finding is attached.
NoBilling == [eligibility |-> "none", requires_human_review |-> FALSE, confidence |-> NoScore]
NoRisk    == [level |-> "none", requires_human_review |-> FALSE, score |-> NoScore]

-----------------------------------------------------------------------------

risk_level_from_score(score) ==
  CASE score >= 80 -> "high"
    [] score >= 50 /\ score < 80 -> "elevated"
    [] OTHER -> "low"

\* Mutant: the difference is taken the wrong way round.
uncertainty_negated(confidence) == confidence - 100

\* A confidence is a certainty; RiskFinding.score is an uncertainty.
uncertainty_from_confidence(confidence) == 100 - confidence

\* A heavy-usage denial is a candidate for partial credit, not a flat "no".
billing_eligibility(r) ==
  CASE r.recommendation = "approve_full_refund" -> "eligible"
    [] r.recommendation = "approve_partial_refund" -> "partial"
    [] r.recommendation = "deny_refund" /\ r.usage_level = "heavy" -> "partial"
    [] r.recommendation = "deny_refund" /\ r.usage_level # "heavy" -> "ineligible"
    [] OTHER -> "indeterminate"

billing_finding(r) ==
  [eligibility |-> billing_eligibility(r),
   requires_human_review |-> r.requires_human_review,
   confidence |-> r.confidence]

\* An unrecognised recommendation is placed by the report's confidence.
risk_level(r) ==
  IF r.recommendation \in RiskLevel
    THEN r.recommendation
    ELSE risk_level_from_score(r.confidence)

risk_finding(r) ==
  [level |-> risk_level(r),
   requires_human_review |-> r.requires_human_review,
   score |-> uncertainty_from_confidence(r.confidence)]
=============================================================================
