--------------------------- MODULE DecisionEngine ---------------------------
(***************************************************************************)
(* decision_engine.py: the pure function decide() that turns a triage, two *)
(* findings and a timeout status into an outcome.  The rows are tried in   *)
(* order and the first that matches wins.                                  *)
(***************************************************************************)
EXTENDS PeerFindings

CONFIDENCE_THRESHOLD == 60

Triage == [needs_refund_review : BOOLEAN, confidence : Score]
TimeoutStatus == [any_missing : BOOLEAN, deadline_exceeded : BOOLEAN]

Outcome == {"direct_response", "approve_refund", "deny_refund",
            "offer_partial_credit", "request_more_information", "escalate_human"}

\* escalation_reason; "none" is Python's None.
Reason == {"none", "analysis_timeout", "missing_analysis", "peer_requested_review",
           "low_confidence", "conflicting_analyses", "peer_failure", "elevated_risk"}

Verdict == [outcome : Outcome, escalation_reason : Reason]

Resolve(outcome) == [outcome |-> outcome, escalation_reason |-> "none"]
Escalate(reason) == [outcome |-> "escalate_human", escalation_reason |-> reason]

-----------------------------------------------------------------------------

\* Mutant: the risk score, an uncertainty, is taken for a certainty.
compute_confidence_inverted(triage, billing, risk) ==
  LET scores == {triage.confidence}
                  \cup ({billing.confidence} \ {NoScore})
                  \cup ({risk.score} \ {NoScore})
  IN  CHOOSE least \in scores : \A s \in scores : least <= s

\* Mutant: the risk finding's certainty is left out.
compute_confidence_without_risk(triage, billing, risk) ==
  LET scores == {triage.confidence} \cup ({billing.confidence} \ {NoScore})
  IN  CHOOSE least \in scores : \A s \in scores : least <= s

\* The least of the certainties on hand; the triage always has one.
compute_confidence(triage, billing, risk) ==
  LET scores == {triage.confidence}
                  \cup ({billing.confidence} \ {NoScore})
                  \cup {100 - s : s \in {risk.score} \ {NoScore}}
  IN  CHOOSE least \in scores : \A s \in scores : least <= s

\* Rows 4 to 8: both opinions are in, neither asks for a human, and the
\* combined confidence is sufficient.
combine(eligibility, level) ==
  CASE eligibility = "eligible" /\ level = "low" -> Resolve("approve_refund")
    [] eligibility = "ineligible" /\ level \in {"elevated", "high"} -> Resolve("deny_refund")
    [] eligibility = "partial" /\ level \in {"low", "elevated"} -> Resolve("offer_partial_credit")
    [] eligibility = "indeterminate" -> Resolve("request_more_information")
    [] OTHER -> Escalate("conflicting_analyses")

\* Mutant: a confidence equal to the threshold counts as too low.
decide_threshold_inclusive(triage, billing, risk, timeout) ==
  IF ~triage.needs_refund_review
    THEN Resolve("direct_response")
  ELSE IF timeout.any_missing
    THEN Escalate(IF timeout.deadline_exceeded THEN "analysis_timeout" ELSE "missing_analysis")
  ELSE IF billing = NoBilling \/ risk = NoRisk
    THEN Escalate("missing_analysis")
  ELSE IF billing.requires_human_review \/ risk.requires_human_review
    THEN Escalate("peer_requested_review")
  ELSE IF compute_confidence(triage, billing, risk) <= CONFIDENCE_THRESHOLD
    THEN Escalate("low_confidence")
  ELSE combine(billing.eligibility, risk.level)

\* Row 2's test for failed findings is left out: BillingFinding.failed and
\* RiskFinding.failed return False for every finding.
decide(triage, billing, risk, timeout) ==
  IF ~triage.needs_refund_review
    THEN Resolve("direct_response")
  ELSE IF timeout.any_missing
    THEN Escalate(IF timeout.deadline_exceeded THEN "analysis_timeout" ELSE "missing_analysis")
  ELSE IF billing = NoBilling \/ risk = NoRisk
    THEN Escalate("missing_analysis")
  ELSE IF billing.requires_human_review \/ risk.requires_human_review
    THEN Escalate("peer_requested_review")
  ELSE IF compute_confidence(triage, billing, risk) < CONFIDENCE_THRESHOLD
    THEN Escalate("low_confidence")
  ELSE combine(billing.eligibility, risk.level)

\* The outcomes a person must confirm before they take effect.
requires_human_approval(outcome) == outcome \in {"escalate_human", "approve_refund"}
=============================================================================
