------------------------ MODULE MCCustomerResolution ------------------------
(***************************************************************************)
(* Instances of CustomerResolution for TLC, and what the documentation     *)
(* says of the agent.                                                      *)
(***************************************************************************)
EXTENDS CustomerResolution

\* classify(): a clear refund request, an ambiguous ticket, another question.
RefundTriage == [needs_refund_review |-> TRUE, confidence |-> 100]
AllTriages ==
  {RefundTriage,
   [needs_refund_review |-> TRUE, confidence |-> 50],
   [needs_refund_review |-> FALSE, confidence |-> 90]}
RefundTriages == {RefundTriage}
TwoTriages == {RefundTriage, [needs_refund_review |-> FALSE, confidence |-> 90]}

Billing(rec, usage, review, conf) ==
  [recommendation |-> rec, usage_level |-> usage, requires_human_review |-> review,
   confidence |-> conf]
Risk(rec, review, conf) ==
  [recommendation |-> rec, requires_human_review |-> review, confidence |-> conf]

Approval == Billing("approve_full_refund", "light", FALSE, 90)
Denial   == Billing("deny_refund", "light", FALSE, 90)

ManyBillingReports ==
  {Approval, Denial,
   Billing("approve_full_refund", "light", FALSE, 60),
   Billing("deny_refund", "heavy", FALSE, 90),
   Billing("request_more_information", "unknown", TRUE, 20)}
ManyRiskReports ==
  {Risk("low", FALSE, 90), Risk("low", FALSE, 55), Risk("elevated", FALSE, 90)}

OneBillingReport == {Denial}
OneRiskReport == {Risk("elevated", FALSE, 90)}

\* Reports that between them lead to every reason of an escalation: an uncertain
\* alarm escalates at once, or for its low confidence after a denial.
FaultyBillingReports == {Denial, Billing("request_more_information", "unknown", TRUE, 20)}
FaultyRiskReports == {Risk("low", FALSE, 90), Risk("elevated", FALSE, 55)}

-----------------------------------------------------------------------------
\* What the repository says of the agent and the code does not do.

\* _apply_decision's contract: "emit exactly one decision per case (FR-007)".
\* The delegation-failure branch of intake_handler emits without a claim, so
\* a peer that was already asked can have the case decided a second time.
DecideOnce == \A c \in Cases : Len(decided[c]) <= 1

\* The other half of "exactly one": a case that waits for its peers gets a
\* decision.  The claim is taken before the event is published and is never
\* given back, so a publish that raises leaves a DECIDED case undecided.
WaitingCaseIsDecided ==
  \A c \in Cases : cases[c].status = "waiting_for_peer_reviews" ~> decided[c] # <<>>

\* "No case remains open indefinitely (SC-004)."  The deadline is set only
\* after the classification event went out, so a publish that raises there
\* leaves a CLASSIFIED case that no loop looks at again.
NoCaseStaysOpen ==
  \A c \in Cases : cases[c].status # "none" ~> Settled(cases[c].status)
=============================================================================
