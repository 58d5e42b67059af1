---------------------------- MODULE BillingRules ----------------------------
(***************************************************************************)
(* The Billing and Entitlement Agent's analysis: rules_engine.evaluate()   *)
(* on the billing facts of a purchase, and the report built from it.       *)
(*                                                                         *)
(* The gates are tried in order and the first that applies decides.        *)
(* Amounts are whole cents.  A usage ratio is a float in the code; here it *)
(* is counted in units of 5 * 10^-10, so that the tolerance of 10^-9 that  *)
(* evaluate() allows at the threshold is two units wide.                   *)
(***************************************************************************)
EXTENDS PeerFindings

REFUND_WINDOW_DAYS    == 30
USAGE_HEAVY_THRESHOLD == 1600000000    \* 0.8
USAGE_MODERATE        == 1000000000    \* 0.5
USAGE_TOLERANCE       == 2             \* 1e-9

\* Python's None for each of the optional facts.
NoSubscription == "none"
NoInvoice      == [age |-> -1, paid |-> FALSE]
NoPayment      == [present |-> FALSE, captured |-> FALSE, amount |-> 0, reversed_amount |-> 0]
NoEntitlement  == [status |-> "none", delivered |-> FALSE, access_granted |-> FALSE,
                   access_used |-> FALSE, feature_enabled |-> FALSE, account_active |-> FALSE]
NoUsage        == [usage_units |-> 0, allotment_units |-> -1]

\* The facts of a purchase.  Usage is a count and an invoice is not issued in
\* the future.  The models bound neither amount: a payment of zero may carry a
\* reversal.
BillingFacts ==
  [subscription : {NoSubscription, "active", "cancelled", "lapsed"},
   invoice : {NoInvoice} \cup [age : Nat, paid : BOOLEAN],
   payment : {NoPayment} \cup
     [present : {TRUE}, captured : BOOLEAN, amount : Int, reversed_amount : Int],
   entitlement : {NoEntitlement} \cup
     [status : {"active", "revoked"}, delivered : BOOLEAN, access_granted : BOOLEAN,
      access_used : BOOLEAN, feature_enabled : BOOLEAN, account_active : BOOLEAN],
   usage : {NoUsage} \cup [usage_units : Nat, allotment_units : Nat]]

\* load_facts() found no record of the purchase.
NoFacts == [subscription |-> NoSubscription, invoice |-> NoInvoice, payment |-> NoPayment,
            entitlement |-> NoEntitlement, usage |-> NoUsage]

-----------------------------------------------------------------------------

usage_ratio(u) == IF u.allotment_units > 0 THEN u.usage_units \div u.allotment_units ELSE 0

usage_level(ratio) ==
  IF ratio > USAGE_HEAVY_THRESHOLD THEN "heavy"
  ELSE IF ratio >= USAGE_MODERATE THEN "moderate" ELSE "light"

borderline_usage(u) ==
  /\ u # NoUsage
  /\ usage_ratio(u) \in USAGE_HEAVY_THRESHOLD - USAGE_TOLERANCE + 1
                          .. USAGE_HEAVY_THRESHOLD + USAGE_TOLERANCE - 1

\* The three ways in which the entitlement signals contradict each other.
check_entitlement(f) ==
  LET e == f.entitlement IN
  \/ ~e.access_granted /\ e.access_used
  \/ e.account_active /\ f.subscription = "cancelled"
  \/ e.status = "revoked" /\ e.feature_enabled

\* Part of the payment was already given back on an invoice marked paid.
partially_reversed(f) ==
  /\ f.invoice.paid
  /\ f.payment.reversed_amount > 0
  /\ f.payment.reversed_amount < f.payment.amount

contradicts(f) ==
  \/ partially_reversed(f)
  \/ f.entitlement # NoEntitlement /\ check_entitlement(f)

\* Mutant: a reversed payment may be refunded again.
not_refundable_unless_reversed(f) == ~f.invoice.paid \/ ~f.payment.captured

\* RP-002: there is no captured payment left to refund.
not_refundable(f) ==
  \/ ~f.invoice.paid
  \/ ~f.payment.captured
  \/ f.payment.reversed_amount >= f.payment.amount /\ f.payment.amount > 0

\* A recommendation that pays nothing.
Withhold(recommendation, confidence, review, usage, refs) ==
  [recommendation |-> recommendation, confidence |-> confidence,
   requires_human_review |-> review, eligible_refund_amount |-> 0,
   usage_level |-> usage, policy_references |-> refs]

missing_data_recommendation == Withhold("request_more_information", 20, TRUE, "unknown", {})

approval_references(f) ==
  {"RP-001", "RP-002"}
    \cup (IF f.entitlement # NoEntitlement THEN {"RP-003"} ELSE {})
    \cup (IF f.usage # NoUsage THEN {"RP-004"} ELSE {})
    \cup (IF f.subscription # NoSubscription THEN {"RP-005"} ELSE {})

\* Mutant: a request on the last day of the window is not trusted.
approve_doubting(f) ==
  [recommendation |-> "approve_full_refund",
   confidence |-> IF f.invoice.age = REFUND_WINDOW_DAYS \/ borderline_usage(f.usage)
                    THEN 50 ELSE 90,
   requires_human_review |-> FALSE,
   eligible_refund_amount |-> f.payment.amount - f.payment.reversed_amount,
   usage_level |-> usage_level(usage_ratio(f.usage)),
   policy_references |-> approval_references(f)]

\* A verdict on the edge of a rule is given with less confidence.
approve(f) ==
  [recommendation |-> "approve_full_refund",
   confidence |-> IF f.invoice.age = REFUND_WINDOW_DAYS \/ borderline_usage(f.usage)
                    THEN 60 ELSE 90,
   requires_human_review |-> FALSE,
   eligible_refund_amount |-> f.payment.amount - f.payment.reversed_amount,
   usage_level |-> usage_level(usage_ratio(f.usage)),
   policy_references |-> approval_references(f)]

evaluate(f) ==
  LET usage == usage_level(usage_ratio(f.usage)) IN
  IF f.invoice = NoInvoice \/ f.payment = NoPayment
    THEN missing_data_recommendation
  ELSE IF contradicts(f)
    THEN Withhold("manual_review", 30, TRUE, usage, {"contradiction-gate"})
  ELSE IF f.invoice.age > REFUND_WINDOW_DAYS
    THEN Withhold("deny_refund", 90, FALSE, usage, {"RP-001"})
  ELSE IF not_refundable(f)
    THEN Withhold("deny_refund", 90, FALSE, usage, {"RP-002"})
  ELSE IF usage = "heavy"
    THEN Withhold("deny_refund", IF borderline_usage(f.usage) THEN 60 ELSE 90, FALSE, usage,
                  {"RP-004"} \cup (IF f.subscription = "active" THEN {"RP-005"} ELSE {}))
  ELSE IF ~f.entitlement.delivered
    THEN approve(f)
  ELSE Withhold("manual_review", 20, TRUE, usage, {"RP-003"})

analyze(f) == IF f = NoFacts THEN missing_data_recommendation ELSE evaluate(f)

\* What of a recommendation the result event carries to the resolution agent.
billing_report(rec) ==
  [recommendation |-> rec.recommendation, usage_level |-> rec.usage_level,
   requires_human_review |-> rec.requires_human_review, confidence |-> rec.confidence]
=============================================================================
