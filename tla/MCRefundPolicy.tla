--------------------------- MODULE MCRefundPolicy ---------------------------
(***************************************************************************)
(* Purchases and customers for TLC: both sides of every threshold of the   *)
(* two policies, and every fact and signal present or missing.  A lapsed   *)
(* subscription is left out: no gate looks for it.                         *)
(***************************************************************************)
EXTENDS RefundPolicy

HeavyEdge  == 1600000000
TriedUsage == {0, 1000000000, HeavyEdge, HeavyEdge + 1, HeavyEdge + 2}

Invoices     == {NoInvoice} \cup [age : {29, 30, 31}, paid : BOOLEAN]
Payments     == {NoPayment} \cup
  [present : {TRUE}, captured : BOOLEAN, amount : {0, 1000}, reversed_amount : {0, 500, 1000}]
Entitlements == {NoEntitlement} \cup
  [status : {"active", "revoked"}, delivered : BOOLEAN, access_granted : BOOLEAN,
   access_used : BOOLEAN, feature_enabled : BOOLEAN, account_active : BOOLEAN]
Usages       == {NoUsage, [usage_units |-> HeavyEdge + 2, allotment_units |-> 0]}
                  \cup [usage_units : TriedUsage, allotment_units : {1}]

AllPurchases ==
  [subscription : {NoSubscription, "active", "cancelled"}, invoice : Invoices,
   payment : Payments, entitlement : Entitlements, usage : Usages]

\* Refundable, used up, and too late.
Sold == [subscription |-> "active", invoice |-> [age |-> 29, paid |-> TRUE],
         payment |-> [present |-> TRUE, captured |-> TRUE, amount |-> 1000,
                      reversed_amount |-> 0],
         entitlement |-> NoEntitlement,
         usage |-> [usage_units |-> 0, allotment_units |-> 1]]
FewPurchases ==
  {Sold, [Sold EXCEPT !.usage.usage_units = HeavyEdge + 2], [Sold EXCEPT !.invoice.age = 31]}

Standings   == {NoStanding} \cup
  [status : {"good", "watch", "restricted"}, tenure_days : {29, 30},
   segment : {"standard", "vip"}]
Histories   == {NoHistory} \cup [chargebacks : {0, 1, 2}]
Instruments == {NoInstrument} \cup
  [present : {TRUE}, billing_details_match : BOOLEAN, card_testing_pattern : BOOLEAN]
Behaviors   == {NoBehavior} \cup
  [refund_requests_in_window : {2, 3, 5}, anomaly_score : {69, 70}, device_mismatch : BOOLEAN,
   ip_location_mismatch : BOOLEAN, ip_country_mismatch : {FALSE},
   typical_refund_amount : {NoAmount, 10}]

AllCustomers ==
  {NoSignals} \cup
  [found : {TRUE}, account_standing : Standings, refund_history : Histories,
   payment_instrument : Instruments, behavioral : Behaviors, on_blocklist : BOOLEAN]

\* Trusted, elevated by velocity, high by chargebacks.
Clean == [found |-> TRUE,
          account_standing |-> [status |-> "good", tenure_days |-> 30, segment |-> "standard"],
          refund_history |-> [chargebacks |-> 0],
          payment_instrument |-> [present |-> TRUE, billing_details_match |-> TRUE,
                                  card_testing_pattern |-> FALSE],
          behavioral |-> [NoBehavior EXCEPT !.refund_requests_in_window = 2],
          on_blocklist |-> FALSE]
FewCustomers ==
  {Clean, [Clean EXCEPT !.behavioral.refund_requests_in_window = 3],
   [Clean EXCEPT !.refund_history.chargebacks = 2]}

TriedAmounts == {NoAmount, 29, 30}

-----------------------------------------------------------------------------
\* What the repository says of the policy and the agents do not do.

\* "Heavy-usage denials (RP-004) are not a flat no": partial credit is what
\* the resolution agent makes of a denial under RP-004.  Billing reports the
\* usage with every denial, and the resolution agent looks only at the usage:
\* a purchase out of its window, never paid for or already refunded gets the
\* credit too, provided that it was used heavily.
CreditIsForHeavyUsage ==
  \A o \in Order : decision[o].outcome = "offer_partial_credit" =>
    "RP-004" \in analyze(facts).policy_references
=============================================================================
