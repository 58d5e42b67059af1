---------------------------- MODULE RefundPolicy ----------------------------
(***************************************************************************)
(* The refund policy as the three agents carry it out together: billing    *)
(* judges the purchase, risk judges the customer, each publishes a report, *)
(* and the resolution agent decides on what it makes of the two reports.   *)
(* Each agent knows only its own part; what their rules add up to is       *)
(* written nowhere in the code.                                            *)
(*                                                                         *)
(* A state is one purchase, one customer and the decisions their ticket    *)
(* would get, by which report is read first.  A step is something that     *)
(* happens to the purchase or the customer and that no policy means to     *)
(* reward: time passes, the product is used, money flows back, a fraud     *)
(* signal appears.                                                         *)
(***************************************************************************)
EXTENDS BillingRules, RiskScoring, DecisionEngine, FiniteSets

CONSTANTS Purchases, SamplePurchases,   \* billing facts, and a few of them
          Customers, SampleCustomers,   \* risk signals, and a few of them
          UsageUnits,                   \* the usage of a purchase
          Amounts, UsualAmount          \* the amounts asked for

\* The constants are values of the agents' models, an amount may be missing.
ASSUME PolicyAssumption ==
  /\ Purchases \subseteq BillingFacts /\ SamplePurchases \subseteq BillingFacts
  /\ Customers \subseteq RiskSignals /\ SampleCustomers \subseteq RiskSignals
  /\ UsageUnits \subseteq Nat
  /\ Amounts \subseteq Nat \cup {NoAmount} /\ UsualAmount \in Nat \cup {NoAmount}

VARIABLES facts, signals, requested, decision

vars == <<facts, signals, requested, decision>>

Order == {"billing_first", "risk_first"}

\* A ticket classified as a refund request with certainty, both reports in time.
RefundRequest == [needs_refund_review |-> TRUE, confidence |-> 100]
InTime        == [any_missing |-> FALSE, deadline_exceeded |-> FALSE]

\* Mutant: any finding of billing but eligible holds the escalation back.
decision_on_unless_eligible(f, s, amount) ==
  LET billing  == billing_finding(billing_report(analyze(f)))
      risk     == risk_finding(risk_report(assess(s, amount)))
      alarming == risk.level \in {"elevated", "high"} \/ risk.requires_human_review
  IN  [o \in Order |->
         IF alarming /\ ~(o = "billing_first" /\ billing.eligibility # "eligible")
           THEN Escalate("elevated_risk")
           ELSE decide(RefundRequest, billing, risk, InTime)]

\* An alarming risk report escalates at once, unless billing's was read before
\* it and denies.
decision_on(f, s, amount) ==
  LET billing  == billing_finding(billing_report(analyze(f)))
      risk     == risk_finding(risk_report(assess(s, amount)))
      alarming == risk.level \in {"elevated", "high"} \/ risk.requires_human_review
  IN  [o \in Order |->
         IF alarming /\ ~(o = "billing_first" /\ billing.eligibility = "ineligible")
           THEN Escalate("elevated_risk")
           ELSE decide(RefundRequest, billing, risk, InTime)]

\* Every purchase with a few customers, and every customer with a few
\* purchases: the agents see no more of the two together than their reports.
Init ==
  /\ \/ /\ facts \in Purchases /\ signals \in SampleCustomers
        /\ requested = UsualAmount
     \/ /\ facts \in SamplePurchases /\ signals \in Customers
        /\ requested \in Amounts
  /\ decision = decision_on(facts, signals, requested)

\* The purchase becomes g.
Purchase(g) ==
  /\ g \in Purchases /\ signals \in SampleCustomers
  /\ facts' = g
  /\ UNCHANGED <<signals, requested>>

\* The customer becomes t.
Customer(t) ==
  /\ t \in Customers /\ facts \in SamplePurchases
  /\ signals' = t
  /\ UNCHANGED <<facts, requested>>

DayPasses == facts.invoice # NoInvoice /\ Purchase([facts EXCEPT !.invoice.age = @ + 1])

UsedMore ==
  \E u \in UsageUnits :
    u > facts.usage.usage_units /\ Purchase([facts EXCEPT !.usage.usage_units = u])

Reversed ==
  \E r \in {facts.payment.amount \div 2, facts.payment.amount} :
    /\ r > facts.payment.reversed_amount
    /\ Purchase([facts EXCEPT !.payment.reversed_amount = r])

Delivered == Purchase([facts EXCEPT !.entitlement.delivered = TRUE])

Chargeback ==
  /\ signals.refund_history # NoHistory
  /\ Customer([signals EXCEPT !.refund_history.chargebacks = @ + 1])

AskedAgain ==
  \E n \in {VELOCITY_ELEVATED, VELOCITY_HIGH} :
    /\ n > signals.behavioral.refund_requests_in_window
    /\ Customer([signals EXCEPT !.behavioral.refund_requests_in_window = n])

DeviceChanged == Customer([signals EXCEPT !.behavioral.device_mismatch = TRUE])
PlaceChanged  == Customer([signals EXCEPT !.behavioral.ip_location_mismatch = TRUE])
ActedOddly    == Customer([signals EXCEPT !.behavioral.anomaly_score = ANOMALY_ELEVATED])
TestedCards   == Customer([signals EXCEPT !.payment_instrument.card_testing_pattern = TRUE])
DetailsDiffer == Customer([signals EXCEPT !.payment_instrument.billing_details_match = FALSE])
Blocklisted   == Customer([signals EXCEPT !.on_blocklist = TRUE])

Watched ==
  /\ signals.account_standing.status = "good"
  /\ Customer([signals EXCEPT !.account_standing.status = "watch"])

Restricted ==
  /\ signals.account_standing.status \in {"good", "watch"}
  /\ Customer([signals EXCEPT !.account_standing.status = "restricted"])

AsksForMore ==
  /\ facts \in SamplePurchases
  /\ \E a \in Amounts : a > requested /\ requested' = a
  /\ UNCHANGED <<facts, signals>>

PurchaseStep == DayPasses \/ UsedMore \/ Reversed \/ Delivered
CustomerStep ==
  \/ Chargeback \/ AskedAgain \/ DeviceChanged \/ PlaceChanged \/ ActedOddly \/ TestedCards
  \/ DetailsDiffer \/ Watched \/ Restricted \/ Blocklisted \/ AsksForMore

Next ==
  /\ PurchaseStep \/ CustomerStep
  /\ decision' = decision_on(facts', signals', requested')

Spec == Init /\ [][Next]_vars

-----------------------------------------------------------------------------

\* The purchase passes the gates: asked for in time, paid for, not used up, not
\* delivered, and none of the entitlement's signals contradicts another.
InOrder ==
  /\ facts.invoice # NoInvoice /\ facts.payment # NoPayment
  /\ facts.invoice.age <= 30 /\ facts.invoice.paid /\ facts.payment.captured
  /\ facts.usage.allotment_units > 0
       => ~(facts.usage.usage_units \div facts.usage.allotment_units > USAGE_HEAVY_THRESHOLD)
  /\ ~facts.entitlement.delivered
  /\ facts.entitlement.access_used => facts.entitlement.access_granted
  /\ facts.entitlement.account_active => facts.subscription # "cancelled"
  /\ facts.entitlement.feature_enabled => facts.entitlement.status # "revoked"

\* Two more conditions of contracts/refund-policy.md of the billing agent: RP-002
\* wants reversed_amount == 0, and the contradiction gate sends an active
\* entitlement on a cancelled subscription to a person.
NothingGivenBack == ~(facts.payment.reversed_amount > 0)
EntitlementEnded == facts.subscription = "cancelled" => facts.entitlement.status # "active"

\* The purchase can be refunded, by the contract.
Refundable == InOrder /\ NothingGivenBack /\ EntitlementEnded

\* The contract does not allow it and the code refunds it: the reversal of a
\* payment that was not above zero passes both payment gates, and of an
\* entitlement on a cancelled subscription the code reads account_active, not
\* the status.
RefundedAnyway ==
  /\ InOrder /\ ~(NothingGivenBack /\ EntitlementEnded)
  /\ NothingGivenBack \/ ~(facts.payment.amount > 0)

\* The customer is trusted: nothing serious is known, and of the weaker
\* signals at most one.  These are the weights of the code.  They are stricter
\* than contracts/fraud-policy.md, where velocity, a mismatch or an anomaly alone
\* stay below 0.5 and device, place and amount do not count, and than the text of
\* FP-005 in policy.py, by which a watched account is not charged for being new.
Serious ==
  \/ signals.on_blocklist
  \/ signals.refund_history.chargebacks > 0
  \/ signals.behavioral.refund_requests_in_window > 2
  \/ signals.behavioral.anomaly_score >= 70
  \/ signals.payment_instrument.card_testing_pattern
  \/ ~signals.payment_instrument.billing_details_match
  \/ signals.account_standing.status = "restricted"

Weaker ==
  {w \in {"watched", "new", "device", "place", "amount"} :
    CASE w = "watched" -> signals.account_standing.status = "watch"
      [] w = "new"     -> is_new(signals.account_standing)
      [] w = "device"  -> signals.behavioral.device_mismatch
      [] w = "place"   -> signals.behavioral.ip_location_mismatch
                            \/ signals.behavioral.ip_country_mismatch
      [] w = "amount"  -> FP_009(signals, requested) > 0}

Trusted ==
  /\ signals.found
  /\ signals.account_standing.segment \notin {"vip", "enterprise"}
  /\ ~Serious
  /\ Cardinality(Weaker) <= 1

\* The agents together decide for a refund exactly when the customer is trusted
\* and the purchase is refundable by the contract, or one of the two kinds that
\* the code refunds although the contract does not: whichever report is read
\* first, the gates of evaluate(), the additive score of assess_signals(), the
\* mapping of reports to findings and the rows of decide() add up to this.
ApprovalIsEarned ==
  \A o \in Order :
    decision[o].outcome = "approve_refund" <=> (Refundable \/ RefundedAnyway) /\ Trusted

\* A customer with a chargeback is offered neither refund nor credit: one
\* chargeback alone lifts the score to a level that decide() or the immediate
\* escalation keeps from both.
ChargebackIsNeverPaid ==
  signals.refund_history.chargebacks > 0 =>
    \A o \in Order : decision[o].outcome \notin {"approve_refund", "offer_partial_credit"}

\* What the specifications of the two peers want a person to look at: missing
\* records and contradictory ones (004, Edge Cases and refund-policy.md; 005,
\* FR-010 and fraud-policy.md), and accounts reserved for people.
Doubt == {"no record", "part reversed", "all reversed", "active account", "active entitlement",
          "access", "feature", "no customer", "no signals", "contradiction", "reserved"}

Doubts ==
  {d \in Doubt :
    CASE d = "no record" -> facts.invoice = NoInvoice \/ facts.payment = NoPayment
      [] d = "part reversed" ->
           /\ facts.invoice.paid /\ facts.payment.reversed_amount > 0
           /\ facts.payment.reversed_amount < facts.payment.amount
      [] d = "all reversed" ->
           /\ facts.invoice.paid /\ facts.payment.reversed_amount > 0
           /\ facts.payment.reversed_amount >= facts.payment.amount
      [] d = "active account" ->
           facts.entitlement.account_active /\ facts.subscription = "cancelled"
      [] d = "active entitlement" -> ~EntitlementEnded
      [] d = "access" -> facts.entitlement.access_used /\ ~facts.entitlement.access_granted
      [] d = "feature" ->
           facts.entitlement.feature_enabled /\ facts.entitlement.status = "revoked"
      [] d = "no customer" -> ~signals.found
      [] d = "no signals" ->
           \/ signals.account_standing = NoStanding \/ signals.refund_history = NoHistory
           \/ signals.payment_instrument = NoInstrument \/ signals.behavioral = NoBehavior
      [] d = "contradiction" ->
           /\ signals.account_standing.status = "good" /\ signals.account_standing.tenure_days >= 30
           /\ signals.refund_history.chargebacks = 0
           /\ signals.behavioral.refund_requests_in_window >= 5
           /\ ~signals.payment_instrument.billing_details_match
      [] d = "reserved" -> signals.account_standing.segment \in {"vip", "enterprise"}}

\* What the code decides on its own all the same.  RP-002 denies a payment given
\* back in full; the status of an entitlement is not compared; a known customer
\* of whom some signals are missing is scored on the others.  And FP-001 stops at
\* the blocklist: billing's denial of such a customer stands.
DecidedAnyway(outcome) ==
  {"all reversed", "active entitlement", "no signals"} \cup
  (IF outcome = "deny_refund" /\ signals.on_blocklist THEN {"contradiction", "reserved"} ELSE {})

\* Nothing is decided without a person about what the specifications doubt, with
\* the exceptions that DecidedAnyway lists and no other: no gate that answers
\* early, and no report that is read first, hides a doubt from decide().
AutomaticMeansUnderstood ==
  \A o \in Order :
    decision[o].outcome # "escalate_human" => Doubts \subseteq DecidedAnyway(decision[o].outcome)

\* Two peers that answer in time never leave the resolution agent in doubt:
\* every confidence below the threshold of decide() comes with a request for
\* review, and so does every report without a recommendation.  The outcome
\* request_more_information and the reason low_confidence need a doubtful
\* triage, a late peer or a peer other than these two.
PeersSpeakPlainly ==
  \A o \in Order :
    /\ decision[o].outcome # "request_more_information"
    /\ decision[o].escalation_reason # "low_confidence"

\* The two report topics have no mutual order.  Which report is read first
\* changes the answer to the customer only where billing denies and risk is
\* alarmed: the ticket is denied or it goes to a person, and no order refunds,
\* credits or asks back what another one would not.
OrderOnlyMattersToDenials ==
  decision["billing_first"].outcome # decision["risk_first"].outcome =>
    /\ decision["billing_first"].outcome = "deny_refund"
    /\ decision["risk_first"].outcome = "escalate_human"

\* No step makes a refund out of a ticket that would not have got one: time,
\* use, a reversal, a delivery or a new fraud signal never help.
NothingBadHelps ==
  [][\A o \in Order :
       decision'[o].outcome = "approve_refund" => decision[o].outcome = "approve_refund"]_vars
=============================================================================
