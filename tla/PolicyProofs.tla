---------------------------- MODULE PolicyProofs ----------------------------
(***************************************************************************)
(* What the rules of the three agents add up to, for every purchase, every *)
(* customer and every amount.  BillingSays and RiskSays are all that the   *)
(* resolution agent needs to know of a peer's rules; each is proved from   *)
(* the ordered gates of its peer.  Decides then reduces a decision to the  *)
(* two findings, and the policy follows from the two-way table.            *)
(***************************************************************************)
EXTENDS RefundPolicy, FiniteSetTheorems, TLAPS

\* The findings the resolution agent makes of the two reports.
BillingView == billing_finding(billing_report(analyze(facts)))
RiskView    == risk_finding(risk_report(assess(signals, requested)))

\* What the code refunds: by the contract, or although the contract does not.
Refunded == Refundable \/ RefundedAnyway

\* Billing is for a refund exactly when the code refunds the purchase, and asks
\* for a person whenever it has no opinion of its own.
BillingSays(b) ==
  /\ b.eligibility \in Eligibility /\ b.requires_human_review \in BOOLEAN
  /\ b.eligibility = "eligible" /\ ~b.requires_human_review <=> Refunded
  /\ b.eligibility = "indeterminate" => b.requires_human_review
  /\ ~b.requires_human_review =>
       /\ b.confidence \in 60 .. 100
       /\ facts.invoice # NoInvoice /\ facts.payment # NoPayment /\ ~contradicts(facts)

\* Risk is low, without a request for review, exactly for a trusted customer.
RiskSays(r) ==
  /\ r.level \in RiskLevel /\ r.requires_human_review \in BOOLEAN
  /\ r.level = "low" /\ ~r.requires_human_review <=> Trusted
  /\ signals.on_blocklist /\ ~r.requires_human_review => r.level = "high"
  /\ ~r.requires_human_review =>
       /\ r.score \in 0 .. 40 /\ signals.found
       /\ \/ signals.on_blocklist
          \/ ~is_contradiction(signals)
               /\ signals.account_standing.segment \notin {"vip", "enterprise"}

\* The inductive invariant: the state is made of values of the agents' models,
\* and the decision is the one they reach on it.
PolicyInv ==
  /\ facts \in BillingFacts /\ signals \in RiskSignals
  /\ requested \in Nat \cup {NoAmount}
  /\ decision = decision_on(facts, signals, requested)

-----------------------------------------------------------------------------
\* Billing.

\* The two kinds of refund have the gates in common and differ in what was given
\* back.
LEMMA RefundedMeans ==
  Refunded <=> InOrder /\ (NothingGivenBack \/ ~(facts.payment.amount > 0))
  BY DEF Refunded, Refundable, RefundedAnyway

\* The payment gates pass a payment exactly when nothing of it was given back
\* or it was not above zero.
LEMMA PaymentGates ==
  ASSUME facts \in BillingFacts, facts.payment # NoPayment
  PROVE  ~partially_reversed(facts) /\ ~not_refundable(facts)
           <=> /\ facts.invoice.paid /\ facts.payment.captured
               /\ NothingGivenBack \/ ~(facts.payment.amount > 0)
  <1> DEFINE a == facts.payment.amount
             g == facts.payment.reversed_amount
             paid == facts.invoice.paid
             captured == facts.payment.captured
  <1>1. a \in Int /\ g \in Int
    BY DEF BillingFacts
  <1>2. partially_reversed(facts) <=> paid /\ g > 0 /\ g < a
    BY DEF partially_reversed
  <1>3. not_refundable(facts) <=> ~paid \/ ~captured \/ (g >= a /\ a > 0)
    BY DEF not_refundable
  <1> HIDE DEF a, g, paid, captured
  <1>4. ~(g > 0 /\ g < a) /\ ~(g >= a /\ a > 0) <=> ~(g > 0) \/ ~(a > 0)
    BY <1>1
  <1>5. ~partially_reversed(facts) /\ ~not_refundable(facts)
          <=> paid /\ captured /\ (~(g > 0) \/ ~(a > 0))
    BY <1>2, <1>3, <1>4, Zenon
  <1> QED
    BY <1>5 DEF a, g, paid, captured, NothingGivenBack

\* No entitlement at all contradicts nothing.
LEMMA EntitlementGate ==
  ASSUME facts \in BillingFacts
  PROVE  (facts.entitlement # NoEntitlement /\ check_entitlement(facts)) <=>
           ~(/\ facts.entitlement.access_used => facts.entitlement.access_granted
             /\ facts.entitlement.account_active => facts.subscription # "cancelled"
             /\ facts.entitlement.feature_enabled => facts.entitlement.status # "revoked")
  <1>1. check_entitlement(facts) <=>
           ~(/\ facts.entitlement.access_used => facts.entitlement.access_granted
             /\ facts.entitlement.account_active => facts.subscription # "cancelled"
             /\ facts.entitlement.feature_enabled => facts.entitlement.status # "revoked")
    BY DEF check_entitlement
  <1>2. facts.entitlement = NoEntitlement => ~check_entitlement(facts)
    BY DEF check_entitlement, NoEntitlement
  <1> QED
    BY <1>1, <1>2

LEMMA UsageGate ==
  usage_level(usage_ratio(facts.usage)) = "heavy" <=>
    /\ facts.usage.allotment_units > 0
    /\ facts.usage.usage_units \div facts.usage.allotment_units > USAGE_HEAVY_THRESHOLD
  <1> DEFINE a == facts.usage.allotment_units
             q == facts.usage.usage_units \div facts.usage.allotment_units
  <1>1. usage_ratio(facts.usage) = IF a > 0 THEN q ELSE 0
    BY DEF usage_ratio
  <1> HIDE DEF a, q
  <1>2. usage_level(usage_ratio(facts.usage)) = "heavy"
          <=> usage_ratio(facts.usage) > USAGE_HEAVY_THRESHOLD
    BY DEF usage_level
  <1>3. CASE a > 0
    BY <1>1, <1>2, <1>3 DEF a, q
  <1>4. CASE ~(a > 0)
    <2>1. ~(0 > USAGE_HEAVY_THRESHOLD)
      BY SMT DEF USAGE_HEAVY_THRESHOLD
    <2> QED
      BY <1>1, <1>2, <1>4, <2>1 DEF a
  <1> QED
    BY <1>3, <1>4

\* The gates of evaluate() together.
LEMMA RefundedGates ==
  ASSUME facts \in BillingFacts
  PROVE  Refunded <=>
           /\ facts.invoice # NoInvoice /\ facts.payment # NoPayment /\ ~contradicts(facts)
           /\ ~(facts.invoice.age > REFUND_WINDOW_DAYS) /\ ~not_refundable(facts)
           /\ usage_level(usage_ratio(facts.usage)) # "heavy"
           /\ ~facts.entitlement.delivered
  <1>1. CASE facts.invoice = NoInvoice \/ facts.payment = NoPayment
    BY <1>1, RefundedMeans DEF InOrder
  <1>2. CASE facts.invoice # NoInvoice /\ facts.payment # NoPayment
    <2>1. facts.invoice.age <= 30 <=> ~(facts.invoice.age > REFUND_WINDOW_DAYS)
      BY <1>2 DEF BillingFacts, REFUND_WINDOW_DAYS
    <2> QED
      BY <1>2, <2>1, RefundedMeans, PaymentGates, EntitlementGate, UsageGate, Zenon
         DEF InOrder, contradicts
  <1> QED
    BY <1>1, <1>2

LEMMA BillingSpeaks ==
  ASSUME facts \in BillingFacts
  PROVE  BillingSays(BillingView)
  <1> DEFINE f == facts
             rec == analyze(facts)
             b == BillingView
             usage == usage_level(usage_ratio(facts.usage))
             missing == f.invoice = NoInvoice \/ f.payment = NoPayment
  <1>0. b = billing_finding(billing_report(rec))
    BY DEF BillingView
  <1>1. CASE missing
    <2>1. rec = Withhold("request_more_information", 20, TRUE, "unknown", {})
      BY <1>1 DEF analyze, evaluate, missing_data_recommendation
    <2>2. b.eligibility = "indeterminate" /\ b.requires_human_review = TRUE
      BY <1>0, <2>1 DEF Withhold, billing_report, billing_finding, billing_eligibility
    <2> QED
      BY <1>1, <2>2, RefundedGates DEF BillingSays, Eligibility
  <1>2. CASE ~missing
    <2>0. f # NoFacts
      BY <1>2 DEF NoFacts
    <2>1. rec = evaluate(f)
      BY <2>0 DEF analyze
    <2>2. CASE contradicts(f)
      <3>1. rec = Withhold("manual_review", 30, TRUE, usage, {"contradiction-gate"})
        BY <1>2, <2>1, <2>2 DEF evaluate
      <3>2. b.eligibility = "indeterminate" /\ b.requires_human_review = TRUE
        BY <1>0, <3>1 DEF Withhold, billing_report, billing_finding, billing_eligibility
      <3> QED
        BY <2>2, <3>2, RefundedGates DEF BillingSays, Eligibility
    <2>3. CASE ~contradicts(f) /\ (f.invoice.age > REFUND_WINDOW_DAYS \/ not_refundable(f)
                                     \/ usage = "heavy")
      <3>1. PICK c \in {60, 90} : \E refs : rec = Withhold("deny_refund", c, FALSE, usage, refs)
        BY <1>2, <2>1, <2>3 DEF evaluate
      <3>2. /\ b.eligibility \in {"partial", "ineligible"} /\ b.requires_human_review = FALSE
            /\ b.confidence = c
        BY <1>0, <3>1 DEF Withhold, billing_report, billing_finding, billing_eligibility
      <3>3. ~Refunded
        BY <2>3, RefundedGates
      <3>4. c \in 60 .. 100
        OBVIOUS
      <3> QED
        BY <1>2, <2>3, <3>2, <3>3, <3>4 DEF BillingSays, Eligibility
    <2>4. CASE /\ ~contradicts(f) /\ ~(f.invoice.age > REFUND_WINDOW_DAYS)
               /\ ~not_refundable(f) /\ usage # "heavy" /\ ~f.entitlement.delivered
      <3>1. rec = approve(f)
        BY <1>2, <2>1, <2>4 DEF evaluate
      <3>2. /\ b.eligibility = "eligible" /\ b.requires_human_review = FALSE
            /\ b.confidence \in {60, 90}
        BY <1>0, <3>1 DEF approve, billing_report, billing_finding, billing_eligibility
      <3>3. b.confidence \in 60 .. 100
        BY <3>2
      <3>4. Refunded
        BY <1>2, <2>4, RefundedGates
      <3> QED
        BY <1>2, <2>4, <3>2, <3>3, <3>4 DEF BillingSays, Eligibility
    <2>5. CASE /\ ~contradicts(f) /\ ~(f.invoice.age > REFUND_WINDOW_DAYS)
               /\ ~not_refundable(f) /\ usage # "heavy" /\ f.entitlement.delivered
      <3>1. rec = Withhold("manual_review", 20, TRUE, usage, {"RP-003"})
        BY <1>2, <2>1, <2>5 DEF evaluate
      <3>2. b.eligibility = "indeterminate" /\ b.requires_human_review = TRUE
        BY <1>0, <3>1 DEF Withhold, billing_report, billing_finding, billing_eligibility
      <3> QED
        BY <2>5, <3>2, RefundedGates DEF BillingSays, Eligibility
    <2> QED
      BY <2>2, <2>3, <2>4, <2>5
  <1> QED
    BY <1>1, <1>2

-----------------------------------------------------------------------------
\* Risk.

\* The weaker signals, one by one.
IsWatched == signals.account_standing.status = "watch"
IsNew     == is_new(signals.account_standing)
DeviceDiffers  == signals.behavioral.device_mismatch
PlaceDiffers   == signals.behavioral.ip_location_mismatch \/ signals.behavioral.ip_country_mismatch
UnusualAmount  == FP_009(signals, requested) > 0

AtMostOneWeaker ==
  /\ ~(IsWatched /\ (IsNew \/ DeviceDiffers \/ PlaceDiffers \/ UnusualAmount))
  /\ ~(IsNew /\ (DeviceDiffers \/ PlaceDiffers \/ UnusualAmount))
  /\ ~(DeviceDiffers /\ (PlaceDiffers \/ UnusualAmount))
  /\ ~(PlaceDiffers /\ UnusualAmount)

LEMMA AtMostOne ==
  ASSUME NEW S, IsFiniteSet(S)
  PROVE  Cardinality(S) <= 1 <=> \A x, y \in S : x = y
  <1>1. ASSUME Cardinality(S) <= 1, NEW x \in S, NEW y \in S PROVE x = y
    <2>1. Cardinality(S) \in Nat /\ (Cardinality(S) = 0 <=> S = {})
      BY FS_CardinalityType, FS_EmptySet
    <2>2. Cardinality(S) = 1
      BY <1>1, <2>1
    <2>3. PICK z : S = {z}
      BY <2>2, FS_Singleton
    <2> QED
      BY <1>1, <2>3
  <1>2. ASSUME \A x, y \in S : x = y PROVE Cardinality(S) <= 1
    <2>1. CASE S = {}
      BY <2>1, FS_EmptySet
    <2>2. CASE S # {}
      <3>1. PICK z : S = {z}
        BY <1>2, <2>2
      <3>2. Cardinality({z}) = 1
        BY FS_Singleton
      <3> QED
        BY <3>1, <3>2
    <2> QED
      BY <2>1, <2>2
  <1> QED
    BY <1>1, <1>2

LEMMA WeakerCount == Cardinality(Weaker) <= 1 <=> AtMostOneWeaker
  <1> DEFINE names == {"watched", "new", "device", "place", "amount"}
  <1>1. IsFiniteSet(Weaker)
    <2>1. IsFiniteSet(names)
      <3> DEFINE two == {"watched"} \cup {"new"}
                 four == (two \cup {"device"}) \cup {"place"}
      <3>1. IsFiniteSet({"watched"})
        BY FS_Singleton
      <3>2. IsFiniteSet(two)
        BY <3>1, FS_AddElement
      <3> HIDE DEF two
      <3>3. IsFiniteSet(two \cup {"device"})
        BY <3>2, FS_AddElement
      <3>4. IsFiniteSet(four)
        BY <3>3, FS_AddElement
      <3> HIDE DEF four
      <3>5. IsFiniteSet(four \cup {"amount"})
        BY <3>4, FS_AddElement
      <3>6. names = four \cup {"amount"}
        BY DEF two, four
      <3> QED
        BY <3>5, <3>6
    <2>2. Weaker \subseteq names
      BY DEF Weaker
    <2> QED
      BY <2>1, <2>2, FS_Subset
  <1>2. /\ "watched" \in Weaker <=> IsWatched
        /\ "new" \in Weaker <=> IsNew
        /\ "device" \in Weaker <=> DeviceDiffers
        /\ "place" \in Weaker <=> PlaceDiffers
        /\ "amount" \in Weaker <=> UnusualAmount
        /\ \A w \in Weaker : w \in names
    BY DEF Weaker, IsWatched, IsNew, DeviceDiffers, PlaceDiffers, UnusualAmount
  <1>3. (\A x, y \in Weaker : x = y) <=> AtMostOneWeaker
    BY <1>2 DEF AtMostOneWeaker
  <1> QED
    BY <1>1, <1>3, AtMostOne

\* What each rule of the score weighs.
LEMMA Weights ==
  ASSUME signals \in RiskSignals, requested \in Nat \cup {NoAmount}
  PROVE  /\ FP_002(signals) \in {0, 50, 80}
         /\ FP_002(signals) = 0 <=> ~(signals.refund_history.chargebacks > 0)
         /\ FP_003(signals) \in {0, 50, 80}
         /\ FP_003(signals) = 0 <=> ~(signals.behavioral.refund_requests_in_window > 2)
         /\ FP_004(signals) \in {0, 50, 60}
         /\ FP_004(signals) = 0 <=> /\ ~signals.payment_instrument.card_testing_pattern
                                    /\ signals.payment_instrument.billing_details_match
         /\ FP_006(signals) \in {0, 50}
         /\ FP_006(signals) = 0 <=> ~(signals.behavioral.anomaly_score >= 70)
         /\ FP_007(signals) \in {0, 40} /\ (FP_007(signals) = 40 <=> DeviceDiffers)
         /\ FP_008(signals) \in {0, 40} /\ (FP_008(signals) = 40 <=> PlaceDiffers)
         /\ FP_009(signals, requested) \in {0, 30}
         /\ FP_009(signals, requested) = 30 <=> UnusualAmount
  <1>1. signals.refund_history.chargebacks \in Int
    BY DEF RiskSignals, NoHistory
  <1>2. signals.behavioral.refund_requests_in_window \in Int
    BY DEF RiskSignals, NoBehavior
  <1>3. FP_002(signals) \in {0, 50, 80}
          /\ (FP_002(signals) = 0 <=> ~(signals.refund_history.chargebacks > 0))
    BY <1>1 DEF FP_002, CHARGEBACK_HIGH, CHARGEBACK_ELEVATED
  <1>4. FP_003(signals) \in {0, 50, 80}
          /\ (FP_003(signals) = 0 <=> ~(signals.behavioral.refund_requests_in_window > 2))
    BY <1>2 DEF FP_003, VELOCITY_HIGH, VELOCITY_ELEVATED
  <1>5. /\ FP_004(signals) \in {0, 50, 60}
        /\ FP_004(signals) = 0 <=> /\ ~signals.payment_instrument.card_testing_pattern
                                   /\ signals.payment_instrument.billing_details_match
    BY DEF FP_004
  <1>6. /\ FP_006(signals) \in {0, 50}
        /\ FP_006(signals) = 0 <=> ~(signals.behavioral.anomaly_score >= 70)
    BY DEF FP_006, ANOMALY_ELEVATED
  <1>7. /\ FP_007(signals) \in {0, 40} /\ (FP_007(signals) = 40 <=> DeviceDiffers)
        /\ FP_008(signals) \in {0, 40} /\ (FP_008(signals) = 40 <=> PlaceDiffers)
    BY DEF FP_007, FP_008, DeviceDiffers, PlaceDiffers
  <1>8. FP_009(signals, requested) \in {0, 30}
    BY DEF FP_009
  <1>9. FP_009(signals, requested) = 30 <=> UnusualAmount
    BY <1>8 DEF UnusualAmount
  <1> QED
    BY <1>3, <1>4, <1>5, <1>6, <1>7, <1>8, <1>9

\* A restricted account weighs 60, as a watched and new one does.
LEMMA StandingWeight ==
  /\ FP_005(signals) \in {0, 30, 60}
  /\ FP_005(signals) = 60 <=>
       signals.account_standing.status = "restricted" \/ (IsWatched /\ IsNew)
  /\ FP_005(signals) # 0 <=>
       signals.account_standing.status = "restricted" \/ IsWatched \/ IsNew
  BY DEF FP_005, IsWatched, IsNew

\* The score stays below the elevated band exactly for no serious signal and
\* at most one weaker one.
LEMMA ScoreIsLow ==
  ASSUME signals \in RiskSignals, requested \in Nat \cup {NoAmount}, ~signals.on_blocklist
  PROVE  /\ compute_score(signals, requested) \in 0 .. 100
         /\ compute_score(signals, requested) < 50 <=> ~Serious /\ Cardinality(Weaker) <= 1
  <1> DEFINE x2 == FP_002(signals)
             x3 == FP_003(signals)
             x4 == FP_004(signals)
             x5 == FP_005(signals)
             x6 == FP_006(signals)
             x7 == FP_007(signals)
             x8 == FP_008(signals)
             x9 == FP_009(signals, requested)
             sum == x2 + x3 + x4 + x5 + x6 + x7 + x8 + x9
             restricted == signals.account_standing.status = "restricted"
  <1>1. compute_score(signals, requested) = IF sum > 100 THEN 100 ELSE sum
    BY DEF compute_score
  <1>2. Serious <=> x2 # 0 \/ x3 # 0 \/ x4 # 0 \/ x6 # 0 \/ restricted
    <2>1. x2 # 0 <=> signals.refund_history.chargebacks > 0
      BY Weights
    <2>2. x3 # 0 <=> signals.behavioral.refund_requests_in_window > 2
      BY Weights
    <2>3. x4 # 0 <=> \/ signals.payment_instrument.card_testing_pattern
                     \/ ~signals.payment_instrument.billing_details_match
      BY Weights
    <2>4. x6 # 0 <=> signals.behavioral.anomaly_score >= 70
      BY Weights
    <2> HIDE DEF x2, x3, x4, x6
    <2> QED
      BY <2>1, <2>2, <2>3, <2>4 DEF Serious
  <1>3. /\ x2 \in {0, 50, 80} /\ x3 \in {0, 50, 80} /\ x4 \in {0, 50, 60} /\ x5 \in {0, 30, 60}
        /\ x6 \in {0, 50} /\ x7 \in {0, 40} /\ x8 \in {0, 40} /\ x9 \in {0, 30}
    BY Weights, StandingWeight
  <1>4. /\ x5 = 60 <=> restricted \/ (IsWatched /\ IsNew)
        /\ x5 # 0 <=> restricted \/ IsWatched \/ IsNew
        /\ x7 = 40 <=> DeviceDiffers
        /\ x8 = 40 <=> PlaceDiffers
        /\ x9 = 30 <=> UnusualAmount
    BY Weights, StandingWeight
  <1> HIDE DEF x2, x3, x4, x5, x6, x7, x8, x9, restricted
  <1>5. sum \in Nat
    BY <1>3
  <1>6. sum < 50 <=>
          /\ x2 = 0 /\ x3 = 0 /\ x4 = 0 /\ x6 = 0 /\ x5 # 60
          /\ ~(x5 # 0 /\ (x7 = 40 \/ x8 = 40 \/ x9 = 30))
          /\ ~(x7 = 40 /\ (x8 = 40 \/ x9 = 30))
          /\ ~(x8 = 40 /\ x9 = 30)
    BY <1>3
  <1> HIDE DEF sum
  <1>7. sum < 50 <=> ~Serious /\ AtMostOneWeaker
    BY <1>2, <1>4, <1>6, Zenon DEF AtMostOneWeaker
  <1>8. compute_score(signals, requested) \in 0 .. 100
          /\ (compute_score(signals, requested) < 50 <=> sum < 50)
    BY <1>1, <1>5
  <1> QED
    BY <1>7, <1>8, WeakerCount

LEMMA RiskSpeaks ==
  ASSUME signals \in RiskSignals, requested \in Nat \cup {NoAmount}
  PROVE  RiskSays(RiskView)
  <1> DEFINE a == assess(signals, requested)
             r == RiskView
             score == compute_score(signals, requested)
             segment == signals.account_standing.segment
  <1>1. ASSUME NEW l \in RiskLevel, NEW c \in {20, 30, 60, 70, 90, 95}, NEW v \in BOOLEAN,
               a = Assess(l, c, v)
        PROVE  /\ r.level = l /\ r.requires_human_review = v /\ r.score = 100 - c
    BY <1>1 DEF RiskView, risk_finding, risk_report, Assess, risk_level,
                uncertainty_from_confidence
  <1>2. signals.found \in BOOLEAN
    BY DEF RiskSignals
  <1>3. \A n : score_to_level(n) \in RiskLevel
    BY DEF score_to_level, RiskLevel
  <1>4. CASE ~signals.found
    <2>1. a = Assess("low", 20, TRUE)
      BY <1>4 DEF assess
    <2>2. r.level = "low" /\ r.requires_human_review = TRUE
      BY <1>1, <2>1 DEF RiskLevel
    <2> QED
      BY <1>4, <2>2 DEF RiskSays, RiskLevel, Trusted
  <1>5. CASE signals.found /\ signals.on_blocklist
    <2>1. a = Assess("high", 95, FALSE)
      BY <1>5 DEF assess, assess_signals
    <2>2. r.level = "high" /\ r.requires_human_review = FALSE /\ r.score = 100 - 95
      BY <1>1, <2>1 DEF RiskLevel
    <2>3. r.score \in 0 .. 40
      BY <2>2
    <2>4. ~Trusted
      BY <1>5 DEF Trusted, Serious
    <2> QED
      BY <1>5, <2>2, <2>3, <2>4 DEF RiskSays, RiskLevel
  <1>6. CASE signals.found /\ ~signals.on_blocklist /\ segment \in {"vip", "enterprise"}
    <2>1. a = Assess(score_to_level(score), 70, TRUE)
      BY <1>6 DEF assess, assess_signals
    <2>2. r.level \in RiskLevel /\ r.requires_human_review = TRUE
      BY <1>1, <1>3, <2>1
    <2> QED
      BY <1>6, <2>2 DEF RiskSays, Trusted
  <1>7. CASE /\ signals.found /\ ~signals.on_blocklist /\ segment \notin {"vip", "enterprise"}
             /\ is_contradiction(signals)
    <2>1. a = Assess("elevated", 30, TRUE)
      BY <1>7 DEF assess, assess_signals
    <2>2. r.level = "elevated" /\ r.requires_human_review = TRUE
      BY <1>1, <2>1 DEF RiskLevel
    <2>3. signals.behavioral.refund_requests_in_window > 2
      BY <1>7 DEF is_contradiction, VELOCITY_HIGH, RiskSignals, NoBehavior
    <2> QED
      BY <1>7, <2>2, <2>3 DEF RiskSays, RiskLevel, Trusted, Serious
  <1>8. CASE /\ signals.found /\ ~signals.on_blocklist /\ segment \notin {"vip", "enterprise"}
             /\ ~is_contradiction(signals)
    <2> DEFINE level == score_to_level(score)
               v == level = "elevated"
                      /\ signals.refund_history.chargebacks >= CHARGEBACK_ELEVATED
    <2>1. a = score_assessment(signals, requested)
      BY <1>8 DEF assess, assess_signals
    <2>2. a = Assess(level, 60, v) \/ a = Assess(level, 90, v)
      BY <2>1 DEF score_assessment
    <2>3. r.level = level /\ r.requires_human_review = v /\ r.score \in {40, 10}
      <3> HIDE DEF a, r, level, v
      <3>1. level \in RiskLevel /\ v \in BOOLEAN
        BY <1>3 DEF level, v
      <3> QED
        BY <1>1, <2>2, <3>1
    <2>4. level = "low" <=> score < 50
      <3>1. score \in 0 .. 100
        BY <1>8, ScoreIsLow
      <3> HIDE DEF score
      <3> QED
        BY <3>1 DEF score_to_level, HIGH_THRESHOLD, ELEVATED_THRESHOLD
    <2>5. level = "low" <=> Trusted
      BY <1>8, <2>4, ScoreIsLow DEF Trusted
    <2>6. level = "low" => ~v
      OBVIOUS
    <2>7. level \in RiskLevel
      BY <1>3
    <2>8. r.score \in 0 .. 40
      BY <2>3
    <2> HIDE DEF level
    <2>9. r.requires_human_review \in BOOLEAN
      BY <2>3
    <2>10. r.level = "low" /\ ~r.requires_human_review <=> Trusted
      <3>1. r.level = "low" => ~r.requires_human_review
        BY <2>3, <2>6
      <3> QED
        BY <2>3, <2>5, <3>1
    <2>11. r.level \in RiskLevel
      BY <2>3, <2>7
    <2> QED
      BY <1>8, <2>8, <2>9, <2>10, <2>11, Zenon DEF RiskSays
  <1> QED
    BY <1>2, <1>4, <1>5, <1>6, <1>7, <1>8

-----------------------------------------------------------------------------
\* The resolution agent.

\* Three certainties of 60 or more have a least one that decide() accepts.
LEMMA Certain ==
  ASSUME NEW b, NEW r, b.confidence \in 60 .. 100, r.score \in 0 .. 40
  PROVE  ~(compute_confidence(RefundRequest, b, r) < CONFIDENCE_THRESHOLD)
  <1> DEFINE y == b.confidence
             z == 100 - r.score
             least == compute_confidence(RefundRequest, b, r)
  <1>1. y \in 60 .. 100 /\ z \in 60 .. 100 /\ b.confidence # NoScore /\ r.score # NoScore
    BY DEF NoScore
  <1>2. {100} \cup ({b.confidence} \ {NoScore})
           \cup {100 - s : s \in {r.score} \ {NoScore}} = {100, y, z}
    BY <1>1
  <1>3. least = CHOOSE m \in {100, y, z} : \A s \in {100, y, z} : m <= s
    BY <1>2 DEF compute_confidence, RefundRequest
  <1> HIDE DEF y, z
  <1>4. \E m \in {100, y, z} : \A s \in {100, y, z} : m <= s
    BY <1>1
  <1>5. least \in {100, y, z}
    BY <1>3, <1>4
  <1> HIDE DEF least
  <1>6. ~(least < 60)
    BY <1>1, <1>5
  <1> QED
    BY <1>6 DEF least, CONFIDENCE_THRESHOLD

\* A risk report that escalates at once.
Alarming == RiskView.level \in {"elevated", "high"} \/ RiskView.requires_human_review
Review == BillingView.requires_human_review \/ RiskView.requires_human_review

\* Every decision is one of three: the immediate escalation, a person asked
\* for by a peer, or the entry of the two-way table.
LEMMA Decides ==
  ASSUME PolicyInv, NEW o \in Order
  PROVE  LET immediate == Alarming /\ ~(o = "billing_first"
                                          /\ BillingView.eligibility = "ineligible") IN
         /\ immediate => decision[o] = Escalate("elevated_risk")
         /\ ~immediate /\ Review => decision[o] = Escalate("peer_requested_review")
         /\ ~immediate /\ ~Review
              => decision[o] = combine(BillingView.eligibility, RiskView.level)
  <1> DEFINE b == BillingView
             r == RiskView
             immediate == Alarming /\ ~(o = "billing_first" /\ b.eligibility = "ineligible")
             v == decide(RefundRequest, b, r, InTime)
  <1>1. BillingSays(b) /\ RiskSays(r)
    BY BillingSpeaks, RiskSpeaks DEF PolicyInv
  <1>2. decision[o] = IF immediate THEN Escalate("elevated_risk") ELSE v
    BY DEF PolicyInv, decision_on, BillingView, RiskView, Alarming
  <1>3. b # NoBilling /\ r # NoRisk
    BY <1>1 DEF BillingSays, RiskSays, NoBilling, NoRisk, Eligibility, RiskLevel
  <1>4. RefundRequest.needs_refund_review = TRUE /\ InTime.any_missing = FALSE
    BY DEF RefundRequest, InTime
  <1>5. Review => v = Escalate("peer_requested_review")
    BY <1>3, <1>4 DEF decide, Review
  <1>6. ~Review => v = combine(b.eligibility, r.level)
    <2> SUFFICES ASSUME ~Review PROVE v = combine(b.eligibility, r.level)
      OBVIOUS
    <2>1. b.confidence \in 60 .. 100 /\ r.score \in 0 .. 40
      BY <1>1 DEF BillingSays, RiskSays, Review
    <2>2. ~(compute_confidence(RefundRequest, b, r) < CONFIDENCE_THRESHOLD)
      BY <2>1, Certain
    <2> QED
      BY <1>3, <1>4, <2>2 DEF decide, Review
  <1> QED
    BY <1>2, <1>5, <1>6

\* The entries of the table that the policy speaks of.
LEMMA TableEntries ==
  ASSUME NEW e \in Eligibility, NEW l \in RiskLevel
  PROVE  LET v == combine(e, l) IN
         /\ v.outcome = "approve_refund" <=> e = "eligible" /\ l = "low"
         /\ v.outcome = "offer_partial_credit" => e = "partial"
         /\ v.outcome = "request_more_information" => e = "indeterminate"
         /\ e = "ineligible" => v.outcome \in {"deny_refund", "escalate_human"}
         /\ v.escalation_reason # "low_confidence"
  <1>1. /\ \A o : Resolve(o).outcome = o /\ Resolve(o).escalation_reason = "none"
        /\ \A x : Escalate(x).outcome = "escalate_human" /\ Escalate(x).escalation_reason = x
    BY DEF Resolve, Escalate
  <1>2. e \in {"eligible", "partial", "ineligible", "indeterminate"}
    BY DEF Eligibility
  <1>3. l \in {"low", "elevated", "high"}
    BY DEF RiskLevel
  <1> QED
    BY <1>1, <1>2, <1>3 DEF combine

\* What is needed of an escalation.
LEMMA Escalates ==
  /\ Escalate("elevated_risk").outcome = "escalate_human"
  /\ Escalate("peer_requested_review").outcome = "escalate_human"
  /\ Escalate("elevated_risk").escalation_reason = "elevated_risk"
  /\ Escalate("peer_requested_review").escalation_reason = "peer_requested_review"
  BY DEF Escalate

LEMMA EarnedHere == PolicyInv => ApprovalIsEarned
  <1> SUFFICES ASSUME PolicyInv, NEW o \in Order
               PROVE  decision[o].outcome = "approve_refund" <=> Refunded /\ Trusted
    BY DEF ApprovalIsEarned, Refunded
  <1> DEFINE e == BillingView.eligibility
             l == RiskView.level
  <1>1. BillingSays(BillingView) /\ RiskSays(RiskView)
    BY BillingSpeaks, RiskSpeaks DEF PolicyInv
  <1>2. e \in Eligibility /\ l \in RiskLevel
    BY <1>1 DEF BillingSays, RiskSays
  <1>3. Refunded /\ Trusted <=> e = "eligible" /\ l = "low" /\ ~Review
    BY <1>1 DEF BillingSays, RiskSays, Review
  <1>4. CASE Alarming /\ ~(o = "billing_first" /\ e = "ineligible")
    <2>1. decision[o].outcome = "escalate_human"
      BY <1>4, Decides, Escalates
    <2>2. ~(l = "low" /\ ~Review)
      BY <1>4 DEF Alarming, Review
    <2> QED
      BY <1>3, <2>1, <2>2
  <1>5. CASE ~(Alarming /\ ~(o = "billing_first" /\ e = "ineligible")) /\ Review
    <2>1. decision[o].outcome = "escalate_human"
      BY <1>5, Decides, Escalates
    <2> QED
      BY <1>3, <1>5, <2>1
  <1>6. CASE ~(Alarming /\ ~(o = "billing_first" /\ e = "ineligible")) /\ ~Review
    <2>1. decision[o] = combine(e, l)
      BY <1>6, Decides
    <2> QED
      BY <1>2, <1>3, <1>6, <2>1, TableEntries
  <1> QED
    BY <1>4, <1>5, <1>6

\* The doubts that the gates of the two peers leave to decide().
LEMMA DoubtsLeft ==
  ASSUME facts \in BillingFacts, signals \in RiskSignals, NEW outcome,
         facts.invoice # NoInvoice, facts.payment # NoPayment, ~contradicts(facts), signals.found,
         ~signals.on_blocklist => /\ ~is_contradiction(signals)
                                  /\ signals.account_standing.segment \notin {"vip", "enterprise"},
         signals.on_blocklist => outcome = "deny_refund"
  PROVE  Doubts \subseteq DecidedAnyway(outcome)
  <1>1. /\ "no record" \notin Doubts /\ "no customer" \notin Doubts
    BY DEF Doubts
  <1>2. "part reversed" \notin Doubts
    BY DEF Doubts, contradicts, partially_reversed
  <1>3. /\ "active account" \notin Doubts /\ "access" \notin Doubts
        /\ "feature" \notin Doubts
    <2>1. ~check_entitlement(facts)
      BY DEF contradicts, check_entitlement, NoEntitlement
    <2> QED
      BY <2>1 DEF Doubts, check_entitlement
  <1>4. ASSUME ~signals.on_blocklist PROVE "contradiction" \notin Doubts /\ "reserved" \notin Doubts
    <2>1. "reserved" \notin Doubts
      BY <1>4 DEF Doubts
    <2>2. ASSUME "contradiction" \in Doubts PROVE FALSE
      <3>1. /\ signals.account_standing.status = "good"
            /\ signals.account_standing.tenure_days >= 30
            /\ signals.refund_history.chargebacks = 0
            /\ signals.behavioral.refund_requests_in_window >= 5
            /\ ~signals.payment_instrument.billing_details_match
        BY <2>2 DEF Doubts
      <3>2. signals.account_standing.tenure_days \in Int
        BY DEF RiskSignals, NoStanding
      <3>3. ~is_new(signals.account_standing) /\ signals.refund_history.chargebacks <= 0
        BY <3>1, <3>2 DEF is_new, NEW_ACCOUNT_DAYS
      <3> QED
        BY <1>4, <3>1, <3>3 DEF is_contradiction, VELOCITY_HIGH
    <2> QED
      BY <2>1, <2>2
  <1>5. CASE signals.on_blocklist
    <2>1. DecidedAnyway(outcome) = {"all reversed", "active entitlement", "no signals",
                                    "contradiction", "reserved"}
      BY <1>5 DEF DecidedAnyway
    <2> QED
      BY <1>1, <1>2, <1>3, <2>1 DEF Doubts, Doubt
  <1>6. CASE ~signals.on_blocklist
    <2>1. {"all reversed", "active entitlement", "no signals"} \subseteq DecidedAnyway(outcome)
      BY DEF DecidedAnyway
    <2> QED
      BY <1>1, <1>2, <1>3, <1>4, <1>6, <2>1 DEF Doubts, Doubt
  <1> QED
    BY <1>5, <1>6

\* Every decision of the policy is one of the three kinds of Decides; what the
\* other four properties say of each.
LEMMA RestHere ==
  PolicyInv => /\ ChargebackIsNeverPaid /\ AutomaticMeansUnderstood
               /\ PeersSpeakPlainly /\ OrderOnlyMattersToDenials
  <1> SUFFICES ASSUME PolicyInv
               PROVE  /\ ChargebackIsNeverPaid /\ AutomaticMeansUnderstood
                      /\ PeersSpeakPlainly /\ OrderOnlyMattersToDenials
    OBVIOUS
  <1> DEFINE e == BillingView.eligibility
             l == RiskView.level
             table == combine(e, l)
             immediate(o) == Alarming /\ ~(o = "billing_first" /\ e = "ineligible")
  <1>1. BillingSays(BillingView) /\ RiskSays(RiskView)
    BY BillingSpeaks, RiskSpeaks DEF PolicyInv
  <1>2. e \in Eligibility /\ l \in RiskLevel
    BY <1>1 DEF BillingSays, RiskSays
  <1>3. \A o \in Order :
          /\ immediate(o) => decision[o] = Escalate("elevated_risk")
          /\ ~immediate(o) /\ Review => decision[o] = Escalate("peer_requested_review")
          /\ ~immediate(o) /\ ~Review => decision[o] = table
    BY Decides
  <1>4. /\ table.outcome = "approve_refund" <=> e = "eligible" /\ l = "low"
        /\ table.outcome = "offer_partial_credit" => e = "partial"
        /\ table.outcome = "request_more_information" => e = "indeterminate"
        /\ e = "ineligible" => table.outcome \in {"deny_refund", "escalate_human"}
        /\ table.escalation_reason # "low_confidence"
    BY <1>2, TableEntries
  <1>5. e = "indeterminate" => Review
    BY <1>1 DEF BillingSays, Review
  <1> HIDE DEF table
  <1>6. \A o \in Order : decision[o].outcome # "escalate_human" =>
          ~Review /\ decision[o] = table /\ (Alarming => o = "billing_first" /\ e = "ineligible")
    BY <1>3, Escalates
  <1>7. ChargebackIsNeverPaid
    <2> SUFFICES ASSUME signals.refund_history.chargebacks > 0, NEW o \in Order
                 PROVE  decision[o].outcome \notin {"approve_refund", "offer_partial_credit"}
      BY DEF ChargebackIsNeverPaid
    <2>1. ~Trusted
      BY DEF Trusted, Serious
    <2>2. Alarming
      <3>1. ~(l = "low" /\ ~RiskView.requires_human_review)
        BY <1>1, <2>1 DEF RiskSays
      <3> QED
        BY <1>2, <3>1 DEF Alarming, RiskLevel
    <2>3. CASE decision[o].outcome = "escalate_human"
      BY <2>3
    <2>4. CASE decision[o].outcome # "escalate_human"
      BY <1>4, <1>6, <2>2, <2>4
    <2> QED
      BY <2>3, <2>4
  <1>8. AutomaticMeansUnderstood
    <2> SUFFICES ASSUME NEW o \in Order, decision[o].outcome # "escalate_human"
                 PROVE  Doubts \subseteq DecidedAnyway(decision[o].outcome)
      BY DEF AutomaticMeansUnderstood
    <2>1. /\ ~BillingView.requires_human_review /\ ~RiskView.requires_human_review
          /\ decision[o] = table /\ (Alarming => e = "ineligible")
      BY <1>6 DEF Review
    <2>2. /\ facts.invoice # NoInvoice /\ facts.payment # NoPayment
          /\ ~contradicts(facts) /\ signals.found
      BY <1>1, <2>1 DEF BillingSays, RiskSays
    <2>3. ~signals.on_blocklist => /\ ~is_contradiction(signals)
                                   /\ signals.account_standing.segment \notin {"vip", "enterprise"}
      BY <1>1, <2>1 DEF RiskSays
    <2>4. signals.on_blocklist => decision[o].outcome = "deny_refund"
      <3> SUFFICES ASSUME signals.on_blocklist PROVE decision[o].outcome = "deny_refund"
        OBVIOUS
      <3>1. l = "high"
        BY <1>1, <2>1 DEF RiskSays
      <3>2. e = "ineligible"
        BY <2>1, <3>1 DEF Alarming
      <3> QED
        BY <1>4, <2>1, <3>2
    <2> QED
      BY <2>2, <2>3, <2>4, DoubtsLeft DEF PolicyInv
  <1>9. PeersSpeakPlainly
    BY <1>3, <1>4, <1>5, Escalates DEF PeersSpeakPlainly
  <1>10. OrderOnlyMattersToDenials
    <2> SUFFICES ASSUME decision["billing_first"].outcome # decision["risk_first"].outcome
                 PROVE  /\ decision["billing_first"].outcome = "deny_refund"
                        /\ decision["risk_first"].outcome = "escalate_human"
      BY DEF OrderOnlyMattersToDenials
    <2>1. "billing_first" \in Order /\ "risk_first" \in Order
      BY DEF Order
    <2>2. immediate("risk_first") /\ ~immediate("billing_first")
      BY <1>3, <2>1
    <2>3. e = "ineligible"
      BY <2>2
    <2>4. decision["risk_first"].outcome = "escalate_human"
      BY <1>3, <2>1, <2>2, Escalates
    <2>5. decision["billing_first"].outcome \in {"deny_refund", "escalate_human"}
      BY <1>3, <1>4, <2>1, <2>2, <2>3, Escalates
    <2> QED
      BY <2>4, <2>5
  <1> QED
    BY <1>7, <1>8, <1>9, <1>10

-----------------------------------------------------------------------------
\* The theorems.

\* A step changes the purchase, the customer or the amount asked for.
LEMMA StepKinds ==
  /\ PurchaseStep => facts' \in Purchases /\ UNCHANGED <<signals, requested>>
  /\ CustomerStep => \/ signals' \in Customers /\ UNCHANGED <<facts, requested>>
                     \/ requested' \in Amounts /\ UNCHANGED <<facts, signals>>
  <1>1. PurchaseStep => facts' \in Purchases /\ UNCHANGED <<signals, requested>>
    BY DEF PurchaseStep, DayPasses, UsedMore, Reversed, Delivered, Purchase
  <1>2. CustomerStep => \/ signals' \in Customers /\ UNCHANGED <<facts, requested>>
                        \/ requested' \in Amounts /\ UNCHANGED <<facts, signals>>
    BY DEF CustomerStep, Chargeback, AskedAgain, DeviceChanged, PlaceChanged, ActedOddly,
           TestedCards, DetailsDiffer, Watched, Restricted, Blocklisted, AsksForMore, Customer
  <1> QED
    BY <1>1, <1>2

\* The state is always made of values of the agents' models.
THEOREM PolicyInvariance == Spec => []PolicyInv
  <1>1. Init => PolicyInv
    BY PolicyAssumption DEF Init, PolicyInv
  <1>2. PolicyInv /\ [Next]_vars => PolicyInv'
    <2> SUFFICES ASSUME PolicyInv, [Next]_vars PROVE PolicyInv'
      OBVIOUS
    <2>1. CASE UNCHANGED vars
      BY <2>1 DEF PolicyInv, vars
    <2>2. CASE Next
      <3>1. /\ facts' \in BillingFacts /\ signals' \in RiskSignals
            /\ requested' \in Nat \cup {NoAmount}
        BY <2>2, StepKinds, PolicyAssumption DEF Next, PolicyInv
      <3> QED
        BY <2>2, <3>1 DEF Next, PolicyInv
    <2> QED
      BY <2>1, <2>2
  <1> QED
    BY <1>1, <1>2, PTL DEF Spec

\* Whatever the purchase, the customer and the amount, a payment of zero with a
\* reversal included: the three agents decide for a refund exactly when the
\* customer is trusted and the purchase is refundable by the contract or one of
\* the two kinds the code refunds anyway, in either order of the reports.
THEOREM ApprovalsAreEarned == Spec => []ApprovalIsEarned
  BY EarnedHere, PolicyInvariance, PTL

\* No customer with a chargeback is offered a refund or a credit.
THEOREM ChargebacksAreNotPaid == Spec => []ChargebackIsNeverPaid
  <1>1. PolicyInv => ChargebackIsNeverPaid
    BY RestHere
  <1> QED
    BY <1>1, PolicyInvariance, PTL

\* The agents decide alone about none of the doubts that the specifications
\* leave to a person, but for the ones DecidedAnyway lists.
THEOREM PeopleJudgeTheRest == Spec => []AutomaticMeansUnderstood
  <1>1. PolicyInv => AutomaticMeansUnderstood
    BY RestHere
  <1> QED
    BY <1>1, PolicyInvariance, PTL

\* Two peers in time never leave the resolution agent in doubt.
THEOREM PeersAreClear == Spec => []PeersSpeakPlainly
  <1>1. PolicyInv => PeersSpeakPlainly
    BY RestHere
  <1> QED
    BY <1>1, PolicyInvariance, PTL

\* The order of the two report topics matters to denials only.
THEOREM OrderIsHarmless == Spec => []OrderOnlyMattersToDenials
  <1>1. PolicyInv => OrderOnlyMattersToDenials
    BY RestHere
  <1> QED
    BY <1>1, PolicyInvariance, PTL

-----------------------------------------------------------------------------
\* Monotony.

\* More use of the same allotment is no smaller a share.
LEMMA ShareGrows ==
  ASSUME NEW a \in Nat, NEW u \in Nat, NEW w \in Nat, a > 0, w > u
  PROVE  w \div a >= u \div a
  <1> DEFINE p == u \div a
             q == w \div a
  <1>1. p \in Int /\ q \in Int /\ a * p <= u /\ w < a * (q + 1)
    OBVIOUS
  <1> HIDE DEF p, q
  <1>2. ASSUME q < p PROVE FALSE
    <2>1. a * (q + 1) <= a * p
      BY <1>1, <1>2
    <2> QED
      BY <1>1, <2>1
  <1> QED
    BY <1>1, <1>2 DEF p, q

\* Nothing that happens to a purchase makes the code refund it.
LEMMA NotMoreRefunded ==
  ASSUME PolicyInv, PurchaseStep, Refunded'
  PROVE  Refunded
  <1>a. InOrder' /\ (NothingGivenBack' \/ ~(facts'.payment.amount > 0))
    BY DEF Refunded, Refundable, RefundedAnyway
  <1>b. SUFFICES InOrder /\ (NothingGivenBack \/ ~(facts.payment.amount > 0))
    BY RefundedMeans
  <1>0. facts \in BillingFacts /\ facts' \in BillingFacts
    BY StepKinds, PolicyAssumption DEF PolicyInv
  <1>1. CASE DayPasses
    <2>1. facts' = [facts EXCEPT !.invoice.age = @ + 1] /\ facts.invoice # NoInvoice
      BY <1>1 DEF DayPasses, Purchase
    <2>2. /\ facts'.invoice.age = facts.invoice.age + 1 /\ facts'.invoice.paid = facts.invoice.paid
          /\ facts'.payment = facts.payment /\ facts'.usage = facts.usage
          /\ facts'.entitlement = facts.entitlement /\ facts'.subscription = facts.subscription
          /\ facts.invoice.age \in Nat
      BY <1>0, <2>1 DEF BillingFacts
    <2>3. facts.invoice.age <= 30
      BY <1>a, <2>2 DEF InOrder
    <2> QED
      BY <1>a, <2>1, <2>2, <2>3 DEF InOrder, NothingGivenBack
  <1>2. CASE UsedMore
    <2>1. PICK u \in UsageUnits :
            u > facts.usage.usage_units /\ facts' = [facts EXCEPT !.usage.usage_units = u]
      BY <1>2 DEF UsedMore, Purchase
    <2>2. /\ facts'.usage.usage_units = u
          /\ facts'.usage.allotment_units = facts.usage.allotment_units
          /\ facts'.payment = facts.payment /\ facts'.invoice = facts.invoice
          /\ facts'.entitlement = facts.entitlement /\ facts'.subscription = facts.subscription
      BY <1>0, <2>1 DEF BillingFacts, NoUsage
    <2>3. ASSUME facts.usage.allotment_units > 0
          PROVE  ~(facts.usage.usage_units \div facts.usage.allotment_units
                     > USAGE_HEAVY_THRESHOLD)
      <3> DEFINE a == facts.usage.allotment_units
                 q == facts.usage.usage_units \div a
                 q2 == u \div a
      <3>1. a \in Nat /\ facts.usage.usage_units \in Nat /\ u \in Nat
        BY <1>0, <2>3, PolicyAssumption DEF BillingFacts, NoUsage
      <3>2. q2 >= q /\ q \in Int /\ q2 \in Int
        BY <2>1, <2>3, <3>1, ShareGrows
      <3>3. ~(q2 > USAGE_HEAVY_THRESHOLD)
        BY <1>a, <2>2, <2>3 DEF InOrder
      <3> HIDE DEF a, q, q2
      <3>4. ~(q > USAGE_HEAVY_THRESHOLD)
        BY <3>2, <3>3, SMT DEF USAGE_HEAVY_THRESHOLD
      <3> QED
        BY <3>4 DEF a, q
    <2> QED
      BY <1>a, <2>2, <2>3 DEF InOrder, NothingGivenBack
  <1>3. CASE Reversed
    <2>1. PICK r : r > facts.payment.reversed_amount
                     /\ r \in {facts.payment.amount \div 2, facts.payment.amount}
                     /\ facts' = [facts EXCEPT !.payment.reversed_amount = r]
      BY <1>3 DEF Reversed, Purchase
    <2>2. /\ facts'.payment.reversed_amount = r /\ facts'.payment.amount = facts.payment.amount
          /\ facts'.payment.captured = facts.payment.captured
          /\ facts'.usage = facts.usage /\ facts'.invoice = facts.invoice
          /\ facts'.entitlement = facts.entitlement /\ facts'.subscription = facts.subscription
      BY <1>0, <2>1 DEF BillingFacts, NoPayment
    <2>3. facts.payment.amount \in Int /\ facts.payment.reversed_amount \in Int
      <3>1. CASE facts.payment = NoPayment
        BY <3>1 DEF NoPayment
      <3>2. CASE facts.payment # NoPayment
        BY <1>0, <3>2 DEF BillingFacts
      <3> QED
        BY <3>1, <3>2
    <2>4. r \in Int
      BY <2>1, <2>3
    <2>5. ~(r > 0) => NothingGivenBack
      BY <2>1, <2>3, <2>4 DEF NothingGivenBack
    <2>6. facts.payment # NoPayment
      <3>1. ASSUME facts.payment = NoPayment PROVE FALSE
        BY <2>1, <3>1 DEF NoPayment
      <3> QED
        BY <3>1
    <2> QED
      BY <1>a, <2>2, <2>5, <2>6 DEF InOrder, NothingGivenBack
  <1>4. CASE Delivered
    <2>1. facts'.entitlement.delivered = TRUE
      BY <1>0, <1>4 DEF Delivered, Purchase, BillingFacts, NoEntitlement
    <2> QED
      BY <1>a, <2>1 DEF InOrder
  <1> QED
    BY <1>1, <1>2, <1>3, <1>4 DEF PurchaseStep

\* A step that clears no signal of the customer, and may add one.
KeepsSignals ==
  /\ signals'.found = signals.found
  /\ signals'.account_standing.segment = signals.account_standing.segment
  /\ Serious => Serious'
  /\ IsWatched => IsWatched'
  /\ IsNew => IsNew'
  /\ DeviceDiffers => DeviceDiffers'
  /\ PlaceDiffers => PlaceDiffers'
  /\ UnusualAmount => UnusualAmount'

LEMMA TrustIsNotGained ==
  ASSUME KeepsSignals, Trusted'
  PROVE  Trusted
  <1>1. (Cardinality(Weaker) <= 1 <=> AtMostOneWeaker)
          /\ (Cardinality(Weaker') <= 1 <=> AtMostOneWeaker')
    <2>1. Cardinality(Weaker) <= 1 <=> AtMostOneWeaker
      BY WeakerCount
    <2>2. (Cardinality(Weaker) <= 1 <=> AtMostOneWeaker)'
      BY WeakerCount, PTL
    <2> QED
      BY <2>1, <2>2
  <1>2. AtMostOneWeaker' => AtMostOneWeaker
    BY DEF KeepsSignals, AtMostOneWeaker
  <1> QED
    BY <1>1, <1>2 DEF KeepsSignals, Trusted

\* The steps that leave a serious signal behind.
LEMMA SeriousStep ==
  ASSUME PolicyInv,
         \/ Chargeback \/ AskedAgain \/ ActedOddly \/ TestedCards \/ DetailsDiffer
         \/ Restricted \/ Blocklisted
  PROVE  ~Trusted'
  <1>0. signals \in RiskSignals
    BY DEF PolicyInv
  <1> SUFFICES Serious'
    BY DEF Trusted
  <1>1. CASE Chargeback
    <2>1. /\ signals' = [signals EXCEPT !.refund_history.chargebacks = @ + 1]
          /\ signals.refund_history # NoHistory
      BY <1>1 DEF Chargeback, Customer
    <2>2. /\ signals'.refund_history.chargebacks = signals.refund_history.chargebacks + 1
          /\ signals.refund_history.chargebacks \in Nat
      BY <1>0, <2>1 DEF RiskSignals
    <2>3. signals'.refund_history.chargebacks > 0
      BY <2>2
    <2> QED
      BY <2>3 DEF Serious
  <1>2. CASE AskedAgain
    <2>1. PICK n \in {3, 5} :
            signals' = [signals EXCEPT !.behavioral.refund_requests_in_window = n]
      BY <1>2 DEF AskedAgain, Customer, VELOCITY_ELEVATED, VELOCITY_HIGH
    <2>2. signals'.behavioral.refund_requests_in_window = n
      BY <1>0, <2>1 DEF RiskSignals, NoBehavior
    <2>3. signals'.behavioral.refund_requests_in_window > 2
      BY <2>2
    <2> QED
      BY <2>3 DEF Serious
  <1>3. CASE ActedOddly
    <2>1. signals'.behavioral.anomaly_score = 70
      BY <1>0, <1>3 DEF ActedOddly, Customer, RiskSignals, NoBehavior, ANOMALY_ELEVATED
    <2>2. signals'.behavioral.anomaly_score >= 70
      BY <2>1
    <2> QED
      BY <2>2 DEF Serious
  <1>4. CASE TestedCards
    <2>1. signals'.payment_instrument.card_testing_pattern = TRUE
      BY <1>0, <1>4 DEF TestedCards, Customer, RiskSignals, NoInstrument
    <2> QED
      BY <2>1 DEF Serious
  <1>5. CASE DetailsDiffer
    <2>1. signals'.payment_instrument.billing_details_match = FALSE
      BY <1>0, <1>5 DEF DetailsDiffer, Customer, RiskSignals, NoInstrument
    <2> QED
      BY <2>1 DEF Serious
  <1>6. CASE Restricted
    <2>1. signals'.account_standing.status = "restricted"
      BY <1>0, <1>6 DEF Restricted, Customer, RiskSignals, NoStanding
    <2> QED
      BY <2>1 DEF Serious
  <1>7. CASE Blocklisted
    <2>1. signals'.on_blocklist = TRUE
      BY <1>0, <1>7 DEF Blocklisted, Customer, RiskSignals
    <2> QED
      BY <2>1 DEF Serious
  <1> QED
    BY <1>1, <1>2, <1>3, <1>4, <1>5, <1>6, <1>7

\* The steps that add a weaker signal, or none.
LEMMA WeakerStep ==
  ASSUME PolicyInv, DeviceChanged \/ PlaceChanged \/ Watched \/ AsksForMore
  PROVE  KeepsSignals
  <1>0. signals \in RiskSignals /\ requested \in Nat \cup {NoAmount}
    BY DEF PolicyInv
  <1>1. CASE DeviceChanged
    <2>1. /\ signals' = [signals EXCEPT !.behavioral.device_mismatch = TRUE]
          /\ requested' = requested
      BY <1>1 DEF DeviceChanged, Customer
    <2>2. /\ signals'.behavioral = [signals.behavioral EXCEPT !.device_mismatch = TRUE]
          /\ signals'.found = signals.found /\ signals'.on_blocklist = signals.on_blocklist
          /\ signals'.account_standing = signals.account_standing
          /\ signals'.refund_history = signals.refund_history
          /\ signals'.payment_instrument = signals.payment_instrument
      BY <1>0, <2>1 DEF RiskSignals
    <2>3. /\ signals'.behavioral.device_mismatch = TRUE
          /\ signals'.behavioral.refund_requests_in_window
               = signals.behavioral.refund_requests_in_window
          /\ signals'.behavioral.anomaly_score = signals.behavioral.anomaly_score
          /\ signals'.behavioral.ip_location_mismatch = signals.behavioral.ip_location_mismatch
          /\ signals'.behavioral.ip_country_mismatch = signals.behavioral.ip_country_mismatch
          /\ signals'.behavioral.typical_refund_amount = signals.behavioral.typical_refund_amount
      BY <1>0, <2>2 DEF RiskSignals, NoBehavior
    <2>4. UnusualAmount' <=> UnusualAmount
      BY <2>1, <2>3 DEF UnusualAmount, FP_009
    <2> QED
      BY <2>2, <2>3, <2>4 DEF KeepsSignals, Serious, IsWatched, IsNew, is_new,
                              DeviceDiffers, PlaceDiffers
  <1>2. CASE PlaceChanged
    <2>1. /\ signals' = [signals EXCEPT !.behavioral.ip_location_mismatch = TRUE]
          /\ requested' = requested
      BY <1>2 DEF PlaceChanged, Customer
    <2>2. /\ signals'.behavioral = [signals.behavioral EXCEPT !.ip_location_mismatch = TRUE]
          /\ signals'.found = signals.found /\ signals'.on_blocklist = signals.on_blocklist
          /\ signals'.account_standing = signals.account_standing
          /\ signals'.refund_history = signals.refund_history
          /\ signals'.payment_instrument = signals.payment_instrument
      BY <1>0, <2>1 DEF RiskSignals
    <2>3. /\ signals'.behavioral.ip_location_mismatch = TRUE
          /\ signals'.behavioral.refund_requests_in_window
               = signals.behavioral.refund_requests_in_window
          /\ signals'.behavioral.anomaly_score = signals.behavioral.anomaly_score
          /\ signals'.behavioral.device_mismatch = signals.behavioral.device_mismatch
          /\ signals'.behavioral.typical_refund_amount = signals.behavioral.typical_refund_amount
      BY <1>0, <2>2 DEF RiskSignals, NoBehavior
    <2>4. UnusualAmount' <=> UnusualAmount
      BY <2>1, <2>3 DEF UnusualAmount, FP_009
    <2> QED
      BY <2>2, <2>3, <2>4 DEF KeepsSignals, Serious, IsWatched, IsNew, is_new,
                              DeviceDiffers, PlaceDiffers
  <1>3. CASE Watched
    <2>1. /\ signals' = [signals EXCEPT !.account_standing.status = "watch"]
          /\ signals.account_standing.status = "good" /\ requested' = requested
      BY <1>3 DEF Watched, Customer
    <2>2. /\ signals'.account_standing = [signals.account_standing EXCEPT !.status = "watch"]
          /\ signals'.found = signals.found /\ signals'.on_blocklist = signals.on_blocklist
          /\ signals'.behavioral = signals.behavioral
          /\ signals'.refund_history = signals.refund_history
          /\ signals'.payment_instrument = signals.payment_instrument
      BY <1>0, <2>1 DEF RiskSignals
    <2>3. /\ signals'.account_standing.status = "watch"
          /\ signals'.account_standing.segment = signals.account_standing.segment
          /\ signals'.account_standing.tenure_days = signals.account_standing.tenure_days
          /\ signals'.account_standing # NoStanding
      BY <1>0, <2>2 DEF RiskSignals, NoStanding
    <2>4. UnusualAmount' <=> UnusualAmount
      BY <2>1, <2>2 DEF UnusualAmount, FP_009
    <2> QED
      BY <2>1, <2>2, <2>3, <2>4 DEF KeepsSignals, Serious, IsWatched, IsNew, is_new,
                                    DeviceDiffers, PlaceDiffers
  <1>4. CASE AsksForMore
    <2>1. PICK a \in Amounts : a > requested /\ requested' = a /\ signals' = signals
      BY <1>4 DEF AsksForMore
    <2>2. UnusualAmount => UnusualAmount'
      <3> DEFINE t == signals.behavioral.typical_refund_amount
      <3>1. t \in Int
        BY <1>0 DEF RiskSignals, NoBehavior, NoAmount
      <3>2. a \in Int /\ requested \in Int
        BY <1>0, PolicyAssumption DEF NoAmount
      <3> HIDE DEF t
      <3>3. UnusualAmount => t > 0 /\ requested >= t * 3
        BY DEF UnusualAmount, FP_009, t, UNUSUAL_AMOUNT_RATIO
      <3>4. t > 0 /\ requested >= t * 3 => a # NoAmount /\ a >= t * 3
        BY <2>1, <3>1, <3>2 DEF NoAmount
      <3>5. t > 0 /\ a # NoAmount /\ a >= t * 3 => UnusualAmount'
        BY <2>1 DEF UnusualAmount, FP_009, t, UNUSUAL_AMOUNT_RATIO
      <3> QED
        BY <3>3, <3>4, <3>5
    <2> QED
      BY <2>1, <2>2 DEF KeepsSignals, Serious, IsWatched, IsNew, is_new,
                        DeviceDiffers, PlaceDiffers
  <1> QED
    BY <1>1, <1>2, <1>3, <1>4

\* Time, use, a reversal, a delivery, a fraud signal or a higher amount never
\* make a refund out of a ticket that would not have got one.
THEOREM BadNeverHelps == Spec => NothingBadHelps
  <1> DEFINE Tightens == \A o \in Order :
        decision'[o].outcome = "approve_refund" => decision[o].outcome = "approve_refund"
  <1>1. ASSUME PolicyInv, PolicyInv', Next PROVE Tightens
    <2>1. Refunded' /\ Trusted' => Refunded /\ Trusted
      <3> SUFFICES ASSUME Refunded', Trusted' PROVE Refunded /\ Trusted
        OBVIOUS
      <3>1. CASE PurchaseStep
        <4>1. Refunded
          BY <1>1, <3>1, NotMoreRefunded
        <4>2. signals' = signals /\ requested' = requested
          BY <3>1, StepKinds
        <4>3. Trusted
          BY <4>2 DEF Trusted, Serious, Weaker
        <4> QED
          BY <4>1, <4>3
      <3>2. CASE CustomerStep
        <4>1. facts' = facts
          BY <3>2, StepKinds
        <4>2. Refunded
          BY <4>1 DEF Refunded, Refundable, RefundedAnyway, InOrder, NothingGivenBack,
                    EntitlementEnded
        <4>3. KeepsSignals
          BY <1>1, <3>2, SeriousStep, WeakerStep DEF CustomerStep
        <4> QED
          BY <4>2, <4>3, TrustIsNotGained
      <3> QED
        BY <1>1, <3>1, <3>2 DEF Next
    <2>2. ApprovalIsEarned
      BY <1>1, EarnedHere
    <2>3. ApprovalIsEarned'
      BY <1>1, EarnedHere, PTL
    <2> QED
      BY <2>1, <2>2, <2>3 DEF ApprovalIsEarned, Refunded
  <1>2. PolicyInv /\ PolicyInv' /\ [Next]_vars => [Tightens]_vars
    BY <1>1
  <1> QED
    BY <1>2, PolicyInvariance, PTL DEF Spec, NothingBadHelps

=============================================================================
