---------------------------- MODULE RiskScoring -----------------------------
(***************************************************************************)
(* The Risk and Fraud Agent's analysis: scoring.assess_signals() on the    *)
(* signals the agent owns about a customer, and the report built from it.  *)
(*                                                                         *)
(* Scores are whole hundredths.  The code adds floats, all of them whole   *)
(* tenths; no sum of its contributions falls on the other side of a        *)
(* threshold, or of the tolerance around it, because of rounding.          *)
(***************************************************************************)
EXTENDS PeerFindings

ELEVATED_THRESHOLD   == 50
HIGH_THRESHOLD       == 80
CHARGEBACK_ELEVATED  == 1
CHARGEBACK_HIGH      == 2
VELOCITY_ELEVATED    == 3
VELOCITY_HIGH        == 5
ANOMALY_ELEVATED     == 70
NEW_ACCOUNT_DAYS     == 30
UNUSUAL_AMOUNT_RATIO == 3

\* Python's None for an amount and for each of the signal domains; a missing
\* known_fraud record behaves as one that is not on the blocklist.
NoAmount     == -1
NoStanding   == [status |-> "none", tenure_days |-> -1, segment |-> "none"]
NoHistory    == [chargebacks |-> -1]
NoInstrument == [present |-> FALSE, billing_details_match |-> TRUE,
                 card_testing_pattern |-> FALSE]
NoBehavior   == [refund_requests_in_window |-> -1, anomaly_score |-> 0,
                 device_mismatch |-> FALSE, ip_location_mismatch |-> FALSE,
                 ip_country_mismatch |-> FALSE, typical_refund_amount |-> NoAmount]

\* The signals of a customer; found is FALSE for an unknown one.
RiskSignals ==
  [found : BOOLEAN,
   account_standing : {NoStanding} \cup
     [status : {"good", "watch", "restricted"}, tenure_days : Int,
      segment : {"standard", "vip", "enterprise"}],
   refund_history : {NoHistory} \cup [chargebacks : Nat],
   payment_instrument : {NoInstrument} \cup
     [present : {TRUE}, billing_details_match : BOOLEAN, card_testing_pattern : BOOLEAN],
   behavioral : {NoBehavior} \cup
     [refund_requests_in_window : Nat, anomaly_score : Score, device_mismatch : BOOLEAN,
      ip_location_mismatch : BOOLEAN, ip_country_mismatch : BOOLEAN,
      typical_refund_amount : Nat \cup {NoAmount}],
   on_blocklist : BOOLEAN]

\* load_signals() found no record of the customer.
NoSignals == [found |-> FALSE, account_standing |-> NoStanding, refund_history |-> NoHistory,
              payment_instrument |-> NoInstrument, behavioral |-> NoBehavior,
              on_blocklist |-> FALSE]

-----------------------------------------------------------------------------
\* The contributions of the rules.  The highest tier of a rule counts once.

\* Mutant: a single chargeback weighs as little as a new device.
FP_002_lenient(s) ==
  CASE s.refund_history.chargebacks >= CHARGEBACK_HIGH -> 80
    [] s.refund_history.chargebacks \in CHARGEBACK_ELEVATED .. CHARGEBACK_HIGH - 1 -> 40
    [] OTHER -> 0

FP_002(s) ==
  CASE s.refund_history.chargebacks >= CHARGEBACK_HIGH -> 80
    [] s.refund_history.chargebacks \in CHARGEBACK_ELEVATED .. CHARGEBACK_HIGH - 1 -> 50
    [] OTHER -> 0

FP_003(s) ==
  LET n == s.behavioral.refund_requests_in_window IN
  CASE n >= VELOCITY_HIGH -> 80
    [] n \in VELOCITY_ELEVATED .. VELOCITY_HIGH - 1 -> 50
    [] OTHER -> 0

FP_004(s) ==
  CASE s.payment_instrument.card_testing_pattern -> 60
    [] ~s.payment_instrument.card_testing_pattern
         /\ ~s.payment_instrument.billing_details_match -> 50
    [] OTHER -> 0

is_new(standing) == standing # NoStanding /\ standing.tenure_days < NEW_ACCOUNT_DAYS

\* Mutant: a new account counts only while nothing else is held against it.
FP_005_not_additive(s) ==
  CASE s.account_standing.status = "restricted" -> 60
    [] s.account_standing.status = "watch" -> 30
    [] s.account_standing.status = "good" /\ is_new(s.account_standing) -> 30
    [] OTHER -> 0

\* A new account weighs on top of a watched one, not on a restricted one.
FP_005(s) ==
  LET new == IF is_new(s.account_standing) THEN 30 ELSE 0 IN
  CASE s.account_standing.status = "restricted" -> 60
    [] s.account_standing.status = "watch" -> 30 + new
    [] OTHER -> new

FP_006(s) == IF s.behavioral.anomaly_score >= ANOMALY_ELEVATED THEN 50 ELSE 0
FP_007(s) == IF s.behavioral.device_mismatch THEN 40 ELSE 0
FP_008(s) ==
  IF s.behavioral.ip_location_mismatch \/ s.behavioral.ip_country_mismatch THEN 40 ELSE 0

FP_009(s, requested_refund_amount) ==
  LET typical == s.behavioral.typical_refund_amount IN
  IF /\ typical > 0
     /\ requested_refund_amount # NoAmount
     /\ requested_refund_amount >= typical * UNUSUAL_AMOUNT_RATIO
    THEN 30 ELSE 0

compute_score(s, requested) ==
  LET sum == FP_002(s) + FP_003(s) + FP_004(s) + FP_005(s) + FP_006(s)
               + FP_007(s) + FP_008(s) + FP_009(s, requested)
  IN  IF sum > 100 THEN 100 ELSE sum

score_to_level(score) ==
  IF score >= HIGH_THRESHOLD THEN "high"
  ELSE IF score >= ELEVATED_THRESHOLD THEN "elevated" ELSE "low"

\* A clean account of long standing asks for refunds at a high rate on an
\* instrument that is not its own.
is_contradiction(s) ==
  /\ s.account_standing.status = "good"
  /\ ~is_new(s.account_standing)
  /\ s.refund_history.chargebacks <= 0
  /\ s.behavioral.refund_requests_in_window >= VELOCITY_HIGH
  /\ ~s.payment_instrument.billing_details_match

\* Nothing is known of past refunds although other signals are there.
missing_history(s) ==
  /\ s.refund_history = NoHistory
  /\ \/ s.account_standing # NoStanding
     \/ s.payment_instrument # NoInstrument
     \/ s.behavioral # NoBehavior

Assess(level, confidence, review) ==
  [risk_level |-> level, confidence |-> confidence, requires_human_review |-> review]

\* A score on a threshold takes the upper band with less confidence; prior
\* chargebacks on an elevated level call for a person.
score_assessment(s, requested) ==
  LET score == compute_score(s, requested)
      level == score_to_level(score)
  IN  Assess(level,
             IF score \in {ELEVATED_THRESHOLD, HIGH_THRESHOLD} \/ missing_history(s)
               THEN 60 ELSE 90,
             level = "elevated" /\ s.refund_history.chargebacks >= CHARGEBACK_ELEVATED)

\* Mutant: the segment of an account does not matter.
assess_signals_all_standard(s, requested) ==
  IF s.on_blocklist
    THEN Assess("high", 95, FALSE)
  ELSE IF is_contradiction(s)
    THEN Assess("elevated", 30, TRUE)
  ELSE score_assessment(s, requested)

assess_signals(s, requested) ==
  IF s.on_blocklist
    THEN Assess("high", 95, FALSE)
  ELSE IF s.account_standing.segment \in {"vip", "enterprise"}
    THEN Assess(score_to_level(compute_score(s, requested)), 70, TRUE)
  ELSE IF is_contradiction(s)
    THEN Assess("elevated", 30, TRUE)
  ELSE score_assessment(s, requested)

assess(s, requested) ==
  IF s.found THEN assess_signals(s, requested) ELSE Assess("low", 20, TRUE)

\* The wire field "recommendation" is the risk level.
risk_report(a) ==
  [recommendation |-> a.risk_level, requires_human_review |-> a.requires_human_review,
   confidence |-> a.confidence]
=============================================================================
