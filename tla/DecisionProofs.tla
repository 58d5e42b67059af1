--------------------------- MODULE DecisionProofs ---------------------------
(***************************************************************************)
(* decide() follows 003's decision policy unless 006's combined rule       *)
(* overrules it, and is monotone, for every input the agent can call it    *)
(* with: every triage, every pair of findings with a confidence on the     *)
(* contracts' scale, every timeout status.  DecideTable restates the       *)
(* ordered rows of decide() as one condition, that both opinions are       *)
(* usable, and one table; the two properties follow from it.               *)
(***************************************************************************)
EXTENDS MCDecisionEngine, TLAPS

\* A finding made from a report always carries a confidence.
BillingOK(b) ==
  \/ b = NoBilling
  \/ b \in [eligibility : Eligibility, requires_human_review : BOOLEAN, confidence : Score]

RiskOK(r) ==
  \/ r = NoRisk
  \/ r \in [level : RiskLevel, requires_human_review : BOOLEAN, score : Score]

\* The inductive invariant: the inputs are well formed, the verdict is current.
EngineInv ==
  /\ triage \in Triage /\ timeout \in TimeoutStatus
  /\ BillingOK(billing) /\ RiskOK(risk)
  /\ verdict = decide(triage, billing, risk, timeout)

-----------------------------------------------------------------------------

\* The least of the certainties is below the threshold when one of them is.
LEMMA ConfidenceTest ==
  ASSUME NEW t \in Triage, NEW b, NEW r, b.confidence \in Score, r.score \in Score
  PROVE  compute_confidence(t, b, r) < CONFIDENCE_THRESHOLD
           <=> t.confidence < 60 \/ b.confidence < 60 \/ r.score > 40
  <1> DEFINE least == compute_confidence(t, b, r)
             x == t.confidence
             y == b.confidence
             z == 100 - r.score
  <1>1. x \in Int /\ y \in Int /\ z \in Int /\ b.confidence # NoScore /\ r.score # NoScore
    BY DEF Score, NoScore, Triage
  <1>2. {t.confidence} \cup ({b.confidence} \ {NoScore})
           \cup {100 - s : s \in {r.score} \ {NoScore}} = {x, y, z}
    BY <1>1
  <1>3. least = CHOOSE m \in {x, y, z} : \A s \in {x, y, z} : m <= s
    BY <1>2 DEF compute_confidence
  <1>4. z < 60 <=> r.score > 40
    BY DEF Score
  <1> HIDE DEF x, y, z
  <1>5. \E m \in {x, y, z} : \A s \in {x, y, z} : m <= s
    BY <1>1
  <1>6. least \in {x, y, z} /\ \A s \in {x, y, z} : least <= s
    BY <1>3, <1>5
  <1> HIDE DEF least
  <1>7. least < 60 <=> x < 60 \/ y < 60 \/ z < 60
    BY <1>1, <1>6
  <1> QED
    BY <1>4, <1>7 DEF CONFIDENCE_THRESHOLD, least, x, y

\* Both opinions are in, neither asks for a person, and no certainty is low.
Conclusive(t, b, r, ts) ==
  /\ ~ts.any_missing /\ b # NoBilling /\ r # NoRisk
  /\ ~b.requires_human_review /\ ~r.requires_human_review
  /\ ~(t.confidence < 60) /\ ~(b.confidence < 60) /\ ~(r.score > 40)

\* The rows of decide() as one condition and one table.
LEMMA DecideTable ==
  ASSUME NEW t \in Triage, NEW b, NEW r, NEW ts \in TimeoutStatus, BillingOK(b), RiskOK(r)
  PROVE  LET v == decide(t, b, r, ts) IN
         /\ ~t.needs_refund_review => v.outcome = "direct_response"
         /\ t.needs_refund_review /\ Conclusive(t, b, r, ts)
              => v = combine(b.eligibility, r.level)
         /\ t.needs_refund_review /\ ~Conclusive(t, b, r, ts)
              => v.outcome = "escalate_human" /\ v.escalation_reason # "none"
  <1> DEFINE v == decide(t, b, r, ts)
             low == compute_confidence(t, b, r) < CONFIDENCE_THRESHOLD
  <1>1. /\ \A o : Resolve(o).outcome = o
        /\ \A x : Escalate(x).outcome = "escalate_human" /\ Escalate(x).escalation_reason = x
    BY DEF Resolve, Escalate
  <1>2. CASE ~t.needs_refund_review
    BY <1>1, <1>2 DEF decide
  <1>3. CASE t.needs_refund_review /\ (ts.any_missing \/ b = NoBilling \/ r = NoRisk)
    <2>1. v = Escalate("analysis_timeout") \/ v = Escalate("missing_analysis")
      BY <1>3 DEF decide
    <2> QED
      BY <1>1, <1>3, <2>1 DEF Conclusive
  <1>4. CASE /\ t.needs_refund_review /\ ~ts.any_missing /\ b # NoBilling /\ r # NoRisk
             /\ b.requires_human_review \/ r.requires_human_review
    <2>1. v = Escalate("peer_requested_review")
      BY <1>4 DEF decide
    <2> QED
      BY <1>1, <1>4, <2>1 DEF Conclusive
  <1>5. CASE /\ t.needs_refund_review /\ ~ts.any_missing /\ b # NoBilling /\ r # NoRisk
             /\ ~b.requires_human_review /\ ~r.requires_human_review
    <2>1. b.confidence \in Score /\ r.score \in Score
      BY <1>5 DEF BillingOK, RiskOK
    <2>2. low <=> ~Conclusive(t, b, r, ts)
      BY <1>5, <2>1, ConfidenceTest DEF Conclusive
    <2>3. v = IF low THEN Escalate("low_confidence") ELSE combine(b.eligibility, r.level)
      BY <1>5 DEF decide
    <2>4. CASE low
      <3>1. v = Escalate("low_confidence")
        BY <2>3, <2>4
      <3> QED
        BY <1>1, <1>5, <2>2, <2>4, <3>1
    <2>5. CASE ~low
      <3>1. v = combine(b.eligibility, r.level)
        BY <2>3, <2>5
      <3> QED
        BY <1>5, <2>2, <2>5, <3>1
    <2> QED
      BY <2>4, <2>5
  <1> QED
    BY <1>2, <1>3, <1>4, <1>5

\* The two-way table of rows 4 to 8.
LEMMA CombineTable ==
  ASSUME NEW e \in Eligibility, NEW l \in RiskLevel
  PROVE  LET o == combine(e, l).outcome IN
         /\ o = "approve_refund" <=> e = "eligible" /\ l = "low"
         /\ o = "deny_refund" <=> e = "ineligible" /\ l # "low"
         /\ o = "offer_partial_credit" <=> e = "partial" /\ l # "high"
         /\ o = "request_more_information" <=> e = "indeterminate"
         /\ o # "direct_response" /\ o \in Outcome
         /\ o = "escalate_human" => combine(e, l).escalation_reason # "none"
  <1>1. /\ \A o : Resolve(o).outcome = o
        /\ \A x : Escalate(x).outcome = "escalate_human" /\ Escalate(x).escalation_reason = x
    BY DEF Resolve, Escalate
  <1>2. e \in {"eligible", "partial", "ineligible", "indeterminate"}
    BY DEF Eligibility
  <1>3. l \in {"low", "elevated", "high"}
    BY DEF RiskLevel
  <1> QED
    BY <1>1, <1>2, <1>3 DEF combine, Outcome

-----------------------------------------------------------------------------

LEMMA EngineInit == Init => EngineInv
  <1> SUFFICES ASSUME Init PROVE EngineInv
    OBVIOUS
  <1>1. triage \in Triage
    BY ConfidencesAssumption DEF Init, Triage
  <1>2. BillingOK(billing)
    <2>1. CASE billing = NoBilling
      BY <2>1 DEF BillingOK
    <2>2. ASSUME NEW r \in [recommendation : BillingRecommendation, usage_level : UsageLevel,
                            requires_human_review : BOOLEAN, confidence : Confidences],
                 billing = billing_finding(r)
          PROVE  BillingOK(billing)
      <3>1. billing_eligibility(r) \in Eligibility
        BY DEF billing_eligibility, Eligibility
      <3> QED
        BY <2>2, <3>1, ConfidencesAssumption DEF billing_finding, BillingOK
    <2> QED
      BY <2>1, <2>2 DEF Init
  <1>3. RiskOK(risk)
    <2>1. CASE risk = NoRisk
      BY <2>1 DEF RiskOK
    <2>2. ASSUME NEW r \in [recommendation : RiskRecommendation,
                            requires_human_review : BOOLEAN, confidence : Confidences],
                 risk = risk_finding(r)
          PROVE  RiskOK(risk)
      <3>1. risk_level(r) \in RiskLevel
        BY DEF risk_level, risk_level_from_score, RiskLevel
      <3>2. uncertainty_from_confidence(r.confidence) \in Score
        <4>1. r.confidence \in Score
          BY ConfidencesAssumption
        <4> QED
          BY <4>1 DEF uncertainty_from_confidence, Score
      <3> QED
        BY <2>2, <3>1, <3>2 DEF risk_finding, RiskOK
    <2> QED
      BY <2>1, <2>2 DEF Init
  <1> QED
    BY <1>1, <1>2, <1>3 DEF Init, EngineInv

\* What any degradation leaves true: an opinion that is still there says the
\* same, and a conclusive case was conclusive before.
Weaker(b, r) ==
  /\ b = NoBilling \/ (billing # NoBilling /\ b.eligibility = billing.eligibility)
  /\ r = NoRisk \/ (risk # NoRisk /\ r.level = risk.level)

LEMMA Degrades ==
  ASSUME EngineInv, DegradeQuality
  PROVE  /\ triage' = triage /\ timeout' \in TimeoutStatus
         /\ BillingOK(billing') /\ RiskOK(risk') /\ Weaker(billing', risk')
         /\ Conclusive(triage', billing', risk', timeout')
              => Conclusive(triage, billing, risk, timeout)
  <1> USE DEF EngineInv
  <1>1. CASE LoseBilling
    BY <1>1 DEF LoseBilling, Weaker, Conclusive, BillingOK
  <1>2. CASE LoseRisk
    BY <1>2 DEF LoseRisk, Weaker, Conclusive, RiskOK
  <1>3. CASE MissDeadline
    BY <1>3 DEF MissDeadline, Weaker, Conclusive, TimeoutStatus
  <1>4. CASE AskForReview
    BY <1>4 DEF AskForReview, Weaker, Conclusive, BillingOK
  <1>5. CASE DoubtBilling
    <2>1. PICK c \in Confidences :
            c < billing.confidence /\ billing' = [billing EXCEPT !.confidence = c]
      BY <1>5 DEF DoubtBilling
    <2>2. /\ billing # NoBilling /\ c \in Score /\ billing.confidence \in Score
          /\ BillingOK(billing') /\ billing'.eligibility = billing.eligibility
          /\ billing'.confidence = c
          /\ billing'.requires_human_review = billing.requires_human_review
          /\ UNCHANGED <<triage, risk, timeout>>
      BY <1>5, <2>1, ConfidencesAssumption DEF DoubtBilling, BillingOK
    <2>3. billing.confidence < 60 => billing'.confidence < 60
      BY <2>1, <2>2 DEF Score
    <2> QED
      BY <2>2, <2>3 DEF Weaker, Conclusive
  <1>6. CASE DoubtRisk
    <2>1. PICK c \in Confidences :
            /\ uncertainty_from_confidence(c) > risk.score
            /\ risk' = [risk EXCEPT !.score = uncertainty_from_confidence(c)]
      BY <1>6 DEF DoubtRisk
    <2> DEFINE u == uncertainty_from_confidence(c)
    <2>2. u \in Score
      BY ConfidencesAssumption DEF uncertainty_from_confidence, Score
    <2>3. /\ risk # NoRisk /\ risk.score \in Score
          /\ RiskOK(risk') /\ risk'.level = risk.level /\ risk'.score = u
          /\ risk'.requires_human_review = risk.requires_human_review
          /\ UNCHANGED <<triage, billing, timeout>>
      BY <1>6, <2>1, <2>2 DEF DoubtRisk, RiskOK
    <2>4. risk.score > 40 => risk'.score > 40
      BY <2>1, <2>2, <2>3 DEF Score
    <2> QED
      BY <2>3, <2>4 DEF Weaker, Conclusive
  <1> QED
    BY <1>1, <1>2, <1>3, <1>4, <1>5, <1>6 DEF DegradeQuality

LEMMA Raises ==
  ASSUME EngineInv, RaiseRisk
  PROVE  /\ triage' = triage /\ timeout' \in TimeoutStatus
         /\ BillingOK(billing') /\ RiskOK(risk') /\ risk'.level = "high"
  BY DEF EngineInv, RaiseRisk, RiskOK, NoRisk, RiskLevel

\* Every input a behavior reaches is one the agent can call decide() with.
THEOREM EngineInvariance == Spec => []EngineInv
  <1>1. EngineInv /\ [Next]_vars => EngineInv'
    <2> SUFFICES ASSUME EngineInv, [Next]_vars PROVE EngineInv'
      OBVIOUS
    <2>1. CASE UNCHANGED vars
      BY <2>1 DEF EngineInv, vars
    <2>2. CASE Next
      BY <2>2, Degrades, Raises DEF Next, EngineInv
    <2> QED
      BY <2>1, <2>2
  <1> QED
    BY <1>1, EngineInit, PTL DEF Spec

\* On every well-formed input the ordered rows of decide() give the outcome of
\* 003's decision policy, or the one by which 006's combined rule overrules it.
THEOREM FollowsThePolicy == Spec => []FollowsPolicyUnlessOverruled
  <1>1. EngineInv => FollowsPolicyUnlessOverruled
    <2> SUFFICES ASSUME EngineInv PROVE FollowsPolicyUnlessOverruled
      OBVIOUS
    <2> DEFINE o == verdict.outcome
               e == billing.eligibility
               l == risk.level
               needs == triage.needs_refund_review
               conclusive == Conclusive(triage, billing, risk, timeout)
    <2>1. /\ ~needs => o = "direct_response"
          /\ needs /\ conclusive => verdict = combine(e, l)
          /\ needs /\ ~conclusive
               => o = "escalate_human" /\ verdict.escalation_reason # "none"
      BY DecideTable DEF EngineInv
    <2>2. conclusive <=> Heard /\ Sure
      <3>1. triage.confidence >= 60 <=> ~(triage.confidence < 60)
        BY DEF EngineInv, Triage, Score
      <3>2. CASE billing # NoBilling /\ risk # NoRisk
        <4>1. billing.confidence \in Score /\ risk.score \in Score
          BY <3>2 DEF EngineInv, BillingOK, RiskOK
        <4>2. billing.confidence \in {NoScore} \cup (60 .. 100) <=> ~(billing.confidence < 60)
          BY <4>1 DEF Score, NoScore
        <4>3. risk.score \in {NoScore} \cup (0 .. 40) <=> ~(risk.score > 40)
          BY <4>1 DEF Score, NoScore
        <4> QED
          BY <3>1, <3>2, <4>2, <4>3, Zenon DEF Conclusive, Heard, Sure
      <3>3. CASE billing = NoBilling \/ risk = NoRisk
        BY <3>3, Zenon DEF Conclusive, Heard
      <3> QED
        BY <3>2, <3>3
    <2>3. Heard => e \in {"eligible", "partial", "ineligible", "indeterminate"}
                    /\ l \in {"low", "elevated", "high"}
      BY DEF EngineInv, BillingOK, RiskOK, Heard, Eligibility, RiskLevel
    <2>4. needs \in BOOLEAN
      BY DEF EngineInv, Triage
    <2>5. CASE ~needs
      BY <2>1, <2>5 DEF FollowsPolicyUnlessOverruled, Overruling, PolicyOutcome
    <2>6. CASE needs /\ ~Heard
      BY <2>1, <2>2, <2>6 DEF FollowsPolicyUnlessOverruled, Overruling, PolicyOutcome
    <2>7. CASE needs /\ Heard /\ ~Sure
      BY <2>1, <2>2, <2>7 DEF FollowsPolicyUnlessOverruled, Overruling
    <2>8. CASE needs /\ Heard /\ Sure
      <3>1. verdict = combine(e, l)
        BY <2>1, <2>2, <2>8
      <3>2. /\ o = "approve_refund" <=> e = "eligible" /\ l = "low"
            /\ o = "deny_refund" <=> e = "ineligible" /\ l # "low"
            /\ o = "offer_partial_credit" <=> e = "partial" /\ l # "high"
            /\ o = "request_more_information" <=> e = "indeterminate"
            /\ o # "direct_response" /\ o \in Outcome
            /\ o = "escalate_human" => verdict.escalation_reason # "none"
        BY <2>3, <2>8, <3>1, CombineTable DEF Eligibility, RiskLevel
      <3> HIDE DEF o, e, l, conclusive
      <3>3. CASE Overruling = {}
        <4>1. ~(e = "ineligible") /\ ~(e = "partial" /\ l # "high") /\ e # "indeterminate"
          BY <2>8, <3>3 DEF Overruling, e, l
        <4>2. o = PolicyOutcome
          <5>1. CASE e = "eligible" /\ l = "low"
            BY <2>8, <3>2, <5>1 DEF PolicyOutcome, e, l
          <5>2. CASE ~(e = "eligible" /\ l = "low")
            <6>1. o = "escalate_human"
              BY <3>2, <4>1, <5>2 DEF Outcome
            <6>2. PolicyOutcome = "escalate_human"
              BY <2>8, <4>1, <5>2 DEF PolicyOutcome, e, l
            <6> QED
              BY <6>1, <6>2
          <5> QED
            BY <5>1, <5>2
        <4> QED
          BY <3>2, <3>3, <4>2 DEF FollowsPolicyUnlessOverruled, o
      <3>4. CASE Overruling # {}
        <4>1. o \in Overruling
          <5>1. CASE e = "ineligible" /\ l = "low"
            <6>1. o = "escalate_human"
              BY <3>2, <5>1 DEF Outcome
            <6> QED
              BY <2>8, <5>1, <6>1 DEF Overruling, e, l
          <5>2. CASE e = "ineligible" /\ l # "low"
            BY <2>8, <3>2, <5>2 DEF Overruling, e, l
          <5>3. CASE e = "partial" /\ l # "high"
            BY <2>8, <3>2, <5>3 DEF Overruling, e, l
          <5>4. CASE e = "indeterminate"
            BY <2>8, <3>2, <5>4 DEF Overruling, e, l
          <5>5. CASE e # "ineligible" /\ ~(e = "partial" /\ l # "high") /\ e # "indeterminate"
            BY <2>8, <3>4, <5>5 DEF Overruling, e, l
          <5> QED
            BY <5>1, <5>2, <5>3, <5>4, <5>5
        <4> QED
          BY <3>2, <3>4, <4>1 DEF FollowsPolicyUnlessOverruled, o
      <3> QED
        BY <3>3, <3>4
    <2> QED
      BY <2>4, <2>5, <2>6, <2>7, <2>8
  <1> QED
    BY <1>1, EngineInvariance, PTL

\* decide() is monotone: losing or doubting an opinion changes an outcome only
\* into an escalation, and a higher risk makes no approval.
THEOREM DegradationIsMonotone == Spec => DegradationNeverRelaxes
  <1> DEFINE Tightens ==
        /\ DegradeQuality => verdict'.outcome \in {verdict.outcome, "escalate_human"}
        /\ verdict'.outcome = "approve_refund" => verdict.outcome = "approve_refund"
  <1>1. EngineInv /\ Next => Tightens
    <2> SUFFICES ASSUME EngineInv, Next PROVE Tightens
      OBVIOUS
    <2> DEFINE table == combine(billing.eligibility, risk.level)
               table2 == combine(billing'.eligibility, risk'.level)
               now == Conclusive(triage, billing, risk, timeout)
               then == Conclusive(triage', billing', risk', timeout')
    <2>1. verdict' = decide(triage', billing', risk', timeout') /\ (DegradeQuality \/ RaiseRisk)
      BY DEF Next
    <2>2. /\ ~triage.needs_refund_review => verdict.outcome = "direct_response"
          /\ triage.needs_refund_review /\ now => verdict = table
          /\ triage.needs_refund_review /\ ~now => verdict.outcome = "escalate_human"
      BY DecideTable DEF EngineInv
    <2>3. triage' = triage /\ triage \in Triage /\ timeout' \in TimeoutStatus
            /\ BillingOK(billing') /\ RiskOK(risk')
      BY <2>1, Degrades, Raises DEF EngineInv
    <2>4. /\ ~triage.needs_refund_review => verdict'.outcome = "direct_response"
          /\ triage.needs_refund_review /\ then => verdict' = table2
          /\ triage.needs_refund_review /\ ~then => verdict'.outcome = "escalate_human"
      BY <2>1, <2>3, DecideTable
    <2>5. CASE DegradeQuality
      <3>1. then => now /\ table2 = table
        BY <2>5, Degrades DEF Weaker, Conclusive
      <3> HIDE DEF now, then, table, table2
      <3>2. verdict'.outcome \in {verdict.outcome, "escalate_human"}
        BY <2>2, <2>4, <3>1
      <3> QED
        BY <3>2
    <2>6. CASE RaiseRisk /\ ~DegradeQuality
      <3>1. then => table2.outcome # "approve_refund"
        <4> SUFFICES ASSUME then PROVE table2.outcome # "approve_refund"
          OBVIOUS
        <4>1. billing'.eligibility \in Eligibility /\ risk'.level = "high"
          BY <2>3, <2>6, Raises DEF Conclusive, BillingOK
        <4> QED
          BY <4>1, CombineTable DEF RiskLevel
      <3> HIDE DEF now, then, table, table2
      <3> QED
        BY <2>2, <2>4, <2>6, <3>1
    <2> QED
      BY <2>1, <2>5, <2>6
  <1>2. EngineInv /\ [Next]_vars => [Tightens]_vars
    BY <1>1
  <1> QED
    BY <1>2, EngineInvariance, PTL DEF Spec, DegradationNeverRelaxes
=============================================================================
