---------------------------- MODULE EvidenceProofs ----------------------------
(***************************************************************************)
(* What a published decision rests on, and the safety part of the promise  *)
(* of CaseDecision, for any number of cases, reports and redeliveries.     *)
(*                                                                         *)
(* A claimed decision is justified by the case when it is taken, and the   *)
(* case is settled from then on.  By CustomerResolutionProofs its opinions *)
(* no longer change, so that the decision stays justified until it is on   *)
(* the topic and ever after.  A decision without a claim needs no          *)
(* opinions.                                                               *)
(***************************************************************************)
EXTENDS CustomerResolutionProofs, SequenceTheorems

\* Case record k bears out what decision d says.
Backed(d, k) ==
  /\ BearsOut(k, d.escalation_reason)
  /\ d.escalation_reason # "peer_failure"
  /\ d.outcome = "approve_refund" =>
       /\ k.pending_tasks = {}
       /\ k.billing_result.eligibility = "eligible" /\ k.risk_result.level = "low"
       /\ ~k.billing_result.requires_human_review /\ ~k.risk_result.requires_human_review
       /\ k.billing_result.confidence >= CONFIDENCE_THRESHOLD
       /\ 100 - k.risk_result.score >= CONFIDENCE_THRESHOLD

\* Decision d is justified by case record k and f faults.
Justified(d, k, f) ==
  /\ d.claimed => Backed(d, k)
  /\ ~d.claimed => /\ d.outcome # "approve_refund"
                   /\ d.escalation_reason \in {"none", "peer_failure"}
                   /\ d.escalation_reason = "peer_failure" => f > 0

Alarming(r) == r.level \in {"elevated", "high"} \/ r.requires_human_review

\* A slot of a delegated case is pending, has failed or has its finding, and a
\* finding that came with a report has a confidence.  A case that can still be
\* decided keeps an alarming risk finding only after billing's ineligible.
SlotsFor(k) ==
  /\ k.delegated => /\ "billing" \in k.pending_tasks \cup k.slot_failed
                         \/ k.billing_result # NoBilling
                    /\ "risk" \in k.pending_tasks \cup k.slot_failed
                         \/ k.risk_result # NoRisk
  /\ k.billing_result = NoBilling \/ k.billing_result.confidence \in Score
  /\ k.risk_result = NoRisk \/ k.risk_result.score \in Score
  /\ ~k.delegated \/ "billing" \in k.pending_tasks => k.billing_result = NoBilling
  /\ ~k.delegated => k.risk_result = NoRisk /\ k.pending_tasks = {}
  /\ Alarming(k.risk_result) => Settled(k.status) \/ k.billing_result.eligibility = "ineligible"

EvidenceFor(c) ==
  /\ SlotsFor(cases[c])
  /\ c \in sweep => cases[c].deadline = "passed"
  /\ \A l \in Loops : Emitting(l, c) => Justified(verdict[l][c], cases[c], faults)
  /\ \A i \in DOMAIN decided[c] : Justified(decided[c][i], cases[c], faults)

Evidence == \A c \in Cases : EvidenceFor(c)

-----------------------------------------------------------------------------
\* What a decision rests on when it is taken.

\* The least of the certainties is below the threshold when one of them is.
LEMMA LeastCertainty ==
  ASSUME NEW t \in Triage, NEW b, NEW r, b.confidence \in Score, r.score \in Score
  PROVE  compute_confidence(t, b, r) < CONFIDENCE_THRESHOLD
           <=> t.confidence < 60 \/ b.confidence < 60 \/ r.score > 40
  <1> DEFINE least == compute_confidence(t, b, r)
             x == t.confidence
             y == b.confidence
             z == 100 - r.score
  <1>1. x \in Int /\ y \in Int /\ z \in Int /\ b.confidence # NoScore /\ r.score # NoScore
    BY DEF Score, NoScore, Triage
  <1>2. {t.confidence} \cup ({b.confidence} \ {NoScore})
           \cup {100 - s : s \in {r.score} \ {NoScore}} = {x, y, z}
    BY <1>1
  <1>3. least = CHOOSE m \in {x, y, z} : \A s \in {x, y, z} : m <= s
    BY <1>2 DEF compute_confidence
  <1>4. z < 60 <=> r.score > 40
    BY DEF Score
  <1> HIDE DEF x, y, z
  <1>5. \E m \in {x, y, z} : \A s \in {x, y, z} : m <= s
    BY <1>1
  <1>6. least \in {x, y, z} /\ \A s \in {x, y, z} : least <= s
    BY <1>3, <1>5
  <1> HIDE DEF least
  <1>7. least < 60 <=> x < 60 \/ y < 60 \/ z < 60
    BY <1>1, <1>6
  <1> QED
    BY <1>4, <1>7 DEF CONFIDENCE_THRESHOLD, least, x, y

\* decide() approves only on the full evidence.
LEMMA ApprovalNeeds ==
  ASSUME NEW t \in Triage, NEW b, NEW r, NEW ts,
         b = NoBilling \/ b.confidence \in Score, r = NoRisk \/ r.score \in Score,
         decide(t, b, r, ts).outcome = "approve_refund"
  PROVE  /\ ~ts.any_missing /\ b.eligibility = "eligible" /\ r.level = "low"
         /\ ~b.requires_human_review /\ ~r.requires_human_review
         /\ b.confidence >= CONFIDENCE_THRESHOLD
         /\ 100 - r.score >= CONFIDENCE_THRESHOLD
  <1> DEFINE least == compute_confidence(t, b, r)
  <1>1. \A o : Resolve(o).outcome = o
    BY DEF Resolve
  <1>2. \A x : Escalate(x).outcome = "escalate_human"
    BY DEF Escalate
  <1>3. /\ t.needs_refund_review /\ ~ts.any_missing /\ b # NoBilling /\ r # NoRisk
        /\ ~b.requires_human_review /\ ~r.requires_human_review
        /\ ~(least < CONFIDENCE_THRESHOLD)
        /\ combine(b.eligibility, r.level).outcome = "approve_refund"
    BY <1>1, <1>2 DEF decide
  <1>4. b.eligibility = "eligible" /\ r.level = "low"
    BY <1>1, <1>2, <1>3 DEF combine
  <1>5. b.confidence \in Score /\ r.score \in Score /\ t.confidence \in Score
    BY <1>3 DEF Triage
  <1>6. ~(b.confidence < 60) /\ ~(r.score > 40)
    BY <1>3, <1>5, LeastCertainty
  <1>7. b.confidence >= CONFIDENCE_THRESHOLD /\ 100 - r.score >= CONFIDENCE_THRESHOLD
    BY <1>5, <1>6 DEF CONFIDENCE_THRESHOLD, Score
  <1> QED
    BY <1>3, <1>4, <1>7

\* What each reason of decide() says of its inputs.
LEMMA ReasonNeeds ==
  ASSUME NEW t \in Triage, NEW b \in BillingFinding \cup {NoBilling},
         NEW r \in RiskFinding \cup {NoRisk}, NEW ts,
         b = NoBilling \/ b.confidence \in Score, r = NoRisk \/ r.score \in Score
  PROVE  LET reason == decide(t, b, r, ts).escalation_reason
             heard == ~ts.any_missing /\ b # NoBilling /\ r # NoRisk
         IN  /\ reason \in {"none", "missing_analysis", "analysis_timeout",
                            "peer_requested_review", "low_confidence", "conflicting_analyses"}
             /\ reason = "missing_analysis" =>
                  \/ ts.any_missing /\ ~ts.deadline_exceeded
                  \/ ~ts.any_missing /\ (b = NoBilling \/ r = NoRisk)
             /\ reason = "analysis_timeout" => ts.any_missing /\ ts.deadline_exceeded
             /\ reason = "peer_requested_review"
                  => heard /\ (b.requires_human_review \/ r.requires_human_review)
             /\ reason = "low_confidence" =>
                  /\ heard /\ ~b.requires_human_review /\ ~r.requires_human_review
                  /\ t.confidence < 60 \/ b.confidence < 60 \/ r.score > 40
             /\ reason = "conflicting_analyses" =>
                  heard /\ (b.eligibility = "ineligible" <=> r.level = "low")
  <1> DEFINE v == decide(t, b, r, ts)
             low == compute_confidence(t, b, r) < CONFIDENCE_THRESHOLD
             table == combine(b.eligibility, r.level)
  <1>1. \A o : Resolve(o).escalation_reason = "none"
    BY DEF Resolve
  <1>2. \A x : Escalate(x).escalation_reason = x
    BY DEF Escalate
  <1>3. ASSUME b # NoBilling, r # NoRisk
        PROVE  /\ table.escalation_reason \in {"none", "conflicting_analyses"}
               /\ table.escalation_reason = "conflicting_analyses" =>
                    (b.eligibility = "ineligible" <=> r.level = "low")
    <2>1. /\ b.eligibility \in {"eligible", "partial", "ineligible", "indeterminate"}
          /\ r.level \in {"low", "elevated", "high"}
      BY <1>3 DEF BillingFinding, RiskFinding, Eligibility, RiskLevel
    <2> QED
      BY <1>1, <1>2, <2>1 DEF combine
  <1>4. CASE ~t.needs_refund_review
    BY <1>1, <1>4 DEF decide
  <1>5. CASE t.needs_refund_review /\ (ts.any_missing \/ b = NoBilling \/ r = NoRisk)
    <2>1. CASE ts.any_missing /\ ts.deadline_exceeded
      BY <1>2, <1>5, <2>1 DEF decide
    <2>2. CASE ts.any_missing /\ ~ts.deadline_exceeded
      BY <1>2, <1>5, <2>2 DEF decide
    <2>3. CASE ~ts.any_missing
      BY <1>2, <1>5, <2>3 DEF decide
    <2> QED
      BY <2>1, <2>2, <2>3
  <1>6. CASE t.needs_refund_review /\ ~ts.any_missing /\ b # NoBilling /\ r # NoRisk
    <2>1. low => t.confidence < 60 \/ b.confidence < 60 \/ r.score > 40
      BY <1>6, LeastCertainty
    <2>2. CASE b.requires_human_review \/ r.requires_human_review
      <3>1. v = Escalate("peer_requested_review")
        BY <1>6, <2>2 DEF decide
      <3> QED
        BY <1>2, <1>6, <2>2, <3>1
    <2>3. CASE ~b.requires_human_review /\ ~r.requires_human_review /\ low
      <3>1. v = Escalate("low_confidence")
        BY <1>6, <2>3 DEF decide
      <3> QED
        BY <1>2, <1>6, <2>1, <2>3, <3>1
    <2>4. CASE ~b.requires_human_review /\ ~r.requires_human_review /\ ~low
      <3>1. v = table
        BY <1>6, <2>4 DEF decide
      <3> HIDE DEF table, v
      <3> QED
        BY <1>3, <1>6, <3>1 DEF v
    <2> QED
      BY <2>2, <2>3, <2>4
  <1> QED
    BY <1>4, <1>5, <1>6

\* What _apply_decision emits for a delegated case that is ready or late.
LEMMA DecisionIsBacked ==
  ASSUME NEW k \in Case, k.delegated, SlotsFor(k), NEW f, ~Settled(k.status),
         is_ready_to_decide(k) \/ k.deadline = "passed"
  PROVE  Justified(Emission(decide(k.triage, k.billing_result, k.risk_result,
                                   build_timeout_status(k)), TRUE, "decided"),
                   [k EXCEPT !.status = "decided"], f)
  <1> DEFINE ts == build_timeout_status(k)
             v == decide(k.triage, k.billing_result, k.risk_result, ts)
             d == Emission(v, TRUE, "decided")
             j == [k EXCEPT !.status = "decided"]
  <1>1. /\ ts.any_missing = (k.pending_tasks # {})
        /\ ts.deadline_exceeded = (k.deadline = "passed")
    BY DEF build_timeout_status
  <1>2. d.outcome = v.outcome /\ d.escalation_reason = v.escalation_reason /\ d.claimed = TRUE
    BY DEF Emission
  <1>3. /\ j.pending_tasks = k.pending_tasks /\ j.slot_failed = k.slot_failed
        /\ j.billing_result = k.billing_result /\ j.risk_result = k.risk_result
        /\ j.deadline = k.deadline /\ j.triage = k.triage
    BY DEF Case
  <1>4. /\ k.triage \in Triage /\ k.billing_result \in BillingFinding \cup {NoBilling}
        /\ k.risk_result \in RiskFinding \cup {NoRisk}
    BY DEF Case
  <1> HIDE DEF ts, d, j
  <1>5. v.outcome = "approve_refund" =>
          /\ ~ts.any_missing
          /\ k.billing_result.eligibility = "eligible" /\ k.risk_result.level = "low"
          /\ ~k.billing_result.requires_human_review /\ ~k.risk_result.requires_human_review
          /\ k.billing_result.confidence >= CONFIDENCE_THRESHOLD
          /\ 100 - k.risk_result.score >= CONFIDENCE_THRESHOLD
    BY <1>4, ApprovalNeeds DEF SlotsFor
  <1> DEFINE b == k.billing_result
             r == k.risk_result
             why == v.escalation_reason
             heard == ~ts.any_missing /\ b # NoBilling /\ r # NoRisk
  <1>6. /\ why \in {"none", "missing_analysis", "analysis_timeout",
                    "peer_requested_review", "low_confidence", "conflicting_analyses"}
        /\ why = "missing_analysis" =>
             \/ ts.any_missing /\ ~ts.deadline_exceeded
             \/ ~ts.any_missing /\ (b = NoBilling \/ r = NoRisk)
        /\ why = "analysis_timeout" => ts.any_missing /\ ts.deadline_exceeded
        /\ why = "peer_requested_review"
             => heard /\ (b.requires_human_review \/ r.requires_human_review)
        /\ why = "low_confidence" =>
             /\ heard /\ ~b.requires_human_review /\ ~r.requires_human_review
             /\ k.triage.confidence < 60 \/ b.confidence < 60 \/ r.score > 40
        /\ why = "conflicting_analyses" =>
             heard /\ (b.eligibility = "ineligible" <=> r.level = "low")
    BY <1>4, ReasonNeeds DEF SlotsFor
  <1> HIDE DEF v
  <1>7. why = "missing_analysis" => k.slot_failed # {}
    <2>1. CASE ts.any_missing /\ ~ts.deadline_exceeded
      BY <1>1, <2>1 DEF is_ready_to_decide
    <2>2. CASE k.pending_tasks = {} /\ (b = NoBilling \/ r = NoRisk)
      BY <2>2 DEF SlotsFor
    <2> QED
      BY <1>1, <1>6, <2>1, <2>2
  <1>8. Alarming(r) => b.eligibility = "ineligible"
    BY DEF SlotsFor
  <1>9. BearsOut(j, d.escalation_reason)
    <2>1. CASE why = "none"
      BY <1>2, <2>1 DEF BearsOut
    <2>2. CASE why = "missing_analysis"
      BY <1>2, <1>3, <1>7, <2>2 DEF BearsOut
    <2>3. CASE why = "analysis_timeout"
      BY <1>1, <1>2, <1>3, <1>6, <2>3 DEF BearsOut
    <2>4. CASE why = "peer_requested_review"
      BY <1>1, <1>2, <1>3, <1>6, <1>8, <2>4 DEF BearsOut, Alarming
    <2>5. CASE why = "low_confidence"
      BY <1>1, <1>2, <1>3, <1>6, <2>5 DEF BearsOut
    <2>6. CASE why = "conflicting_analyses"
      <3>1. r # NoRisk => r.level \in {"low", "elevated", "high"}
        BY <1>4 DEF RiskFinding, RiskLevel
      <3>2. heard /\ b.eligibility = "ineligible" /\ r.level = "low"
        BY <1>6, <1>8, <2>6, <3>1 DEF Alarming
      <3> QED
        BY <1>1, <1>2, <1>3, <2>6, <3>2 DEF BearsOut
    <2> QED
      BY <1>6, <2>1, <2>2, <2>3, <2>4, <2>5, <2>6
  <1>10. Backed(d, j)
    BY <1>1, <1>2, <1>3, <1>5, <1>6, <1>9 DEF Backed
  <1> QED
    BY <1>2, <1>10 DEF Justified, d, v, ts, j

-----------------------------------------------------------------------------
\* What a step has to do for the evidence to last.

\* Decisions about case c are the ones that were on their way, or are justified
\* by what the step leaves of the case.
CarriesOn(c) ==
  /\ SlotsFor(cases'[c])
  /\ cases[c].deadline = "passed" => cases'[c].deadline = "passed"
  /\ c \in sweep' => c \in sweep \/ cases[c].deadline = "passed"
  /\ \A l \in Loops : Emitting(l, c)' =>
       \/ Emitting(l, c) /\ verdict'[l][c] = verdict[l][c]
       \/ Justified(verdict'[l][c], cases'[c], faults')
  /\ \A i \in DOMAIN decided'[c] :
       \/ i \in DOMAIN decided[c] /\ decided'[c][i] = decided[c][i]
       \/ \E l \in Loops : Emitting(l, c) /\ decided'[c][i] = verdict[l][c]

\* A settled case is not classified again.
TriageKept(c) == Settled(cases[c].status) => cases'[c].triage = cases[c].triage

\* A decision stays justified if its case, once claimed, is frozen.
LEMMA JustifiedStill ==
  ASSUME NEW c \in Cases, NEW d, Justified(d, cases[c], faults),
         faults \in Nat, faults' \in Nat, faults <= faults',
         d.claimed => Settled(cases[c].status), Frozen(c), TriageKept(c),
         cases[c].deadline = "passed" => cases'[c].deadline = "passed"
  PROVE  Justified(d, cases'[c], faults')
  <1>1. CASE d.claimed
    <2>1. Backed(d, cases[c])
      BY <1>1 DEF Justified
    <2>2. /\ cases'[c].billing_result = cases[c].billing_result
          /\ cases'[c].risk_result = cases[c].risk_result
          /\ cases'[c].pending_tasks = cases[c].pending_tasks
          /\ cases'[c].slot_failed = cases[c].slot_failed
          /\ cases'[c].triage = cases[c].triage
      BY <1>1 DEF Frozen, TriageKept
    <2>3. BearsOut(cases'[c], d.escalation_reason)
      <3>1. BearsOut(cases[c], d.escalation_reason)
        BY <2>1 DEF Backed
      <3>2. CASE d.escalation_reason = "analysis_timeout"
        BY <2>2, <3>1, <3>2 DEF BearsOut
      <3>3. CASE d.escalation_reason # "analysis_timeout"
        BY <2>2, <3>1, <3>3, Zenon DEF BearsOut
      <3> QED
        BY <3>2, <3>3
    <2>4. Backed(d, cases'[c])
      BY <2>1, <2>2, <2>3, Zenon DEF Backed
    <2> QED
      BY <1>1, <2>4 DEF Justified
  <1>2. CASE ~d.claimed
    BY <1>2 DEF Justified
  <1> QED
    BY <1>1, <1>2

LEMMA EvidenceLasts ==
  ASSUME TypeOK, TypeOK', ClaimInvariant, StepOK, Evidence, faults <= faults',
         \A c \in Cases : CarriesOn(c) /\ TriageKept(c)
  PROVE  Evidence'
  <1> SUFFICES ASSUME NEW c \in Cases PROVE EvidenceFor(c)'
    BY DEF Evidence
  <1>1. EvidenceFor(c) /\ CarriesOn(c) /\ TriageKept(c) /\ Frozen(c) /\ ClaimFor(c)
    BY DEF Evidence, StepOK, ClaimInvariant, CaseInv
  <1>2. faults \in Nat /\ faults' \in Nat
    BY ConstantsAssumption DEF TypeOK
  <1>3. cases[c].deadline = "passed" => cases'[c].deadline = "passed"
    BY <1>1 DEF CarriesOn
  <1>4. ASSUME NEW l \in Loops, Emitting(l, c)
        PROVE  Justified(verdict[l][c], cases'[c], faults')
    <2>1. /\ Justified(verdict[l][c], cases[c], faults)
          /\ verdict[l][c].claimed => Settled(cases[c].status)
      BY <1>1, <1>4 DEF EvidenceFor, ClaimFor
    <2> QED
      BY <1>1, <1>2, <1>3, <2>1, JustifiedStill
  <1>5. ASSUME NEW i \in DOMAIN decided[c]
        PROVE  Justified(decided[c][i], cases'[c], faults')
    <2>1. /\ Justified(decided[c][i], cases[c], faults)
          /\ decided[c][i].claimed => Settled(cases[c].status)
      BY <1>1 DEF EvidenceFor, ClaimFor
    <2> QED
      BY <1>1, <1>2, <1>3, <2>1, JustifiedStill
  <1>6. SlotsFor(cases'[c]) /\ (c \in sweep' => cases'[c].deadline = "passed")
    BY <1>1, <1>3 DEF CarriesOn, EvidenceFor
  <1>7. \A l \in Loops : Emitting(l, c)' => Justified(verdict'[l][c], cases'[c], faults')
    BY <1>1, <1>4 DEF CarriesOn
  <1>8. \A i \in DOMAIN decided'[c] : Justified(decided'[c][i], cases'[c], faults')
    BY <1>1, <1>4, <1>5 DEF CarriesOn
  <1>9. SlotsFor(cases[c])'
    BY <1>6 DEF SlotsFor, Alarming, Settled, is_terminal
  <1>10. \A l \in Loops : (Emitting(l, c) => Justified(verdict[l][c], cases[c], faults))'
    BY <1>7 DEF Justified, Backed, BearsOut
  <1>11. \A i \in DOMAIN decided'[c] : Justified(decided[c][i], cases[c], faults)'
    BY <1>8 DEF Justified, Backed, BearsOut
  <1> QED
    BY <1>6, <1>9, <1>10, <1>11 DEF EvidenceFor

\* The step leaves case c alone.
SameFor(c) ==
  /\ cases'[c] = cases[c] /\ decided'[c] = decided[c]
  /\ \A m \in Loops : pc'[m][c] = pc[m][c] /\ verdict'[m][c] = verdict[m][c]
  /\ c \in sweep' => c \in sweep \/ cases[c].deadline = "passed"

LEMMA SameCarriesOn ==
  ASSUME Evidence, NEW c \in Cases, SameFor(c)
  PROVE  CarriesOn(c)
  <1>1. SlotsFor(cases[c])
    BY DEF Evidence, EvidenceFor
  <1> QED
    BY <1>1 DEF SameFor, CarriesOn, Emitting

\* One loop works on one case, and publishes nothing.
LEMMA OneCarriesOn ==
  ASSUME Evidence, NEW l \in Loops, NEW c \in Cases, OthersWait(l, c),
         \A d \in Cases : d # c => SameFor(d),
         SlotsFor(cases'[c]), cases[c].deadline = "passed" => cases'[c].deadline = "passed",
         decided'[c] = decided[c], c \in sweep' => c \in sweep,
         Emitting(l, c)' => \/ Emitting(l, c) /\ verdict'[l][c] = verdict[l][c]
                            \/ Justified(verdict'[l][c], cases'[c], faults')
  PROVE  \A d \in Cases : CarriesOn(d)
  <1>1. CarriesOn(c)
    <2>1. \A m \in Loops : m # l => (Emitting(m, c)' => Emitting(m, c) /\ verdict'[m][c] = verdict[m][c])
      BY DEF OthersWait, Emitting
    <2> QED
      BY <2>1 DEF CarriesOn
  <1> QED
    BY <1>1, SameCarriesOn

\* The three ways of a handler to leave the event loop.
LEMMA ReturnCarriesOn ==
  ASSUME TypeOK, Evidence, NEW l \in Loops, NEW c \in Cases, NEW k, Return(l, c, k),
         SlotsFor(k), cases[c].deadline = "passed" => k.deadline = "passed",
         decided' = decided, sweep' \subseteq sweep
  PROVE  \A d \in Cases : CarriesOn(d)
  <1>1. StoreOK
    BY TypeSplit
  <1>2. /\ cases'[c] = k /\ pc'[l][c] = "idle" /\ OthersWait(l, c)
        /\ \A d \in Cases : d # c => SameFor(d)
    BY <1>1, ReturnStep DEF SameFor
  <1>3. ~Emitting(l, c)'
    BY <1>2 DEF Emitting
  <1> QED
    BY <1>2, <1>3, OneCarriesOn

LEMMA MoveCarriesOn ==
  ASSUME TypeOK, Evidence, NEW l \in Loops, NEW c \in Cases, NEW k,
         NEW p \in PC \ {"decide", "draft"}, Suspend(l, c, k, p), verdict' = verdict,
         SlotsFor(k), cases[c].deadline = "passed" => k.deadline = "passed",
         decided' = decided, sweep' \subseteq sweep
  PROVE  \A d \in Cases : CarriesOn(d)
  <1>1. StoreOK
    BY TypeSplit
  <1>2. /\ cases'[c] = k /\ pc'[l][c] = p /\ OthersWait(l, c)
        /\ \A d \in Cases : d # c => SameFor(d)
    BY <1>1, MoveStep DEF SameFor
  <1>3. ~Emitting(l, c)'
    BY <1>2 DEF Emitting
  <1> QED
    BY <1>2, <1>3, OneCarriesOn

LEMMA EmitCarriesOn ==
  ASSUME TypeOK, Evidence, NEW l \in Loops, NEW c \in Cases, NEW k, NEW v, Emit(l, c, k, v),
         Justified(v, k, faults'),
         SlotsFor(k), cases[c].deadline = "passed" => k.deadline = "passed",
         decided' = decided, sweep' \subseteq sweep
  PROVE  \A d \in Cases : CarriesOn(d)
  <1>1. StoreOK
    BY TypeSplit
  <1>2. /\ cases'[c] = k /\ verdict'[l][c] = v /\ OthersWait(l, c)
        /\ \A d \in Cases : d # c => SameFor(d)
    BY <1>1, EmitStep DEF SameFor
  <1> QED
    BY <1>2, OneCarriesOn

\* A step that changes no case.
LEMMA NoneCarriesOn ==
  ASSUME Evidence, UNCHANGED <<cases, pc, verdict, decided>>,
         \A c \in Cases : c \in sweep' => c \in sweep \/ cases[c].deadline = "passed"
  PROVE  \A d \in Cases : CarriesOn(d)
  BY SameCarriesOn DEF SameFor

\* Changes of a case that are not about its slots.
LEMMA SlotsKept ==
  ASSUME NEW k, NEW j, SlotsFor(k), j.delegated = k.delegated,
         j.pending_tasks = k.pending_tasks, j.slot_failed = k.slot_failed,
         j.billing_result = k.billing_result, j.risk_result = k.risk_result,
         Settled(k.status) => Settled(j.status)
  PROVE  SlotsFor(j)
  BY DEF SlotsFor

\* The readiness test.
LEMMA DecideCarriesOn ==
  ASSUME TypeOK, Evidence, NEW l \in Loops, NEW c \in Cases, cases[c].delegated,
         \/ DecideIfReady(l, c, cases[c])
         \/ ApplyDecision(l, c, cases[c]) /\ cases[c].deadline = "passed",
         decided' = decided, sweep' \subseteq sweep
  PROVE  \A d \in Cases : CarriesOn(d)
  <1> DEFINE k == cases[c]
             j == [k EXCEPT !.status = "decided"]
             v == Emission(decide(k.triage, k.billing_result, k.risk_result,
                                  build_timeout_status(k)), TRUE, "decided")
  <1>1. k \in Case /\ SlotsFor(k)
    BY DEF TypeOK, Evidence, EvidenceFor
  <1>2. CASE Return(l, c, k)
    BY <1>1, <1>2, ReturnCarriesOn
  <1>3. CASE /\ Emit(l, c, j, v) /\ (is_ready_to_decide(k) \/ k.deadline = "passed")
             /\ ~Settled(k.status)
    <2>1. Justified(v, j, faults')
      BY <1>1, <1>3, DecisionIsBacked
    <2>2. /\ j.delegated = k.delegated /\ j.pending_tasks = k.pending_tasks
          /\ j.slot_failed = k.slot_failed /\ j.billing_result = k.billing_result
          /\ j.risk_result = k.risk_result /\ j.deadline = k.deadline /\ Settled(j.status)
      BY <1>1 DEF Case, Settled
    <2>3. Emit(l, c, j, v)
      BY <1>3
    <2> HIDE DEF j, v, k
    <2>4. SlotsFor(j)
      BY <1>1, <2>2, SlotsKept
    <2> QED
      BY <2>1, <2>2, <2>3, <2>4, EmitCarriesOn DEF k
  <1> QED
    BY <1>2, <1>3 DEF DecideIfReady, ApplyDecision, claim_decision

-----------------------------------------------------------------------------
\* The actions.

\* A case that is being classified has no deadline yet.
LEMMA NoDeadlineYet ==
  ASSUME ClaimInvariant, NEW c \in Cases,
         cases[c].status \in {"none", "received", "classified"}
  PROVE  cases[c].deadline = "none" /\ ~cases[c].delegated
  BY DEF ClaimInvariant, CaseInv, DelegationFor

LEMMA IntakeCarriesOn ==
  ASSUME TypeOK, ClaimInvariant, Evidence, NEW c \in Cases, Intake(c)
  PROVE  \A d \in Cases : CarriesOn(d)
  <1>1. /\ cases[c] \in Case /\ SlotsFor(cases[c]) /\ "intake" \in Loops /\ faults \in Nat
    BY ConstantsAssumption DEF TypeOK, Evidence, EvidenceFor, Loops, Consumers
  <1>2. CASE ReceiveTicket(c)
    <2>1. decided' = decided /\ verdict' = verdict /\ sweep' = sweep
      BY <1>2 DEF ReceiveTicket, outcomes
    <2>2. CASE UNCHANGED <<cases, pc>>
      BY <2>1, <2>2, NoneCarriesOn
    <2>3. CASE cases[c].status = "none" /\ Suspend("intake", c, NewCase("received"), "classifying")
      <3>1. SlotsFor(NewCase("received"))
        BY DEF SlotsFor, NewCase, Alarming, NoRisk
      <3>2. cases[c].deadline # "passed"
        BY <2>3, NoDeadlineYet
      <3> QED
        BY <1>1, <2>1, <2>3, <3>1, <3>2, MoveCarriesOn DEF PC
    <2>4. CASE Suspend("intake", c, cases[c], "classifying")
      BY <1>1, <2>1, <2>4, MoveCarriesOn DEF PC
    <2> QED
      BY <1>2, <2>2, <2>3, <2>4 DEF ReceiveTicket
  <1>3. CASE Classify(c)
    <2>1. decided' = decided /\ verdict' = verdict /\ sweep' = sweep
      BY <1>3 DEF Classify, outcomes
    <2>2. PICK t \in Triages : Suspend("intake", c, [cases[c] EXCEPT !.triage = t,
                                                                    !.status = "classified"],
                                       "classified")
      BY <1>3 DEF Classify
    <2> DEFINE k == [cases[c] EXCEPT !.triage = t, !.status = "classified"]
    <2>3. /\ k.delegated = cases[c].delegated /\ k.pending_tasks = cases[c].pending_tasks
          /\ k.slot_failed = cases[c].slot_failed
          /\ k.billing_result = cases[c].billing_result
          /\ k.risk_result = cases[c].risk_result /\ k.deadline = cases[c].deadline
      BY <1>1 DEF Case
    <2>4. Suspend("intake", c, k, "classified") /\ ~Settled(cases[c].status)
      BY <1>3, <2>2 DEF Classify, ClaimInvariant, CaseInv, DelegationFor, Settled, is_terminal,
                        TerminalStatuses
    <2> HIDE DEF k
    <2>5. SlotsFor(k)
      BY <1>1, <2>3, <2>4, SlotsKept
    <2> QED
      BY <1>1, <2>1, <2>3, <2>4, <2>5, MoveCarriesOn DEF PC
  <1>4. CASE PublishClassified(c)
    <2>1. decided' = decided /\ sweep' = sweep /\ pc["intake"][c] = "classified"
      BY <1>4 DEF PublishClassified, outcomes
    <2>2. CASE Return("intake", c, cases[c])
      BY <1>1, <2>1, <2>2, ReturnCarriesOn
    <2>3. CASE Emit("intake", c, cases[c], Emission(Resolve("direct_response"), FALSE, "closed"))
      <3>1. Justified(Emission(Resolve("direct_response"), FALSE, "closed"), cases[c], faults')
        BY DEF Justified, Emission, Resolve
      <3> QED
        BY <1>1, <2>1, <2>3, <3>1, EmitCarriesOn
    <2>4. CASE Suspend("intake", c, delegated(cases[c]), "request_billing") /\ verdict' = verdict
      <3>1. cases[c].status \in {"received", "classified"}
        BY <2>1 DEF ClaimInvariant, CaseInv, DelegationFor
      <3>2. cases[c].deadline # "passed"
        BY <3>1, NoDeadlineYet
      <3>3. /\ delegated(cases[c]).pending_tasks = Slots
            /\ delegated(cases[c]).billing_result = cases[c].billing_result
            /\ delegated(cases[c]).risk_result = cases[c].risk_result
            /\ delegated(cases[c]).delegated /\ ~cases[c].delegated
        BY <1>1, <3>1, NoDeadlineYet DEF delegated, Case
      <3>4. cases[c].billing_result = NoBilling /\ cases[c].risk_result = NoRisk
        BY <1>1, <3>3 DEF SlotsFor
      <3>5. SlotsFor(delegated(cases[c]))
        BY <3>3, <3>4 DEF SlotsFor, Slots, Alarming, NoRisk
      <3> QED
        BY <1>1, <2>1, <2>4, <3>2, <3>5, MoveCarriesOn DEF PC
    <2> QED
      BY <1>4, <2>2, <2>3, <2>4 DEF PublishClassified
  <1>5. ASSUME DelegationFailed(c), decided' = decided, sweep' = sweep
        PROVE  \A d \in Cases : CarriesOn(d)
    <2> DEFINE v == Emission(Escalate("peer_failure"), FALSE, "escalated")
    <2>0. Fault /\ Emit("intake", c, cases[c], v)
      BY <1>5, Zenon DEF DelegationFailed
    <2> HIDE DEF v
    <2>1. faults' > 0
      BY <1>1, <2>0 DEF Fault
    <2>2. Justified(v, cases[c], faults')
      BY <2>1 DEF Justified, Emission, Escalate, v
    <2> QED
      BY <1>1, <1>5, <2>0, <2>2, EmitCarriesOn
  <1>6. ASSUME NEW slot, NEW here, NEW next \in {"request_risk", "announce"},
               RequestReview(c, slot, here, next)
        PROVE  \A d \in Cases : CarriesOn(d)
    <2>1. decided' = decided /\ sweep' = sweep
      BY <1>6 DEF RequestReview, outcomes
    <2>2. CASE Suspend("intake", c, cases[c], next) /\ verdict' = verdict
      BY <1>1, <1>6, <2>1, <2>2, MoveCarriesOn DEF PC
    <2> QED
      BY <1>5, <1>6, <2>1, <2>2 DEF RequestReview
  <1>7. CASE RequestBilling(c) \/ RequestRisk(c)
    BY <1>6, <1>7 DEF RequestBilling, RequestRisk
  <1>8. CASE AnnounceReview(c)
    <2>1. decided' = decided /\ sweep' = sweep
      BY <1>8 DEF AnnounceReview, outcomes
    <2>2. CASE Return("intake", c, cases[c])
      BY <1>1, <2>1, <2>2, ReturnCarriesOn
    <2> QED
      BY <1>5, <1>8, <2>1, <2>2 DEF AnnounceReview
  <1> QED
    BY <1>2, <1>3, <1>4, <1>7, <1>8 DEF Intake

\* Attaching a finding, or a failure, to a slot.
LEMMA SlotFilled ==
  ASSUME NEW k \in Case, SlotsFor(k), NEW slot \in Slots
  PROVE  /\ SlotsFor(mark_slot_failed(k, slot))
         /\ mark_slot_failed(k, slot).deadline = k.deadline
         /\ \A r \in BillingReport :
              /\ SlotsFor(apply_billing_result(k, billing_finding(r)))
              /\ apply_billing_result(k, billing_finding(r)).deadline = k.deadline
         /\ \A r \in RiskReport : ~forces_escalation(k, risk_finding(r)) =>
              /\ SlotsFor(apply_risk_result(k, risk_finding(r)))
              /\ apply_risk_result(k, risk_finding(r)).deadline = k.deadline
  <1>1. SlotsFor(mark_slot_failed(k, slot)) /\ mark_slot_failed(k, slot).deadline = k.deadline
    <2> DEFINE j == mark_slot_failed(k, slot)
    <2>1. CASE is_terminal(k.status)
      BY <2>1 DEF mark_slot_failed
    <2>2. CASE ~is_terminal(k.status)
      <3>1. /\ j.delegated = k.delegated /\ j.pending_tasks = k.pending_tasks \ {slot}
            /\ j.slot_failed = k.slot_failed \cup {slot}
            /\ j.billing_result = k.billing_result /\ j.risk_result = k.risk_result
            /\ j.deadline = k.deadline /\ (Settled(k.status) => j.status = k.status)
        BY <2>2 DEF mark_slot_failed, Case, Settled, is_terminal, TerminalStatuses,
                    can_transition_to_ready
      <3> HIDE DEF j
      <3>2. SlotsFor(j)
        BY <3>1 DEF SlotsFor
      <3> QED
        BY <3>1, <3>2 DEF j
    <2> QED
      BY <2>1, <2>2
  <1>2. ASSUME NEW r \in BillingReport
        PROVE  /\ SlotsFor(apply_billing_result(k, billing_finding(r)))
               /\ apply_billing_result(k, billing_finding(r)).deadline = k.deadline
    <2> DEFINE f == billing_finding(r)
               j == apply_billing_result(k, f)
    <2>1. f \in BillingFinding /\ f.confidence \in Score
      BY FindingTypes DEF billing_finding, BillingReport
    <2>2. f # NoBilling
      BY <2>1 DEF BillingFinding, NoBilling, Eligibility
    <2> HIDE DEF f
    <2>3. CASE attaches(k, "billing")
      <3>1. /\ j.delegated = k.delegated /\ j.pending_tasks = k.pending_tasks \ {"billing"}
            /\ j.slot_failed = k.slot_failed /\ j.billing_result = f
            /\ j.risk_result = k.risk_result /\ j.deadline = k.deadline
        BY <2>3 DEF apply_billing_result, without_pending, Case
      <3>a. ~Alarming(k.risk_result)
        BY <2>3 DEF attaches, SlotsFor, NoBilling
      <3>b. k.delegated
        BY <2>3 DEF attaches, SlotsFor
      <3> HIDE DEF j
      <3>2. SlotsFor(j)
        BY <2>1, <2>2, <3>1, <3>a, <3>b DEF SlotsFor
      <3> QED
        BY <3>1, <3>2 DEF j, f
    <2>4. CASE ~attaches(k, "billing")
      BY <2>4 DEF apply_billing_result
    <2> QED
      BY <2>3, <2>4
  <1>3. ASSUME NEW r \in RiskReport, ~forces_escalation(k, risk_finding(r))
        PROVE  /\ SlotsFor(apply_risk_result(k, risk_finding(r)))
               /\ apply_risk_result(k, risk_finding(r)).deadline = k.deadline
    <2> DEFINE f == risk_finding(r)
               j == apply_risk_result(k, f)
    <2>1. f \in RiskFinding /\ f.score \in Score
      BY FindingTypes DEF risk_finding, RiskReport, uncertainty_from_confidence, Score
    <2>2. f # NoRisk
      BY <2>1 DEF RiskFinding, NoRisk, RiskLevel
    <2> HIDE DEF f
    <2>3. CASE attaches(k, "risk")
      <3>a. Alarming(f) => k.billing_result.eligibility = "ineligible"
        BY <1>3, <2>3 DEF forces_escalation, attaches, Alarming, f
      <3>b. k.delegated
        BY <2>3 DEF attaches, SlotsFor
      <3>1. /\ j.delegated = k.delegated /\ j.pending_tasks = k.pending_tasks \ {"risk"}
            /\ j.slot_failed = k.slot_failed /\ j.risk_result = f
            /\ j.billing_result = k.billing_result /\ j.deadline = k.deadline
        BY <2>3 DEF apply_risk_result, without_pending, Case
      <3> HIDE DEF j
      <3>2. SlotsFor(j)
        BY <2>1, <2>2, <3>1, <3>a, <3>b DEF SlotsFor
      <3> QED
        BY <3>1, <3>2 DEF j, f
    <2>4. CASE ~attaches(k, "risk")
      BY <2>4 DEF apply_risk_result
    <2> QED
      BY <2>3, <2>4
  <1> QED
    BY <1>1, <1>2, <1>3

LEMMA ResultCarriesOn ==
  ASSUME TypeOK, Evidence, NEW m \in results, ReceiveResult(m)
  PROVE  \A d \in Cases : CarriesOn(d)
  <1>1. m.case \in Cases /\ m.slot \in Slots /\ "result" \in Loops
    BY DEF TypeOK, Loops, Consumers
  <1>2. decided' = decided /\ verdict' = verdict /\ sweep' = sweep
    BY DEF ReceiveResult, outcomes
  <1>3. cases[m.case] \in Case /\ SlotsFor(cases[m.case])
    BY <1>1 DEF TypeOK, Evidence, EvidenceFor
  <1>4. CASE UNCHANGED <<cases, pc>>
    BY <1>2, <1>4, NoneCarriesOn
  <1>5. CASE Suspend("result", m.case, mark_slot_failed(cases[m.case], m.slot), "attached")
    <2> DEFINE k == mark_slot_failed(cases[m.case], m.slot)
    <2>1. SlotsFor(k) /\ k.deadline = cases[m.case].deadline
      BY <1>1, <1>3, SlotFilled
    <2>2. Suspend("result", m.case, k, "attached")
      BY <1>5
    <2> HIDE DEF k
    <2> QED
      BY <1>1, <1>2, <2>1, <2>2, MoveCarriesOn DEF PC
  <1> QED
    BY <1>4, <1>5 DEF ReceiveResult

LEMMA BillingCarriesOn ==
  ASSUME TypeOK, Evidence, NEW e \in billing_events, ReceiveBilling(e)
  PROVE  \A d \in Cases : CarriesOn(d)
  <1> DEFINE c == e.case
             applied == apply_billing_result(cases[c], billing_finding(e.report))
  <1>1. c \in Cases /\ e.report \in BillingReport /\ "billing" \in Loops /\ "billing" \in Slots
    BY ConstantsAssumption DEF TypeOK, Loops, Consumers, Slots
  <1>2. decided' = decided /\ sweep' = sweep
    BY DEF ReceiveBilling, outcomes
  <1>3. cases[c] \in Case /\ SlotsFor(cases[c])
    BY <1>1 DEF TypeOK, Evidence, EvidenceFor
  <1>4. SlotsFor(applied) /\ applied.deadline = cases[c].deadline
    BY <1>1, <1>3, SlotFilled
  <1>5. CASE UNCHANGED store
    BY <1>2, <1>5, NoneCarriesOn DEF store
  <1>6. CASE Suspend("billing", c, applied, "attached") /\ verdict' = verdict
    <2> HIDE DEF applied
    <2> QED
      BY <1>1, <1>2, <1>4, <1>6, MoveCarriesOn DEF PC
  <1>7. CASE cases[c].delegated /\ ~attaches(cases[c], "billing")
             /\ DecideIfReady("billing", c, applied)
    <2>1. applied = cases[c]
      BY <1>7 DEF apply_billing_result
    <2>2. DecideIfReady("billing", c, cases[c]) /\ cases[c].delegated
      BY <1>7, <2>1
    <2> QED
      BY <1>1, <1>2, <2>2, DecideCarriesOn
  <1> QED
    BY <1>5, <1>6, <1>7 DEF ReceiveBilling

LEMMA RiskCarriesOn ==
  ASSUME TypeOK, Evidence, NEW e \in risk_events, ReceiveRisk(e)
  PROVE  \A d \in Cases : CarriesOn(d)
  <1> DEFINE c == e.case
             k == cases[c]
             finding == risk_finding(e.report)
             applied == apply_risk_result(k, finding)
  <1>1. c \in Cases /\ e.report \in RiskReport /\ "risk" \in Loops /\ "risk" \in Slots
    BY ConstantsAssumption DEF TypeOK, Loops, Consumers, Slots
  <1>2. decided' = decided /\ sweep' = sweep
    BY DEF ReceiveRisk, outcomes
  <1>3. k \in Case /\ SlotsFor(k)
    BY <1>1 DEF TypeOK, Evidence, EvidenceFor
  <1>4. ~forces_escalation(k, finding) => SlotsFor(applied) /\ applied.deadline = k.deadline
    BY <1>1, <1>3, SlotFilled
  <1>5. CASE UNCHANGED store
    BY <1>2, <1>5, NoneCarriesOn DEF store
  <1>6. CASE /\ ~forces_escalation(k, finding)
             /\ Suspend("risk", c, applied, "attached") /\ verdict' = verdict
    <2> HIDE DEF applied
    <2> QED
      BY <1>1, <1>2, <1>4, <1>6, MoveCarriesOn DEF PC
  <1>7. CASE k.delegated /\ ~attaches(k, "risk") /\ DecideIfReady("risk", c, applied)
    <2>1. applied = k
      BY <1>7 DEF apply_risk_result
    <2>2. DecideIfReady("risk", c, cases[c]) /\ cases[c].delegated
      BY <1>7, <2>1
    <2> QED
      BY <1>1, <1>2, <2>2, DecideCarriesOn
  <1>8. CASE k.delegated /\ forces_escalation(k, finding) /\ EscalateRisk(c, k, finding)
    <2> DEFINE j == [k EXCEPT !.status = "decided", !.risk_result = finding]
               v == Emission(Escalate("elevated_risk"), TRUE, "escalated")
    <2>1. CASE Return("risk", c, k)
      BY <1>1, <1>2, <1>3, <2>1, ReturnCarriesOn
    <2>2. CASE Emit("risk", c, j, v)
      <3>0. Alarming(finding) /\ k.billing_result.eligibility # "ineligible"
        BY <1>8 DEF forces_escalation, Alarming
      <3>2. finding \in RiskFinding /\ finding.score \in Score
        BY <1>1, FindingTypes DEF risk_finding, RiskReport, uncertainty_from_confidence, Score
      <3>3. finding # NoRisk
        BY <3>2 DEF RiskFinding, NoRisk, RiskLevel
      <3> HIDE DEF finding
      <3>4. /\ j.delegated = k.delegated /\ j.pending_tasks = k.pending_tasks
            /\ j.slot_failed = k.slot_failed /\ j.risk_result = finding
            /\ j.billing_result = k.billing_result /\ j.deadline = k.deadline
            /\ Settled(j.status)
        BY <1>3 DEF Case, Settled
      <3>a. /\ v.outcome = "escalate_human" /\ v.escalation_reason = "elevated_risk"
            /\ v.claimed = TRUE
        BY DEF Emission, Escalate
      <3> HIDE DEF j, v
      <3>1. Justified(v, j, faults')
        <4>1. BearsOut(j, "elevated_risk")
          BY <3>0, <3>4 DEF BearsOut, Alarming
        <4> QED
          BY <3>a, <4>1 DEF Justified, Backed
      <3>5. SlotsFor(j)
        BY <1>3, <1>8, <3>2, <3>3, <3>4 DEF SlotsFor
      <3> QED
        BY <1>1, <1>2, <2>2, <3>1, <3>4, <3>5, EmitCarriesOn
    <2> QED
      BY <1>8, <2>1, <2>2 DEF EscalateRisk
  <1> QED
    BY <1>5, <1>6, <1>7, <1>8 DEF ReceiveRisk

LEMMA ConcludeCarriesOn ==
  ASSUME TypeOK, ClaimInvariant, Evidence, NEW l \in Loops, NEW c \in Cases, Conclude(l, c)
  PROVE  \A d \in Cases : CarriesOn(d)
  <1>1. decided' = decided /\ sweep' = sweep /\ DecideIfReady(l, c, cases[c])
    BY DEF Conclude, outcomes
  <1>2. cases[c].delegated
    BY DEF Conclude, ClaimInvariant, CaseInv, DelegationFor
  <1> QED
    BY <1>1, <1>2, DecideCarriesOn

LEMMA ReaperCarriesOn ==
  ASSUME TypeOK, ClaimInvariant, Evidence, Sweep \/ \E c \in Cases : Reap(c)
  PROVE  \A d \in Cases : CarriesOn(d)
  <1>1. CASE Sweep
    <2>1. UNCHANGED <<cases, pc, verdict, decided>>
      BY <1>1 DEF Sweep, store, outcomes
    <2>2. \A c \in Cases : c \in sweep' => cases[c].deadline = "passed"
      BY <1>1 DEF Sweep, list_timed_out_cases
    <2> QED
      BY <2>1, <2>2, NoneCarriesOn
  <1>2. ASSUME NEW c \in Cases, Reap(c) PROVE \A d \in Cases : CarriesOn(d)
    <2>1. decided' = decided /\ sweep' \subseteq sweep /\ "reaper" \in Loops
      BY <1>2 DEF Reap, outcomes, Loops
    <2>2. cases[c].delegated /\ cases[c].deadline = "passed"
      BY <1>2 DEF Reap, ClaimInvariant, CaseInv, DelegationFor, Evidence, EvidenceFor
    <2>3. CASE UNCHANGED store
      BY <2>1, <2>3, NoneCarriesOn DEF store
    <2>4. CASE ApplyDecision("reaper", c, cases[c])
      BY <2>1, <2>2, <2>4, DecideCarriesOn
    <2> QED
      BY <1>2, <2>3, <2>4 DEF Reap
  <1> QED
    BY <1>1, <1>2

LEMMA PublishDecisionCarriesOn ==
  ASSUME TypeOK, Evidence, NEW l \in Loops, NEW c \in Cases, PublishDecision(l, c)
  PROVE  \A d \in Cases : CarriesOn(d)
  <1>1. StoreOK /\ TopicsOK /\ SlotsFor(cases[c]) /\ Emitting(l, c)
    BY TypeSplit DEF Evidence, EvidenceFor, Emitting, PublishDecision
  <1>2. sweep' = sweep /\ decided' \in {decided, [decided EXCEPT ![c] = Append(@, verdict[l][c])]}
    BY DEF PublishDecision
  <1>3. /\ cases'[c] = cases[c] /\ OthersWait(l, c)
        /\ pc'[l][c] = "idle" \/ verdict'[l][c] = verdict[l][c]
        /\ \A d \in Cases : d # c =>
             cases'[d] = cases[d] /\ \A m \in Loops :
               pc'[m][d] = pc[m][d] /\ verdict'[m][d] = verdict[m][d]
    BY <1>1, MoveStep, ReturnStep DEF PublishDecision
  <1>4. ASSUME NEW d \in Cases, d # c PROVE CarriesOn(d)
    <2>1. decided'[d] = decided[d]
      BY <1>1, <1>2, <1>4 DEF TopicsOK
    <2> QED
      BY <1>2, <1>3, <1>4, <2>1, SameCarriesOn DEF SameFor
  <1>5. CarriesOn(c)
    <2>1. \A m \in Loops : Emitting(m, c)' => Emitting(m, c) /\ verdict'[m][c] = verdict[m][c]
      BY <1>1, <1>3 DEF OthersWait, Emitting
    <2>2. ASSUME NEW i \in DOMAIN decided'[c]
          PROVE  \/ i \in DOMAIN decided[c] /\ decided'[c][i] = decided[c][i]
                 \/ decided'[c][i] = verdict[l][c]
      <3>1. decided[c] \in Seq(Decision) /\ verdict[l][c] \in Decision
        BY <1>1 DEF TopicsOK, StoreOK
      <3>2. decided'[c] = decided[c] \/ decided'[c] = Append(decided[c], verdict[l][c])
        BY <1>1, <1>2 DEF TopicsOK
      <3> QED
        BY <3>1, <3>2
    <2> QED
      BY <1>1, <1>2, <1>3, <2>1, <2>2 DEF CarriesOn
  <1> QED
    BY <1>4, <1>5

LEMMA PublishDraftCarriesOn ==
  ASSUME TypeOK, ClaimInvariant, Evidence, NEW l \in Loops, NEW c \in Cases, PublishDraft(l, c)
  PROVE  \A d \in Cases : CarriesOn(d)
  <1>1. SlotsFor(cases[c]) /\ cases[c] \in Case
    BY DEF TypeOK, Evidence, EvidenceFor
  <1>2. sweep' = sweep /\ decided' = decided
    BY DEF PublishDraft
  <1> DEFINE k == [cases[c] EXCEPT !.status = verdict[l][c].status]
  <1>3. CASE Return(l, c, k)
    <2>1. /\ k.delegated = cases[c].delegated /\ k.pending_tasks = cases[c].pending_tasks
          /\ k.slot_failed = cases[c].slot_failed
          /\ k.billing_result = cases[c].billing_result
          /\ k.risk_result = cases[c].risk_result /\ k.deadline = cases[c].deadline
      BY <1>1 DEF Case
    <2>a. Settled(k.status)
      <3>1. Settled(verdict[l][c].status)
        BY DEF PublishDraft, Emitting, ClaimInvariant, CaseInv, ClaimFor
      <3> QED
        BY <1>1, <3>1 DEF Case
    <2> HIDE DEF k
    <2>2. SlotsFor(k)
      BY <1>1, <2>1, <2>a, SlotsKept
    <2> QED
      BY <1>2, <1>3, <2>1, <2>2, ReturnCarriesOn
  <1>4. CASE Return(l, c, cases[c])
    BY <1>1, <1>2, <1>4, ReturnCarriesOn
  <1> QED
    BY <1>3, <1>4 DEF PublishDraft

LEMMA ClockCarriesOn ==
  ASSUME TypeOK, Evidence, Clock
  PROVE  \A d \in Cases : CarriesOn(d)
  <1>1. PICK c \in Cases : DeadlinePasses(c)
    BY DEF Clock
  <1> DEFINE k == [cases[c] EXCEPT !.deadline = "passed"]
  <1>2. /\ cases'[c] = k /\ pc' = pc /\ verdict' = verdict /\ decided' = decided /\ sweep' = sweep
        /\ \A d \in Cases : d # c => cases'[d] = cases[d]
    BY <1>1 DEF DeadlinePasses, outcomes, TypeOK
  <1>3. SlotsFor(cases[c]) /\ cases[c] \in Case
    BY DEF TypeOK, Evidence, EvidenceFor
  <1>4. /\ k.delegated = cases[c].delegated /\ k.pending_tasks = cases[c].pending_tasks
        /\ k.slot_failed = cases[c].slot_failed
        /\ k.billing_result = cases[c].billing_result
        /\ k.risk_result = cases[c].risk_result /\ k.deadline = "passed"
        /\ k.status = cases[c].status
    BY <1>3 DEF Case
  <1> HIDE DEF k
  <1>5. SlotsFor(k)
    BY <1>3, <1>4, SlotsKept
  <1>6. CarriesOn(c)
    BY <1>2, <1>4, <1>5 DEF CarriesOn, Emitting
  <1>7. \A d \in Cases : d # c => CarriesOn(d)
    BY <1>2, SameCarriesOn DEF SameFor
  <1> QED
    BY <1>6, <1>7

-----------------------------------------------------------------------------
\* The theorems about evidence.

LEMMA FaultsGrow ==
  ASSUME TypeOK, [Next]_vars
  PROVE  faults <= faults'
  <1>1. faults \in Nat
    BY ConstantsAssumption DEF TypeOK
  <1>2. faults' = faults \/ Fault
    <2>1. ASSUME NEW c \in Cases, Intake(c) PROVE faults' = faults \/ Fault
      BY <2>1, Zenon DEF Intake, ReceiveTicket, Classify, PublishClassified, RequestBilling,
        RequestRisk, RequestReview, AnnounceReview, DelegationFailed
    <2>2. ASSUME NEW l \in Loops, NEW c \in Cases,
                 Conclude(l, c) \/ PublishDecision(l, c) \/ PublishDraft(l, c)
          PROVE  faults' = faults \/ Fault
      BY <2>2, Zenon DEF Conclude, PublishDecision, PublishDraft
    <2>3. CASE \/ \E m \in results : ReceiveResult(m)
               \/ \E e \in billing_events : ReceiveBilling(e)
               \/ \E e \in risk_events : ReceiveRisk(e)
               \/ Sweep \/ \E c \in Cases : Reap(c)
      BY <2>3, Zenon DEF ReceiveResult, ReceiveBilling, ReceiveRisk, Sweep, Reap
    <2>4. CASE Peers
      BY <2>4, Zenon DEF Peers, BillingReplies, RiskReplies, PeerFails
    <2>5. CASE Clock
      BY <2>5, Zenon DEF Clock, DeadlinePasses
    <2>6. CASE UNCHANGED vars
      BY <2>6, Zenon DEF vars
    <2> QED
      BY <2>1, <2>2, <2>3, <2>4, <2>5, <2>6, Zenon DEF Next, Loop
  <1> QED
    BY <1>1, <1>2 DEF Fault

LEMMA NextCarriesOn ==
  ASSUME TypeOK, ClaimInvariant, Evidence, [Next]_vars
  PROVE  \A d \in Cases : CarriesOn(d)
  <1>1. CASE UNCHANGED vars
    BY <1>1, NoneCarriesOn DEF vars, store, outcomes
  <1>2. CASE Peers
    <2>1. UNCHANGED <<cases, pc, verdict, decided, sweep>>
      BY <1>2 DEF Peers, BillingReplies, RiskReplies, PeerFails, store, outcomes
    <2> QED
      BY <2>1, NoneCarriesOn
  <1>3. ASSUME NEW l \in Loops, Loop(l) PROVE \A d \in Cases : CarriesOn(d)
    BY <1>3, IntakeCarriesOn, ResultCarriesOn, BillingCarriesOn, RiskCarriesOn,
       ReaperCarriesOn, ConcludeCarriesOn, PublishDecisionCarriesOn, PublishDraftCarriesOn
       DEF Loop
  <1> QED
    BY <1>1, <1>2, <1>3, ClockCarriesOn DEF Next

\* A loop leaves a case with the triage it found, unless it classifies it.
LEMMA SuspendKeepsTriage ==
  ASSUME TypeOK, NEW l \in Loops, NEW c \in Cases, NEW k, NEW p, Suspend(l, c, k, p),
         Settled(cases[c].status) => k.triage = cases[c].triage
  PROVE  \A d \in Cases : TriageKept(d)
  <1>1. \A d \in Cases : cases'[d] = IF d = c THEN k ELSE cases[d]
    BY DEF Suspend, TypeOK
  <1> QED
    BY <1>1 DEF TriageKept

LEMMA SameKeepsTriage ==
  ASSUME cases' = cases
  PROVE  \A d \in Cases : TriageKept(d)
  BY DEF TriageKept

\* The readiness test classifies nothing.
LEMMA DecideKeepsTriage ==
  ASSUME TypeOK, NEW l \in Loops, NEW c \in Cases, NEW k \in Case, k.triage = cases[c].triage,
         DecideIfReady(l, c, k) \/ ApplyDecision(l, c, k)
  PROVE  \A d \in Cases : TriageKept(d)
  <1>1. [k EXCEPT !.status = "decided"].triage = k.triage
    BY DEF Case
  <1>2. \/ Suspend(l, c, k, "idle")
        \/ Suspend(l, c, [k EXCEPT !.status = "decided"], "decide")
    BY DEF DecideIfReady, ApplyDecision, Return, Emit
  <1> QED
    BY <1>1, <1>2, SuspendKeepsTriage

LEMMA IntakeKeepsTriage ==
  ASSUME TypeOK, ClaimInvariant, NEW c \in Cases, Intake(c)
  PROVE  \A d \in Cases : TriageKept(d)
  <1>1. cases[c] \in Case /\ "intake" \in Loops
    BY DEF TypeOK, Loops, Consumers
  <1>2. CASE ReceiveTicket(c)
    <2>1. cases[c].status = "none" => ~Settled(cases[c].status)
      BY DEF Settled, is_terminal, TerminalStatuses
    <2>2. \/ cases' = cases
          \/ Suspend("intake", c, cases[c], "classifying")
          \/ /\ cases[c].status = "none"
             /\ Suspend("intake", c, NewCase("received"), "classifying")
      BY <1>2 DEF ReceiveTicket
    <2> QED
      BY <1>1, <2>1, <2>2, SuspendKeepsTriage, SameKeepsTriage
  <1>3. CASE Classify(c)
    <2>1. ~Settled(cases[c].status)
      BY <1>3 DEF Classify, ClaimInvariant, CaseInv, DelegationFor, Settled, is_terminal,
                  TerminalStatuses
    <2>2. PICK k : Suspend("intake", c, k, "classified")
      BY <1>3 DEF Classify
    <2> QED
      BY <1>1, <2>1, <2>2, SuspendKeepsTriage
  <1>4. CASE PublishClassified(c)
    <2>1. delegated(cases[c]).triage = cases[c].triage
      BY <1>1 DEF delegated, Case
    <2>2. \E p : \/ Suspend("intake", c, cases[c], p)
                 \/ Suspend("intake", c, delegated(cases[c]), p)
      BY <1>4 DEF PublishClassified, Emit, Return
    <2> QED
      BY <1>1, <2>1, <2>2, SuspendKeepsTriage
  <1>5. CASE RequestBilling(c) \/ RequestRisk(c) \/ AnnounceReview(c)
    <2>1. \E p : Suspend("intake", c, cases[c], p)
      BY <1>5 DEF RequestBilling, RequestRisk, RequestReview, AnnounceReview, DelegationFailed,
                  Emit, Return
    <2> QED
      BY <1>1, <2>1, SuspendKeepsTriage
  <1> QED
    BY <1>2, <1>3, <1>4, <1>5 DEF Intake

LEMMA HandlersKeepTriage ==
  ASSUME TypeOK,
         \/ \E m \in results : ReceiveResult(m)
         \/ \E e \in billing_events : ReceiveBilling(e)
         \/ \E e \in risk_events : ReceiveRisk(e)
  PROVE  \A d \in Cases : TriageKept(d)
  <1>0. {"result", "billing", "risk"} \subseteq Loops
    BY DEF Loops, Consumers
  <1>1. ASSUME NEW m \in results, ReceiveResult(m) PROVE \A d \in Cases : TriageKept(d)
    <2>1. m.case \in Cases /\ cases[m.case] \in Case
      BY DEF TypeOK
    <2>2. mark_slot_failed(cases[m.case], m.slot).triage = cases[m.case].triage
      BY <2>1 DEF mark_slot_failed, Case
    <2>3. \/ cases' = cases
          \/ Suspend("result", m.case, mark_slot_failed(cases[m.case], m.slot), "attached")
      BY <1>1 DEF ReceiveResult
    <2> QED
      BY <1>0, <2>1, <2>2, <2>3, SuspendKeepsTriage, SameKeepsTriage
  <1>2. ASSUME NEW e \in billing_events, ReceiveBilling(e) PROVE \A d \in Cases : TriageKept(d)
    <2> DEFINE c == e.case
               applied == apply_billing_result(cases[c], billing_finding(e.report))
    <2>1. c \in Cases /\ cases[c] \in Case
      BY DEF TypeOK
    <2>2. applied.triage = cases[c].triage
      BY <2>1 DEF apply_billing_result, without_pending, Case
    <2>3. \/ cases' = cases
          \/ Suspend("billing", c, applied, "attached")
          \/ applied = cases[c] /\ DecideIfReady("billing", c, applied)
      BY <1>2 DEF ReceiveBilling, store, apply_billing_result
    <2> HIDE DEF applied, c
    <2> QED
      BY <1>0, <2>1, <2>2, <2>3, SuspendKeepsTriage, SameKeepsTriage, DecideKeepsTriage
  <1>3. ASSUME NEW e \in risk_events, ReceiveRisk(e) PROVE \A d \in Cases : TriageKept(d)
    <2> DEFINE c == e.case
               finding == risk_finding(e.report)
               applied == apply_risk_result(cases[c], finding)
               claimed == [cases[c] EXCEPT !.status = "decided", !.risk_result = finding]
    <2>1. c \in Cases /\ cases[c] \in Case
      BY DEF TypeOK
    <2>2. applied.triage = cases[c].triage /\ claimed.triage = cases[c].triage
      BY <2>1 DEF apply_risk_result, without_pending, Case
    <2>3. \/ cases' = cases
          \/ Suspend("risk", c, applied, "attached")
          \/ Suspend("risk", c, cases[c], "idle")
          \/ Suspend("risk", c, claimed, "decide")
          \/ applied = cases[c] /\ DecideIfReady("risk", c, applied)
      BY <1>3 DEF ReceiveRisk, store, apply_risk_result, EscalateRisk, Emit, Return
    <2> HIDE DEF applied, claimed, c
    <2> QED
      BY <1>0, <2>1, <2>2, <2>3, SuspendKeepsTriage, SameKeepsTriage, DecideKeepsTriage
  <1> QED
    BY <1>1, <1>2, <1>3

LEMMA NextKeepsTriage ==
  ASSUME TypeOK, ClaimInvariant, [Next]_vars
  PROVE  \A d \in Cases : TriageKept(d)
  <1>1. CASE UNCHANGED vars \/ Peers \/ Sweep
    <2>1. cases' = cases
      BY <1>1 DEF vars, store, Peers, BillingReplies, RiskReplies, PeerFails, Sweep
    <2> QED
      BY <2>1, SameKeepsTriage
  <1>2. CASE Clock
    <2>1. PICK c \in Cases : DeadlinePasses(c)
      BY <1>2 DEF Clock
    <2>2. \A d \in Cases : cases'[d].triage = cases[d].triage
      BY <2>1 DEF DeadlinePasses, TypeOK, Case
    <2> QED
      BY <2>2 DEF TriageKept
  <1>3. ASSUME NEW c \in Cases, Reap(c) PROVE \A d \in Cases : TriageKept(d)
    <2>1. cases[c] \in Case /\ "reaper" \in Loops
      BY DEF TypeOK, Loops
    <2>2. cases' = cases \/ ApplyDecision("reaper", c, cases[c])
      BY <1>3 DEF Reap, store
    <2> QED
      BY <2>1, <2>2, SameKeepsTriage, DecideKeepsTriage
  <1>4. ASSUME NEW l \in Loops, NEW c \in Cases,
               Conclude(l, c) \/ PublishDecision(l, c) \/ PublishDraft(l, c)
        PROVE  \A d \in Cases : TriageKept(d)
    <2>1. cases[c] \in Case
      BY DEF TypeOK
    <2>2. CASE Conclude(l, c)
      <3>1. DecideIfReady(l, c, cases[c])
        BY <2>2 DEF Conclude
      <3> QED
        BY <2>1, <3>1, DecideKeepsTriage
    <2>3. CASE PublishDecision(l, c) \/ PublishDraft(l, c)
      <3> DEFINE k == [cases[c] EXCEPT !.status = verdict[l][c].status]
      <3>1. k.triage = cases[c].triage
        BY <2>1 DEF Case
      <3>2. \E p : Suspend(l, c, cases[c], p) \/ Suspend(l, c, k, p)
        BY <2>3 DEF PublishDecision, PublishDraft, Return
      <3> HIDE DEF k
      <3> QED
        BY <3>1, <3>2, SuspendKeepsTriage
    <2> QED
      BY <1>4, <2>2, <2>3
  <1> QED
    BY <1>1, <1>2, <1>3, <1>4, IntakeKeepsTriage, HandlersKeepTriage DEF Next, Loop

\* Every decision on its way to the topic, or on it, is justified by the case.
THEOREM EvidenceHolds == Spec => []Evidence
  <1>1. Init => Evidence
    <2> SUFFICES ASSUME Init, NEW c \in Cases PROVE EvidenceFor(c)
      BY DEF Evidence
    <2>1. /\ cases[c] = NewCase("none") /\ decided[c] = <<>> /\ sweep = {}
          /\ \A l \in Loops : ~Emitting(l, c)
      BY DEF Init, Emitting
    <2>2. SlotsFor(NewCase("none"))
      BY DEF SlotsFor, NewCase, Alarming, NoRisk
    <2> QED
      BY <2>1, <2>2 DEF EvidenceFor
  <1>2. TypeOK /\ TypeOK' /\ ClaimInvariant /\ Evidence /\ [Next]_vars => Evidence'
    BY NextOK, FaultsGrow, NextCarriesOn, NextKeepsTriage, EvidenceLasts
  <1> QED
    BY <1>1, <1>2, TypeCorrect, ClaimInvariantHolds, PTL DEF Spec

\* Every reason that an escalation gives is true of its case, then and ever
\* after, however the handlers, the reaper and the peers interleave and whatever
\* publish fails.
THEOREM ReasonsAreTrue == Spec => []EscalationReasonHolds
  <1>1. Evidence => EscalationReasonHolds
    <2> SUFFICES ASSUME Evidence, NEW c \in Cases, NEW i \in DOMAIN decided[c]
                 PROVE  /\ BearsOut(cases[c], decided[c][i].escalation_reason)
                        /\ decided[c][i].escalation_reason = "peer_failure"
                             => ~decided[c][i].claimed /\ faults > 0
      BY DEF EscalationReasonHolds
    <2>1. Justified(decided[c][i], cases[c], faults)
      BY DEF Evidence, EvidenceFor
    <2>2. CASE decided[c][i].claimed
      BY <2>1, <2>2 DEF Justified, Backed
    <2>3. CASE ~decided[c][i].claimed
      BY <2>1, <2>3 DEF Justified, BearsOut
    <2> QED
      BY <2>2, <2>3
  <1> QED
    BY <1>1, EvidenceHolds, PTL

\* No approval of decide() is published without, or outlives, the findings that
\* back it.
THEOREM ApprovalsAreBacked == Spec => []ApprovalIsBacked
  <1>1. Evidence => ApprovalIsBacked
    BY DEF Evidence, EvidenceFor, ApprovalIsBacked, Justified, Backed
  <1> QED
    BY <1>1, EvidenceHolds, PTL

-----------------------------------------------------------------------------
\* Without faults.

\* At most one loop emits for case c.  Until it does, and while the case is not
\* settled, nothing is published; then the decision, then the reply.  Only a
\* direct response is emitted without a claim, for a case that was not delegated.
PromiseFor(c) ==
  /\ \A l, m \in Loops : Emitting(l, c) /\ Emitting(m, c) => l = m
  /\ \A l \in Loops :
       /\ pc[l][c] = "decide" => decided[c] = <<>> /\ drafted[c] = <<>>
       /\ pc[l][c] = "draft" => decided[c] = <<verdict[l][c]>> /\ drafted[c] = <<>>
       /\ Emitting(l, c) /\ ~verdict[l][c].claimed
            => l = "intake" /\ ~cases[c].delegated
  /\ (\A l \in Loops : ~Emitting(l, c)) =>
       \/ decided[c] = <<>> /\ drafted[c] = <<>>
       \/ Settled(cases[c].status)

PromiseInv == \A c \in Cases : PromiseFor(c)

Quiet(c) == \A l \in Loops : ~Emitting(l, c)

\* A loop that does not emit for case c goes on or returns.
LEMMA PromiseMove ==
  ASSUME NEW l \in Loops, NEW c \in Cases, PromiseFor(c), OthersWait(l, c),
         ~Emitting(l, c), ~Emitting(l, c)', Frozen(c),
         cases'[c].delegated = cases[c].delegated \/ l = "intake",
         decided'[c] = decided[c], drafted'[c] = drafted[c]
  PROVE  PromiseFor(c)'
  <1>1. \A m \in Loops : Emitting(m, c)' <=> Emitting(m, c)
    BY DEF OthersWait, Emitting
  <1>2. \A m \in Loops : Emitting(m, c) =>
          m # l /\ pc'[m][c] = pc[m][c] /\ verdict'[m][c] = verdict[m][c]
    BY DEF OthersWait
  <1>3. \A m \in Loops : pc'[m][c] \in {"decide", "draft"} => Emitting(m, c)
    BY <1>1 DEF Emitting
  <1>4. \A m \in Loops :
          /\ pc'[m][c] = "decide" => decided'[c] = <<>> /\ drafted'[c] = <<>>
          /\ pc'[m][c] = "draft" => decided'[c] = <<verdict'[m][c]>> /\ drafted'[c] = <<>>
    BY <1>2, <1>3 DEF PromiseFor
  <1>5. \A m \in Loops : Emitting(m, c)' /\ ~verdict'[m][c].claimed
                           => m = "intake" /\ ~cases'[c].delegated
    BY <1>1, <1>2 DEF PromiseFor
  <1>6. (\A m \in Loops : ~Emitting(m, c)') =>
          \/ decided'[c] = <<>> /\ drafted'[c] = <<>>
          \/ Settled(cases'[c].status)
    BY <1>1 DEF PromiseFor, Frozen
  <1>7. Settled(cases'[c].status) => Settled(cases[c].status)'
    BY DEF Settled, is_terminal
  <1> QED
    BY <1>1, <1>4, <1>5, <1>6, <1>7 DEF PromiseFor

\* A loop starts to emit for a case that nobody has decided.
LEMMA PromiseEmit ==
  ASSUME NEW l \in Loops, NEW c \in Cases, PromiseFor(c), OthersWait(l, c), Quiet(c),
         ~Settled(cases[c].status), pc'[l][c] = "decide",
         verdict'[l][c].claimed \/ (l = "intake" /\ ~cases'[c].delegated),
         decided'[c] = decided[c], drafted'[c] = drafted[c]
  PROVE  PromiseFor(c)'
  <1>1. decided[c] = <<>> /\ drafted[c] = <<>>
    BY DEF PromiseFor, Quiet
  <1>2. \A m \in Loops : m # l => ~Emitting(m, c)' /\ pc'[m][c] \notin {"decide", "draft"}
    BY DEF Quiet, OthersWait, Emitting
  <1>3. Emitting(l, c)'
    BY DEF Emitting
  <1> QED
    BY <1>1, <1>2, <1>3 DEF PromiseFor

\* The step leaves case c alone.
AloneFor(c) ==
  /\ cases'[c] = cases[c] /\ decided'[c] = decided[c] /\ drafted'[c] = drafted[c]
  /\ \A m \in Loops : pc'[m][c] = pc[m][c] /\ verdict'[m][c] = verdict[m][c]

LEMMA PromiseAlone ==
  ASSUME NEW c \in Cases, PromiseFor(c), AloneFor(c)
  PROVE  PromiseFor(c)'
  <1>1. \A m \in Loops : Emitting(m, c)' <=> Emitting(m, c)
    BY DEF AloneFor, Emitting
  <1>2. Settled(cases[c].status)' <=> Settled(cases[c].status)
    BY DEF AloneFor, Settled, is_terminal
  <1> QED
    BY <1>1, <1>2 DEF PromiseFor, AloneFor

LEMMA ReturnPromise ==
  ASSUME TypeOK, PromiseInv, StepOK, NEW l \in Loops, NEW c \in Cases, NEW k,
         Return(l, c, k), ~Emitting(l, c), k.delegated = cases[c].delegated,
         decided' = decided, drafted' = drafted
  PROVE  PromiseInv'
  <1>1. StoreOK
    BY TypeSplit
  <1>2. /\ cases'[c] = k /\ pc'[l][c] = "idle" /\ OthersWait(l, c)
        /\ \A d \in Cases : d # c => AloneFor(d)
    BY <1>1, ReturnStep DEF AloneFor
  <1>3. ~Emitting(l, c)' /\ Frozen(c) /\ PromiseFor(c)
    BY <1>2 DEF Emitting, StepOK, PromiseInv
  <1>4. PromiseFor(c)'
    BY <1>2, <1>3, PromiseMove
  <1> QED
    BY <1>2, <1>4, PromiseAlone DEF PromiseInv

LEMMA MovePromise ==
  ASSUME TypeOK, PromiseInv, StepOK, NEW l \in Loops, NEW c \in Cases, NEW k,
         NEW p \in PC \ {"decide", "draft"}, Suspend(l, c, k, p), verdict' = verdict,
         ~Emitting(l, c), k.delegated = cases[c].delegated \/ l = "intake",
         decided' = decided, drafted' = drafted
  PROVE  PromiseInv'
  <1>1. StoreOK
    BY TypeSplit
  <1>2. /\ cases'[c] = k /\ pc'[l][c] = p /\ OthersWait(l, c)
        /\ \A d \in Cases : d # c => AloneFor(d)
    BY <1>1, MoveStep DEF AloneFor
  <1>3. ~Emitting(l, c)' /\ Frozen(c) /\ PromiseFor(c)
    BY <1>2 DEF Emitting, StepOK, PromiseInv
  <1>4. PromiseFor(c)'
    BY <1>2, <1>3, PromiseMove
  <1> QED
    BY <1>2, <1>4, PromiseAlone DEF PromiseInv

LEMMA EmitPromise ==
  ASSUME TypeOK, PromiseInv, NEW l \in Loops, NEW c \in Cases, NEW k, NEW v,
         Emit(l, c, k, v), Quiet(c), ~Settled(cases[c].status),
         v.claimed \/ (l = "intake" /\ ~k.delegated),
         decided' = decided, drafted' = drafted
  PROVE  PromiseInv'
  <1>1. StoreOK
    BY TypeSplit
  <1>2. /\ cases'[c] = k /\ pc'[l][c] = "decide" /\ verdict'[l][c] = v /\ OthersWait(l, c)
        /\ \A d \in Cases : d # c => AloneFor(d)
    BY <1>1, EmitStep DEF AloneFor
  <1>3. PromiseFor(c)'
    BY <1>2, PromiseEmit DEF PromiseInv
  <1> QED
    BY <1>2, <1>3, PromiseAlone DEF PromiseInv

LEMMA NonePromise ==
  ASSUME PromiseInv, UNCHANGED <<cases, pc, verdict, decided, drafted>>
  PROVE  PromiseInv'
  BY PromiseAlone DEF PromiseInv, AloneFor

\* Nobody emits for a delegated case before it is claimed.
LEMMA QuietUntilClaimed ==
  ASSUME ClaimInvariant, PromiseInv, NEW c \in Cases, cases[c].delegated,
         ~Settled(cases[c].status)
  PROVE  Quiet(c)
  BY DEF ClaimInvariant, CaseInv, ClaimFor, PromiseInv, PromiseFor, Quiet

LEMMA DecidePromise ==
  ASSUME TypeOK, ClaimInvariant, PromiseInv, StepOK, NEW l \in Loops, NEW c \in Cases,
         cases[c].delegated, ~Emitting(l, c), decided' = decided, drafted' = drafted,
         DecideIfReady(l, c, cases[c]) \/ ApplyDecision(l, c, cases[c])
  PROVE  PromiseInv'
  <1> DEFINE k == cases[c]
             j == [k EXCEPT !.status = "decided"]
             v == Emission(decide(k.triage, k.billing_result, k.risk_result,
                                  build_timeout_status(k)), TRUE, "decided")
  <1>1. CASE Return(l, c, k)
    BY <1>1, ReturnPromise
  <1>2. CASE Emit(l, c, j, v) /\ claim_decision(k)
    <2>1. ~Settled(k.status) /\ v.claimed
      BY <1>2 DEF claim_decision, Emission
    <2>2. Quiet(c)
      BY <2>1, QuietUntilClaimed
    <2>3. Emit(l, c, j, v)
      BY <1>2
    <2> HIDE DEF j, v
    <2> QED
      BY <2>1, <2>2, <2>3, EmitPromise
  <1> QED
    BY <1>1, <1>2 DEF DecideIfReady, ApplyDecision

\* No publish fails.
LEMMA NoFault ==
  ASSUME TypeOK, MaxFaults = 0
  PROVE  ~Fault
  BY DEF TypeOK, Fault

LEMMA IntakePromise ==
  ASSUME TypeOK, ClaimInvariant, PromiseInv, StepOK, MaxFaults = 0, NEW c \in Cases, Intake(c)
  PROVE  PromiseInv'
  <1>1. cases[c] \in Case /\ "intake" \in Loops /\ ~Fault
    BY NoFault DEF TypeOK, Loops, Consumers
  <1>2. decided' = decided /\ drafted' = drafted
    BY DEF Intake, ReceiveTicket, Classify, PublishClassified, RequestBilling, RequestRisk,
           RequestReview, AnnounceReview, outcomes
  <1>3. CASE ReceiveTicket(c)
    <2>1. verdict' = verdict /\ ~Emitting("intake", c)
      BY <1>3 DEF ReceiveTicket, Free, Emitting
    <2>2. CASE UNCHANGED <<cases, pc>>
      BY <1>2, <2>1, <2>2, NonePromise
    <2>3. CASE Suspend("intake", c, NewCase("received"), "classifying")
      BY <1>1, <1>2, <2>1, <2>3, MovePromise DEF PC
    <2>4. CASE Suspend("intake", c, cases[c], "classifying")
      BY <1>1, <1>2, <2>1, <2>4, MovePromise DEF PC
    <2> QED
      BY <1>3, <2>2, <2>3, <2>4 DEF ReceiveTicket
  <1>4. CASE Classify(c)
    <2>1. verdict' = verdict /\ ~Emitting("intake", c)
      BY <1>4 DEF Classify, Emitting
    <2>2. PICK t \in Triages : Suspend("intake", c, [cases[c] EXCEPT !.triage = t,
                                                                    !.status = "classified"],
                                       "classified")
      BY <1>4 DEF Classify
    <2> QED
      BY <1>1, <1>2, <2>1, <2>2, MovePromise DEF PC
  <1>5. CASE PublishClassified(c)
    <2>1. pc["intake"][c] = "classified" /\ ~Emitting("intake", c)
      BY <1>5 DEF PublishClassified, Emitting
    <2>2. CASE Suspend("intake", c, delegated(cases[c]), "request_billing") /\ verdict' = verdict
      BY <1>1, <1>2, <2>1, <2>2, MovePromise DEF PC
    <2>3. CASE Emit("intake", c, cases[c], Emission(Resolve("direct_response"), FALSE, "closed"))
      <3>1. cases[c].status \in {"received", "classified"}
        BY <2>1 DEF ClaimInvariant, CaseInv, DelegationFor
      <3>2. ~cases[c].delegated /\ ~Settled(cases[c].status)
        BY <3>1, NoDeadlineYet DEF Settled, is_terminal, TerminalStatuses
      <3>3. Quiet(c)
        BY <2>1, <3>2 DEF Quiet, Emitting, ClaimInvariant, CaseInv, DelegationFor
      <3> QED
        BY <1>1, <1>2, <2>3, <3>2, <3>3, EmitPromise
    <2> QED
      BY <1>1, <1>5, <2>2, <2>3 DEF PublishClassified
  <1>6. ASSUME NEW slot, NEW here \in {"request_billing", "request_risk"},
               NEW next \in {"request_risk", "announce"}, RequestReview(c, slot, here, next)
        PROVE  PromiseInv'
    <2>1. ~Emitting("intake", c)
      BY <1>6 DEF RequestReview, Emitting
    <2>2. Suspend("intake", c, cases[c], next) /\ verdict' = verdict
      BY <1>1, <1>6 DEF RequestReview, DelegationFailed
    <2> QED
      BY <1>1, <1>2, <1>6, <2>1, <2>2, MovePromise DEF PC
  <1>7. CASE RequestBilling(c) \/ RequestRisk(c)
    BY <1>6, <1>7 DEF RequestBilling, RequestRisk
  <1>8. CASE AnnounceReview(c)
    <2>1. Return("intake", c, cases[c]) /\ ~Emitting("intake", c)
      BY <1>1, <1>8 DEF AnnounceReview, DelegationFailed, Emitting
    <2> QED
      BY <1>1, <1>2, <2>1, ReturnPromise
  <1> QED
    BY <1>3, <1>4, <1>5, <1>7, <1>8 DEF Intake

LEMMA ResultPromise ==
  ASSUME TypeOK, PromiseInv, StepOK, NEW m \in results, ReceiveResult(m)
  PROVE  PromiseInv'
  <1>1. m.case \in Cases /\ m.slot \in Slots /\ "result" \in Loops
    BY DEF TypeOK, Loops, Consumers
  <1>2. /\ decided' = decided /\ drafted' = drafted /\ verdict' = verdict
        /\ ~Emitting("result", m.case)
    BY <1>1 DEF ReceiveResult, outcomes, Free, Emitting
  <1>3. CASE UNCHANGED <<cases, pc>>
    BY <1>2, <1>3, NonePromise
  <1>4. CASE Suspend("result", m.case, mark_slot_failed(cases[m.case], m.slot), "attached")
    <2>1. cases[m.case] \in Case
      BY <1>1 DEF TypeOK
    <2>2. mark_slot_failed(cases[m.case], m.slot).delegated = cases[m.case].delegated
      BY <2>1 DEF mark_slot_failed, Case
    <2> QED
      BY <1>1, <1>2, <1>4, <2>2, MovePromise DEF PC
  <1> QED
    BY <1>3, <1>4 DEF ReceiveResult

LEMMA BillingPromise ==
  ASSUME TypeOK, ClaimInvariant, PromiseInv, StepOK, NEW e \in billing_events, ReceiveBilling(e)
  PROVE  PromiseInv'
  <1> DEFINE c == e.case
             applied == apply_billing_result(cases[c], billing_finding(e.report))
  <1>1. c \in Cases /\ "billing" \in Loops
    BY DEF TypeOK, Loops, Consumers
  <1>2. decided' = decided /\ drafted' = drafted /\ ~Emitting("billing", c)
    BY <1>1 DEF ReceiveBilling, outcomes, Free, Emitting
  <1>3. cases[c] \in Case
    BY <1>1 DEF TypeOK
  <1>4. CASE UNCHANGED store
    BY <1>2, <1>4, NonePromise DEF store
  <1>5. CASE Suspend("billing", c, applied, "attached") /\ verdict' = verdict
    <2>1. applied.delegated = cases[c].delegated
      BY <1>3 DEF apply_billing_result, without_pending, Case
    <2> HIDE DEF applied
    <2> QED
      BY <1>1, <1>2, <1>5, <2>1, MovePromise DEF PC
  <1>6. CASE cases[c].delegated /\ ~attaches(cases[c], "billing")
             /\ DecideIfReady("billing", c, applied)
    <2>1. applied = cases[c]
      BY <1>6 DEF apply_billing_result
    <2>2. DecideIfReady("billing", c, cases[c]) /\ cases[c].delegated
      BY <1>6, <2>1
    <2> QED
      BY <1>1, <1>2, <2>2, DecidePromise
  <1> QED
    BY <1>4, <1>5, <1>6 DEF ReceiveBilling

LEMMA RiskPromise ==
  ASSUME TypeOK, ClaimInvariant, PromiseInv, StepOK, NEW e \in risk_events, ReceiveRisk(e)
  PROVE  PromiseInv'
  <1> DEFINE c == e.case
             k == cases[c]
             finding == risk_finding(e.report)
             applied == apply_risk_result(k, finding)
  <1>1. c \in Cases /\ "risk" \in Loops
    BY DEF TypeOK, Loops, Consumers
  <1>2. decided' = decided /\ drafted' = drafted /\ ~Emitting("risk", c)
    BY <1>1 DEF ReceiveRisk, outcomes, Free, Emitting
  <1>3. k \in Case
    BY <1>1 DEF TypeOK
  <1>4. CASE UNCHANGED store
    BY <1>2, <1>4, NonePromise DEF store
  <1>5. CASE Suspend("risk", c, applied, "attached") /\ verdict' = verdict
    <2>1. applied.delegated = k.delegated
      BY <1>3 DEF apply_risk_result, without_pending, Case
    <2> HIDE DEF applied
    <2> QED
      BY <1>1, <1>2, <1>5, <2>1, MovePromise DEF PC
  <1>6. CASE k.delegated /\ ~attaches(k, "risk") /\ DecideIfReady("risk", c, applied)
    <2>1. applied = k
      BY <1>6 DEF apply_risk_result
    <2>2. DecideIfReady("risk", c, cases[c]) /\ cases[c].delegated
      BY <1>6, <2>1
    <2> QED
      BY <1>1, <1>2, <2>2, DecidePromise
  <1>7. CASE k.delegated /\ forces_escalation(k, finding) /\ EscalateRisk(c, k, finding)
    <2> DEFINE j == [k EXCEPT !.status = "decided", !.risk_result = finding]
               v == Emission(Escalate("elevated_risk"), TRUE, "escalated")
    <2>1. CASE Return("risk", c, k)
      BY <1>1, <1>2, <2>1, ReturnPromise
    <2>2. CASE Emit("risk", c, j, v)
      <3>1. v.claimed
        BY DEF Emission
      <3>2. ~Settled(k.status)
        BY <1>7 DEF forces_escalation
      <3>3. Quiet(c)
        BY <1>1, <1>7, <3>2, QuietUntilClaimed
      <3> HIDE DEF j, v
      <3> QED
        BY <1>1, <1>2, <2>2, <3>1, <3>2, <3>3, EmitPromise
    <2> QED
      BY <1>7, <2>1, <2>2 DEF EscalateRisk
  <1> QED
    BY <1>4, <1>5, <1>6, <1>7 DEF ReceiveRisk

LEMMA ConcludePromise ==
  ASSUME TypeOK, ClaimInvariant, PromiseInv, StepOK, NEW l \in Loops, NEW c \in Cases,
         Conclude(l, c)
  PROVE  PromiseInv'
  <1>1. /\ decided' = decided /\ drafted' = drafted /\ DecideIfReady(l, c, cases[c])
        /\ ~Emitting(l, c)
    BY DEF Conclude, outcomes, Emitting
  <1>2. cases[c].delegated
    BY DEF Conclude, ClaimInvariant, CaseInv, DelegationFor
  <1> QED
    BY <1>1, <1>2, DecidePromise

LEMMA ReaperPromise ==
  ASSUME TypeOK, ClaimInvariant, PromiseInv, StepOK, Sweep \/ \E c \in Cases : Reap(c)
  PROVE  PromiseInv'
  <1>1. CASE Sweep
    BY <1>1, NonePromise DEF Sweep, store, outcomes
  <1>2. ASSUME NEW c \in Cases, Reap(c) PROVE PromiseInv'
    <2>1. /\ decided' = decided /\ drafted' = drafted /\ "reaper" \in Loops
          /\ ~Emitting("reaper", c)
      BY <1>2 DEF Reap, outcomes, Loops, Free, Emitting
    <2>2. cases[c].delegated
      BY <1>2 DEF Reap, ClaimInvariant, CaseInv, DelegationFor
    <2>3. CASE UNCHANGED store
      BY <2>1, <2>3, NonePromise DEF store
    <2>4. CASE ApplyDecision("reaper", c, cases[c])
      BY <2>1, <2>2, <2>4, DecidePromise
    <2> QED
      BY <1>2, <2>3, <2>4 DEF Reap
  <1> QED
    BY <1>1, <1>2

\* The first decision of a case is published, and becomes the only one.
LEMMA PublishDecisionPromise ==
  ASSUME TypeOK, PromiseInv, MaxFaults = 0, NEW l \in Loops, NEW c \in Cases,
         PublishDecision(l, c)
  PROVE  /\ PromiseInv' /\ drafted' = drafted /\ decided[c] = <<>>
         /\ decided' = [decided EXCEPT ![c] = <<verdict[l][c]>>]
  <1>1. StoreOK /\ TopicsOK /\ ~Fault /\ PromiseFor(c) /\ verdict[l][c] \in Decision
    BY TypeSplit, NoFault DEF PromiseInv, TypeOK
  <1>2. /\ pc[l][c] = "decide" /\ drafted' = drafted
        /\ decided' = [decided EXCEPT ![c] = Append(@, verdict[l][c])]
        /\ Suspend(l, c, cases[c], "draft") /\ UNCHANGED verdict
    BY <1>1 DEF PublishDecision
  <1>3. decided[c] = <<>> /\ drafted[c] = <<>>
    BY <1>1, <1>2 DEF PromiseFor
  <1>4. Append(decided[c], verdict[l][c]) = <<verdict[l][c]>>
    BY <1>3
  <1>5. decided' = [decided EXCEPT ![c] = <<verdict[l][c]>>]
    BY <1>2, <1>4
  <1>6. /\ cases'[c] = cases[c] /\ pc'[l][c] = "draft" /\ OthersWait(l, c)
        /\ verdict'[l][c] = verdict[l][c]
        /\ \A d \in Cases : d # c =>
             cases'[d] = cases[d] /\ \A m \in Loops :
               pc'[m][d] = pc[m][d] /\ verdict'[m][d] = verdict[m][d]
    BY <1>1, <1>2, MoveStep
  <1>7. decided'[c] = <<verdict[l][c]>> /\ \A d \in Cases : d # c => decided'[d] = decided[d]
    BY <1>1, <1>5 DEF TopicsOK
  <1>8. Emitting(l, c) /\ Emitting(l, c)'
    BY <1>2, <1>6 DEF Emitting
  <1>9. \A m \in Loops : m # l => ~Emitting(m, c) /\ ~Emitting(m, c)'
    <2>1. \A m \in Loops : m # l => ~Emitting(m, c)
      BY <1>1, <1>8 DEF PromiseFor
    <2> QED
      BY <1>6, <2>1 DEF OthersWait, Emitting
  <1>10. \A m \in Loops : pc'[m][c] \in {"decide", "draft"} => m = l
    BY <1>9 DEF Emitting
  <1>11. PromiseFor(c)'
    BY <1>1, <1>2, <1>3, <1>6, <1>7, <1>8, <1>9, <1>10 DEF PromiseFor
  <1>12. ASSUME NEW d \in Cases, d # c PROVE PromiseFor(d)'
    BY <1>2, <1>6, <1>7, <1>12, PromiseAlone DEF AloneFor, PromiseInv
  <1> QED
    BY <1>2, <1>3, <1>5, <1>11, <1>12 DEF PromiseInv

\* The reply follows its decision.
LEMMA PublishDraftPromise ==
  ASSUME TypeOK, ClaimInvariant, PromiseInv, MaxFaults = 0, NEW l \in Loops, NEW c \in Cases,
         PublishDraft(l, c)
  PROVE  /\ PromiseInv' /\ decided' = decided /\ drafted[c] = <<>>
         /\ decided[c] = <<verdict[l][c]>>
         /\ \E r : /\ drafted' = [drafted EXCEPT ![c] = <<r>>]
                   /\ r.outcome = verdict[l][c].outcome
  <1> DEFINE v == verdict[l][c]
             r == [outcome |-> v.outcome,
                   requires_human_approval |-> requires_human_approval(v.outcome)]
             k == [cases[c] EXCEPT !.status = v.status]
  <1>1. /\ StoreOK /\ TopicsOK /\ ~Fault /\ PromiseFor(c) /\ ClaimFor(c)
        /\ cases[c] \in Case
    BY TypeSplit, NoFault DEF PromiseInv, TypeOK, ClaimInvariant, CaseInv
  <1>2. /\ pc[l][c] = "draft" /\ decided' = decided
        /\ drafted' = [drafted EXCEPT ![c] = Append(@, r)]
        /\ Return(l, c, k)
    BY <1>1 DEF PublishDraft
  <1>3. decided[c] = <<v>> /\ drafted[c] = <<>>
    BY <1>1, <1>2 DEF PromiseFor
  <1>4. drafted' = [drafted EXCEPT ![c] = <<r>>]
    <2>1. Append(drafted[c], r) = <<r>>
      BY <1>3
    <2> QED
      BY <1>2, <2>1
  <1>5. Emitting(l, c) /\ Settled(v.status)
    BY <1>1, <1>2 DEF Emitting, ClaimFor
  <1>6. k.status = v.status /\ r.outcome = v.outcome
    BY <1>1 DEF Case
  <1> HIDE DEF k, v, r
  <1>7. /\ cases'[c] = k /\ pc'[l][c] = "idle" /\ OthersWait(l, c)
        /\ \A d \in Cases : d # c =>
             cases'[d] = cases[d] /\ \A m \in Loops :
               pc'[m][d] = pc[m][d] /\ verdict'[m][d] = verdict[m][d]
    BY <1>1, <1>2, ReturnStep
  <1>8. \A m \in Loops : ~Emitting(m, c)'
    <2>1. \A m \in Loops : m # l => ~Emitting(m, c)
      BY <1>1, <1>5 DEF PromiseFor
    <2> QED
      BY <1>7, <2>1 DEF OthersWait, Emitting
  <1>9. \A m \in Loops : pc'[m][c] \notin {"decide", "draft"}
    BY <1>8 DEF Emitting
  <1>10. Settled(cases[c].status)'
    BY <1>5, <1>6, <1>7 DEF Settled, is_terminal
  <1>11. PromiseFor(c)'
    BY <1>8, <1>9, <1>10 DEF PromiseFor
  <1>12. ASSUME NEW d \in Cases, d # c PROVE PromiseFor(d)'
    <2>1. drafted'[d] = drafted[d]
      BY <1>1, <1>4, <1>12 DEF TopicsOK
    <2> QED
      BY <1>2, <1>7, <1>12, <2>1, PromiseAlone DEF AloneFor, PromiseInv
  <1> QED
    BY <1>2, <1>3, <1>4, <1>6, <1>11, <1>12 DEF PromiseInv, v

LEMMA ClockPromise ==
  ASSUME TypeOK, PromiseInv, StepOK, Clock
  PROVE  PromiseInv'
  <1>1. PICK c \in Cases : DeadlinePasses(c)
    BY DEF Clock
  <1>2. /\ pc' = pc /\ verdict' = verdict /\ decided' = decided /\ drafted' = drafted
        /\ cases'[c] = [cases[c] EXCEPT !.deadline = "passed"]
        /\ \A d \in Cases : d # c => AloneFor(d)
    BY <1>1 DEF DeadlinePasses, outcomes, AloneFor, TypeOK
  <1>3. cases'[c].delegated = cases[c].delegated /\ cases'[c].status = cases[c].status
    BY <1>2 DEF TypeOK, Case
  <1>4. PromiseFor(c)'
    <2>1. \A m \in Loops : Emitting(m, c)' <=> Emitting(m, c)
      BY <1>2 DEF Emitting
    <2>2. Settled(cases[c].status)' <=> Settled(cases[c].status)
      BY <1>3 DEF Settled, is_terminal
    <2> QED
      BY <1>2, <1>3, <2>1, <2>2 DEF PromiseInv, PromiseFor
  <1> QED
    BY <1>2, <1>4, PromiseAlone DEF PromiseInv

\* Every other step publishes neither a decision nor a reply.
LEMMA OthersPublishNothing ==
  ASSUME [Next]_vars
  PROVE  \/ UNCHANGED <<decided, drafted>>
         \/ \E l \in Loops, c \in Cases : PublishDecision(l, c) \/ PublishDraft(l, c)
  <1>1. ASSUME NEW c \in Cases, Intake(c) PROVE UNCHANGED <<decided, drafted>>
    BY <1>1, Zenon DEF Intake, ReceiveTicket, Classify, PublishClassified, RequestBilling,
      RequestRisk, RequestReview, AnnounceReview, outcomes
  <1>2. CASE \/ \E m \in results : ReceiveResult(m)
             \/ \E e \in billing_events : ReceiveBilling(e)
             \/ \E e \in risk_events : ReceiveRisk(e)
             \/ Sweep \/ \E c \in Cases : Reap(c)
             \/ \E l \in Loops, c \in Cases : Conclude(l, c)
    BY <1>2, Zenon DEF ReceiveResult, ReceiveBilling, ReceiveRisk, Sweep, Reap, Conclude, outcomes
  <1>3. CASE Peers \/ Clock \/ UNCHANGED vars
    BY <1>3, Zenon DEF Peers, BillingReplies, RiskReplies, PeerFails, Clock, DeadlinePasses,
      vars, outcomes
  <1> QED
    BY <1>1, <1>2, <1>3, Zenon DEF Next, Loop

LEMMA NextPromise ==
  ASSUME TypeOK, ClaimInvariant, PromiseInv, MaxFaults = 0, [Next]_vars
  PROVE  PromiseInv'
  <1>0. StepOK
    BY NextOK
  <1>1. CASE UNCHANGED vars
    BY <1>1, NonePromise DEF vars, store, outcomes
  <1>2. CASE Peers
    <2>1. UNCHANGED <<cases, pc, verdict, decided, drafted>>
      BY <1>2 DEF Peers, BillingReplies, RiskReplies, PeerFails, store, outcomes
    <2> QED
      BY <2>1, NonePromise
  <1>3. ASSUME NEW l \in Loops, Loop(l) PROVE PromiseInv'
    BY <1>0, <1>3, IntakePromise, ResultPromise, BillingPromise, RiskPromise,
       ReaperPromise, ConcludePromise, PublishDecisionPromise, PublishDraftPromise DEF Loop
  <1> QED
    BY <1>0, <1>1, <1>2, <1>3, ClockPromise DEF Next

\* The inductive invariant of a run without faults: one emitter per case, the
\* decision before the reply, and nothing published for an unsettled case.
THEOREM PromiseInvariance ==
  ASSUME MaxFaults = 0
  PROVE  Spec => []PromiseInv
  <1>1. Init => PromiseInv
    <2> SUFFICES ASSUME Init, NEW c \in Cases PROVE PromiseFor(c)
      BY DEF PromiseInv
    <2>1. /\ decided[c] = <<>> /\ drafted[c] = <<>>
          /\ \A l \in Loops : pc[l][c] = "idle" /\ ~Emitting(l, c)
      BY DEF Init, Emitting
    <2> QED
      BY <2>1 DEF PromiseFor
  <1>2. TypeOK /\ ClaimInvariant /\ PromiseInv /\ [Next]_vars => PromiseInv'
    BY NextPromise
  <1> QED
    BY <1>1, <1>2, TypeCorrect, ClaimInvariantHolds, PTL DEF Spec

-----------------------------------------------------------------------------
\* The refinement of CaseDecision.

\* The refinement mapping of a topic on which one event, or none, was published.
LEMMA MappedLog ==
  /\ OutcomesOf(<<>>) = <<>>
  /\ \A d : OutcomesOf(<<d>>) = <<d.outcome>>
  <1>1. OutcomesOf(<<>>) = <<>>
    BY DEF OutcomesOf
  <1>2. ASSUME NEW d PROVE OutcomesOf(<<d>>) = <<d.outcome>>
    <2>1. DOMAIN <<d>> = {1} /\ DOMAIN <<d.outcome>> = {1}
      OBVIOUS
    <2>2. <<d>>[1] = d /\ <<d.outcome>>[1] = d.outcome
      OBVIOUS
    <2> QED
      BY <2>1, <2>2 DEF OutcomesOf
  <1> QED
    BY <1>1, <1>2

LEMMA DecidesAsPromised ==
  ASSUME TypeOK, PromiseInv, MaxFaults = 0, NEW l \in Loops, NEW c \in Cases,
         PublishDecision(l, c)
  PROVE  Promise!Decide(c)
  <1> DEFINE d == verdict[l][c]
  <1>1. /\ drafted' = drafted /\ decided[c] = <<>>
        /\ decided' = [decided EXCEPT ![c] = <<d>>]
    BY PublishDecisionPromise
  <1>2. DOMAIN decided = Cases /\ d.outcome \in Outcome
    BY DEF TypeOK, Decision
  <1> HIDE DEF d
  <1>3. OutcomesOf(decided[c]) = <<>>
    BY <1>1, MappedLog
  <1>4. [e \in Cases |-> OutcomesOf(decided'[e])]
          = [[e \in Cases |-> OutcomesOf(decided[e])] EXCEPT ![c] = <<d.outcome>>]
    <2>1. decided'[c] = <<d>> /\ \A e \in Cases : e # c => decided'[e] = decided[e]
      BY <1>1, <1>2
    <2>2. OutcomesOf(decided'[c]) = <<d.outcome>>
      BY <2>1, MappedLog
    <2> QED
      BY <2>1, <2>2
  <1>5. [e \in Cases |-> OutcomesOf(drafted'[e])] = [e \in Cases |-> OutcomesOf(drafted[e])]
    BY <1>1
  <1>6. [e \in Cases |-> OutcomesOf(decided[e])][c] = <<>>
    BY <1>3
  <1> QED
    BY <1>2, <1>4, <1>5, <1>6 DEF Promise!Decide

LEMMA RepliesAsPromised ==
  ASSUME TypeOK, ClaimInvariant, PromiseInv, MaxFaults = 0, NEW l \in Loops, NEW c \in Cases,
         PublishDraft(l, c)
  PROVE  Promise!Reply(c)
  <1> DEFINE d == verdict[l][c]
  <1>1. /\ decided' = decided /\ drafted[c] = <<>> /\ decided[c] = <<d>>
        /\ \E r : drafted' = [drafted EXCEPT ![c] = <<r>>] /\ r.outcome = d.outcome
    BY PublishDraftPromise
  <1> HIDE DEF d
  <1>2. PICK r : drafted' = [drafted EXCEPT ![c] = <<r>>] /\ r.outcome = d.outcome
    BY <1>1
  <1>3. DOMAIN drafted = Cases
    BY DEF TypeOK
  <1>4. OutcomesOf(decided[c]) = <<d.outcome>> /\ OutcomesOf(drafted[c]) = <<>>
    BY <1>1, MappedLog
  <1>5. [e \in Cases |-> OutcomesOf(drafted'[e])]
          = [[e \in Cases |-> OutcomesOf(drafted[e])] EXCEPT ![c] = <<r.outcome>>]
    <2>1. drafted'[c] = <<r>> /\ \A e \in Cases : e # c => drafted'[e] = drafted[e]
      BY <1>2, <1>3
    <2>2. OutcomesOf(drafted'[c]) = <<r.outcome>>
      BY <2>1, MappedLog
    <2> QED
      BY <2>1, <2>2
  <1>6. [e \in Cases |-> OutcomesOf(decided'[e])] = [e \in Cases |-> OutcomesOf(decided[e])]
    BY <1>1
  <1>7. /\ [e \in Cases |-> OutcomesOf(decided[e])][c] = <<d.outcome>>
        /\ [e \in Cases |-> OutcomesOf(drafted[e])][c] = <<>>
    BY <1>4
  <1>8. <<d.outcome>> # <<>>
    OBVIOUS
  <1> QED
    BY <1>2, <1>5, <1>6, <1>7, <1>8 DEF Promise!Reply

\* The safety half of PromiseKept, for every set of cases, any redelivery and
\* any silence of the peers: as long as no publish, peer or status write fails,
\* each step of the agent decides a case once, replies to it once with the same
\* outcome, or is invisible on both topics.
THEOREM PromiseSafety ==
  ASSUME MaxFaults = 0
  PROVE  Spec => Promise!Init /\ [][Promise!Next]_(Promise!vars)
  <1>1. Init => Promise!Init
    <2> SUFFICES ASSUME Init PROVE Promise!Init
      OBVIOUS
    <2>1. \A c \in Cases : decided[c] = <<>> /\ drafted[c] = <<>>
      BY DEF Init
    <2>2. \A c \in Cases : OutcomesOf(decided[c]) = <<>> /\ OutcomesOf(drafted[c]) = <<>>
      BY <2>1, MappedLog
    <2> QED
      BY <2>2 DEF Promise!Init
  <1>2. TypeOK /\ ClaimInvariant /\ PromiseInv /\ [Next]_vars
          => [Promise!Next]_(Promise!vars)
    <2> SUFFICES ASSUME TypeOK, ClaimInvariant, PromiseInv, [Next]_vars
                 PROVE  [Promise!Next]_(Promise!vars)
      OBVIOUS
    <2>1. CASE UNCHANGED <<decided, drafted>>
      BY <2>1 DEF Promise!vars
    <2>2. ASSUME NEW l \in Loops, NEW c \in Cases, PublishDecision(l, c) \/ PublishDraft(l, c)
          PROVE  Promise!Next
      BY <2>2, DecidesAsPromised, RepliesAsPromised DEF Promise!Next
    <2> QED
      BY <2>1, <2>2, OthersPublishNothing
  <1> QED
    BY <1>1, <1>2, TypeCorrect, ClaimInvariantHolds, PromiseInvariance, PTL DEF Spec

=============================================================================
